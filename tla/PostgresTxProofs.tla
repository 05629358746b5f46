-------------------------- MODULE PostgresTxProofs --------------------------
(***************************************************************************)
(* Theorems about PostgresTx, for any number of connections, devices and   *)
(* usage rows and any max_usages.  They hold of Spec, so they ask nothing  *)
(* of the scheduler; FairSpec implies Spec.                                *)
(***************************************************************************)
EXTENDS PostgresTx, TLAPS

\* What a connection remembers fits the statement it is at: the type alone
\* lets a revokeUsage be at its UPDATE with no usage row in hand.
ShapeOf(t) ==
    /\ t.op = "idle" => t = Idle
    /\ t.op = "register" =>
          /\ t.at \in {"find", "count", "lock", "insert", "commit"}
          /\ t.f \in Fingerprints /\ t.status \in {"pending", "active"}
          /\ t.at = "commit" => t.u \in UsageIds
    /\ t.op = "transition" => t.at \in {"write", "commit"} /\ t.to \in Status
    /\ t.op = "revokeUsage" => /\ t.at \in {"write", "audit", "commit"}
                               /\ t.u \in UsageIds

TxShape == \A p \in Procs : ShapeOf(tx[p])

\* The lock a transaction holds on the license row is the one the statements
\* it has run took.
HoldOf(t) == IF t.op = "register" /\ t.at \in {"insert", "commit"} THEN "update"
             ELSE IF t.op = "transition" /\ t.at = "commit" THEN "noKeyUpdate"
             ELSE IF t.op = "revokeUsage" /\ t.at = "commit" THEN "keyShare"
             ELSE "none"

\* Row locks are held to the COMMIT or ROLLBACK, and no two connections hold
\* locks that conflict.
LockDiscipline ==
    /\ \A p \in Procs : hold[p] = HoldOf(tx[p])
    /\ \A p, q \in Procs : p # q => ~conflicts(hold[p], hold[q])

\* A row's end and its usage.revoked audit rows are committed together.
EndsAreAudited ==
    \A u \in UsageIds : seatAudit[u] > 0 <=> usage[u].status = "revoked"

\* A usage row the UPDATE of a revokeUsage is about was inserted before.
RevokeHasRow ==
    \A p \in Procs : tx[p].op = "revokeUsage" => usage[tx[p].u].status # "none"

\* What the unique index allowed an INSERT still holds when it commits: who
\* could add another row of the device waits for the license row.
InsertStands ==
    \A p \in Procs : tx[p].op = "register" /\ tx[p].at = "commit" =>
        usage[tx[p].u].status = "none" /\ uniqueIndexAllows(tx[p].f)

PgInv == /\ PgTypeOK /\ TxShape /\ LockDiscipline /\ EndsAreAudited
         /\ RevokeHasRow /\ InsertStands /\ PgOneSeatPerDevice

\* A connection moves to another statement, or to none, while the rows stay:
\* reads, locks, writes that are not committed, ROLLBACK.
LEMMA LocalStepKeeps ==
    ASSUME PgInv, NEW p \in Procs, NEW t,
           t \in Tx, ShapeOf(t),
           tx' = [tx EXCEPT ![p] = t],
           hold' = [hold EXCEPT ![p] = HoldOf(t)],
           grants(p, HoldOf(t)),
           t.op = "revokeUsage" => usage[t.u].status # "none",
           t.op = "register" /\ t.at = "commit" =>
               usage[t.u].status = "none" /\ uniqueIndexAllows(t.f),
           UNCHANGED <<status, usage, seatAudit>>
    PROVE  PgInv'
<1>1. HoldOf(t) \in Mode
  BY DEF HoldOf, Mode
<1>2. PgTypeOK'
  BY <1>1 DEF PgInv, PgTypeOK
<1>3. TxShape'
  BY DEF PgInv, PgTypeOK, TxShape
<1>4. LockDiscipline'
  <2>1. \A q \in Procs : hold'[q] = HoldOf(tx'[q])
    BY DEF PgInv, PgTypeOK, LockDiscipline
  <2>2. \A q \in Procs \ {p} : hold'[q] = hold[q]
    BY DEF PgInv, PgTypeOK
  <2>3. hold'[p] = HoldOf(t)
    BY DEF PgInv, PgTypeOK
  <2>4. \A q \in Procs \ {p} : ~conflicts(hold'[p], hold'[q])
    BY <2>2, <2>3 DEF grants
  <2>5. \A q \in Procs \ {p} : ~conflicts(hold'[q], hold'[p])
    BY <2>4 DEF conflicts
  <2>6. \A q, r \in Procs \ {p} : q # r => ~conflicts(hold'[q], hold'[r])
    BY <2>2 DEF PgInv, LockDiscipline
  <2>7. \A q, r \in Procs : q # r => ~conflicts(hold'[q], hold'[r])
    BY <2>4, <2>5, <2>6
  <2> QED
    BY <2>1, <2>7 DEF LockDiscipline, conflicts
<1>5. RevokeHasRow'
  BY DEF PgInv, PgTypeOK, RevokeHasRow
<1>6. InsertStands'
  BY DEF PgInv, PgTypeOK, InsertStands, uniqueIndexAllows, activeUsages
<1>7. EndsAreAudited' /\ PgOneSeatPerDevice'
  BY DEF PgInv, EndsAreAudited, PgOneSeatPerDevice, activeUsages
<1> QED
  BY <1>2, <1>3, <1>4, <1>5, <1>6, <1>7 DEF PgInv

\* Idle is a transaction that holds nothing.
LEMMA IdleIsFree ==
    ASSUME NEW p \in Procs
    PROVE  /\ Idle \in Tx /\ ShapeOf(Idle) /\ HoldOf(Idle) = "none"
           /\ grants(p, "none") /\ Idle.op = "idle"
  BY DEF Idle, Tx, ShapeOf, HoldOf, grants, conflicts

\* A ROLLBACK leaves the connection idle and lets go of the license row.
LEMMA RollbackKeeps ==
    ASSUME PgInv, NEW p \in Procs, rollback(p)
    PROVE  PgInv'
<1>1. /\ tx' = [tx EXCEPT ![p] = Idle]
      /\ hold' = [hold EXCEPT ![p] = HoldOf(Idle)]
      /\ UNCHANGED <<status, usage, seatAudit>>
  BY IdleIsFree DEF rollback
<1>2. grants(p, HoldOf(Idle))
  BY IdleIsFree
<1>3. Idle.op # "revokeUsage" /\ Idle.op # "register"
  BY DEF Idle
<1> QED
  BY <1>1, <1>2, <1>3, IdleIsFree, LocalStepKeeps

\* The statements that read, or write what nobody waits for, leave the lock
\* on the license row as it is.
LEMMA NextKeeps ==
    ASSUME PgInv, NEW p \in Procs, NEW label, next(p, label),
           \/ tx[p].at = "find" /\ label = "count"
           \/ tx[p].at = "count" /\ label = "lock"
           \/ tx[p].op = "revokeUsage" /\ tx[p].at = "write" /\ label = "audit"
    PROVE  PgInv'
<1> DEFINE t == [tx[p] EXCEPT !.at = label]
<1>0. tx[p] \in Tx /\ ShapeOf(tx[p]) /\ hold[p] = HoldOf(tx[p])
  BY DEF PgInv, PgTypeOK, TxShape, LockDiscipline
<1>1. t \in Tx
  BY <1>0 DEF Tx
<1>2. ShapeOf(t)
  BY <1>0 DEF ShapeOf, Tx, Idle
<1>3. HoldOf(t) = "none" /\ hold[p] = "none"
  BY <1>0 DEF HoldOf, ShapeOf, Tx, Idle
<1>4. grants(p, "none")
  BY IdleIsFree
<1>5. tx' = [tx EXCEPT ![p] = t] /\ UNCHANGED <<status, usage, seatAudit, hold>>
  BY DEF next
<1>6. hold' = [hold EXCEPT ![p] = HoldOf(t)]
  BY <1>3, <1>5 DEF PgInv, PgTypeOK
<1>7. t.op = "revokeUsage" => usage[t.u].status # "none"
  BY <1>0 DEF PgInv, RevokeHasRow, Tx
<1>8. t.at # "commit"
  BY <1>0 DEF Tx
<1> HIDE DEF t
<1> QED
  BY <1>1, <1>2, <1>3, <1>4, <1>5, <1>6, <1>7, <1>8, LocalStepKeeps

\* The statements that lock the license row: FOR UPDATE, UPDATE licenses and
\* the audit row of a revokeUsage.
LEMMA LocksKeep ==
    ASSUME PgInv, NEW p \in Procs, NEW mode, NEW label, locks(p, mode, label),
           \/ tx[p].at = "lock" /\ label = "insert" /\ mode = "update"
           \/ /\ tx[p].op = "transition" /\ tx[p].at = "write"
              /\ label = "commit" /\ mode = "noKeyUpdate"
           \/ tx[p].at = "audit" /\ label = "commit" /\ mode = "keyShare"
    PROVE  PgInv'
<1> DEFINE t == [tx[p] EXCEPT !.at = label]
<1>0. tx[p] \in Tx /\ ShapeOf(tx[p])
  BY DEF PgInv, PgTypeOK, TxShape
<1>1. t \in Tx
  BY <1>0 DEF Tx
<1>2. ShapeOf(t)
  BY <1>0 DEF ShapeOf, Tx, Idle
<1>3. HoldOf(t) = mode
  BY <1>0 DEF HoldOf, ShapeOf, Tx, Idle
<1>4. grants(p, mode)
  BY DEF locks
<1>5. tx' = [tx EXCEPT ![p] = t] /\ UNCHANGED <<status, usage, seatAudit>>
  BY DEF locks
<1>6. hold' = [hold EXCEPT ![p] = HoldOf(t)]
  BY <1>3 DEF locks
<1>7. t.op = "revokeUsage" => usage[t.u].status # "none"
  BY <1>0 DEF PgInv, RevokeHasRow, Tx
<1>8. ~(t.op = "register" /\ t.at = "commit")
  BY <1>0 DEF Tx, ShapeOf, Idle
<1> HIDE DEF t
<1> QED
  BY <1>1, <1>2, <1>3, <1>4, <1>5, <1>6, <1>7, <1>8, LocalStepKeeps

\* The first statement of a transaction: an idle connection takes on an
\* operation, reading the committed rows.
LEMMA BeginKeeps ==
    ASSUME PgInv, NEW p \in Procs, Begin(p)
    PROVE  PgInv'
<1> DEFINE t == tx'[p]
<1>1. /\ tx' = [tx EXCEPT ![p] = t] /\ t \in Tx /\ ShapeOf(t)
      /\ HoldOf(t) = "none" /\ t.at # "commit" /\ tx[p].op = "idle"
      /\ t.op = "revokeUsage" => usage[t.u].status # "none"
      /\ UNCHANGED <<status, usage, seatAudit, hold>>
  <2>1. ASSUME NEW f \in Fingerprints, RegisterGetLicense(p, f)
        PROVE  <1>1!:
    <3>1. t = [Idle EXCEPT !.op = "register", !.at = "find",
                           !.f = f, !.status = status]
      BY <2>1 DEF RegisterGetLicense, PgInv, PgTypeOK
    <3>2. t \in Tx
      BY <2>1, <3>1 DEF RegisterGetLicense, Idle, Tx, PgInv, PgTypeOK
    <3>3. /\ tx' = [tx EXCEPT ![p] = t] /\ tx[p].op = "idle"
          /\ UNCHANGED <<status, usage, seatAudit, hold>>
      BY <2>1, <3>1 DEF RegisterGetLicense
    <3>4. status \in {"pending", "active"}
      BY <2>1 DEF RegisterGetLicense
    <3> HIDE DEF t
    <3>5. ShapeOf(t) /\ HoldOf(t) = "none" /\ t.at # "commit" /\ t.op = "register"
      BY <2>1, <3>1, <3>4 DEF ShapeOf, HoldOf, Idle
    <3> QED
      BY <3>2, <3>3, <3>5
  <2>2. ASSUME NEW to \in Status, TransitionGetLicense(p, to)
        PROVE  <1>1!:
    <3>1. t = [Idle EXCEPT !.op = "transition", !.at = "write",
                           !.status = status, !.to = to]
      BY <2>2 DEF TransitionGetLicense, PgInv, PgTypeOK
    <3>2. t \in Tx
      BY <2>2, <3>1 DEF TransitionGetLicense, Idle, Tx, PgInv, PgTypeOK
    <3>3. /\ tx' = [tx EXCEPT ![p] = t] /\ tx[p].op = "idle"
          /\ UNCHANGED <<status, usage, seatAudit, hold>>
      BY <2>2, <3>1 DEF TransitionGetLicense
    <3> HIDE DEF t
    <3>5. ShapeOf(t) /\ HoldOf(t) = "none" /\ t.at # "commit" /\ t.op = "transition"
      BY <2>2, <3>1 DEF ShapeOf, HoldOf, Idle
    <3> QED
      BY <3>2, <3>3, <3>5
  <2>3. ASSUME NEW u \in UsageIds, RevokeGetUsage(p, u)
        PROVE  <1>1!:
    <3>1. t = [Idle EXCEPT !.op = "revokeUsage", !.at = "write", !.u = u]
      BY <2>3 DEF RevokeGetUsage, PgInv, PgTypeOK
    <3>2. t \in Tx
      BY <2>3, <3>1 DEF RevokeGetUsage, Idle, Tx, PgInv, PgTypeOK
    <3>3. /\ tx' = [tx EXCEPT ![p] = t] /\ tx[p].op = "idle"
          /\ UNCHANGED <<status, usage, seatAudit, hold>>
          /\ usage[u].status # "none"
      BY <2>3, <3>1 DEF RevokeGetUsage
    <3> HIDE DEF t
    <3>5. ShapeOf(t) /\ HoldOf(t) = "none" /\ t.at # "commit" /\ t.u = u
      BY <2>3, <3>1 DEF ShapeOf, HoldOf, Idle
    <3> QED
      BY <3>2, <3>3, <3>5
  <2> QED
    BY <2>1, <2>2, <2>3 DEF Begin
<1> HIDE DEF t
<1>2. hold[p] = "none"
  BY <1>1 DEF PgInv, TxShape, ShapeOf, LockDiscipline, HoldOf, Idle
<1>3. hold' = [hold EXCEPT ![p] = HoldOf(t)]
  BY <1>1, <1>2 DEF PgInv, PgTypeOK
<1>4. grants(p, HoldOf(t))
  BY <1>1, IdleIsFree
<1> QED
  BY <1>1, <1>3, <1>4, LocalStepKeeps

\* INSERT INTO license_usages: the unique index lets the row in, or the
\* transaction rolls back.
LEMMA InsertKeeps ==
    ASSUME PgInv, NEW p \in Procs, Insert(p)
    PROVE  PgInv'
<1>1. tx[p] \in Tx /\ ShapeOf(tx[p]) /\ hold[p] = HoldOf(tx[p]) /\ tx[p].at = "insert"
  BY DEF PgInv, PgTypeOK, TxShape, LockDiscipline, Insert
<1>2. CASE rollback(p)
  BY <1>2, RollbackKeeps
<1>3. CASE /\ uniqueIndexAllows(tx[p].f)
           /\ \E u \in UsageIds : usage[u].status = "none"
           /\ ~rollback(p)
  <2> DEFINE u == CHOOSE v \in UsageIds : usage[v].status = "none"
             t == [tx[p] EXCEPT !.at = "commit", !.u = u]
  <2>1. u \in UsageIds /\ usage[u].status = "none"
    BY <1>3
  <2>2. /\ tx' = [tx EXCEPT ![p] = t]
        /\ UNCHANGED <<status, usage, seatAudit, hold>>
    BY <1>3 DEF Insert
  <2> HIDE DEF u
  <2>3. tx[p].op = "register"
    BY <1>1 DEF ShapeOf, Tx, Idle
  <2>4. /\ t \in Tx /\ t.u = u /\ t.f = tx[p].f /\ t.op = "register"
        /\ t.at = "commit" /\ t.status = tx[p].status
    BY <1>1, <2>1, <2>3 DEF Tx
  <2>7. hold[p] = "update"
    BY <1>1, <2>3 DEF HoldOf
  <2> HIDE DEF t
  <2>8. ShapeOf(t) /\ HoldOf(t) = "update"
    BY <1>1, <2>1, <2>3, <2>4 DEF ShapeOf, HoldOf
  <2>5. grants(p, HoldOf(t))
    BY <2>7, <2>8 DEF PgInv, LockDiscipline, grants
  <2>6. hold' = [hold EXCEPT ![p] = HoldOf(t)]
    BY <2>2, <2>7, <2>8 DEF PgInv, PgTypeOK
  <2> QED
    BY <1>3, <2>1, <2>2, <2>4, <2>8, <2>5, <2>6, LocalStepKeeps
<1> QED
  BY <1>2, <1>3 DEF Insert

\* What a COMMIT leaves of the connections: its own is idle and holds
\* nothing, the others are as they were.
LEMMA CommitFrees ==
    ASSUME PgInv, NEW p \in Procs,
           tx' = [tx EXCEPT ![p] = Idle], hold' = [hold EXCEPT ![p] = "none"]
    PROVE  /\ tx' \in [Procs -> Tx] /\ hold' \in [Procs -> Mode]
           /\ TxShape' /\ LockDiscipline'
           /\ \A q \in Procs : tx'[q].op # "idle" => q # p /\ tx'[q] = tx[q]
<1>1. tx' \in [Procs -> Tx] /\ hold' \in [Procs -> Mode]
  BY IdleIsFree DEF PgInv, PgTypeOK, Mode
<1>2. TxShape'
  BY IdleIsFree DEF PgInv, PgTypeOK, TxShape
<1>3. \A q \in Procs : hold'[q] = HoldOf(tx'[q])
  BY IdleIsFree DEF PgInv, PgTypeOK, LockDiscipline
<1>4. \A q, r \in Procs : q # r => ~conflicts(hold'[q], hold'[r])
  <2>1. hold'[p] = "none" /\ \A q \in Procs \ {p} : hold'[q] = hold[q]
    BY DEF PgInv, PgTypeOK
  <2>2. \A m \in Mode : ~conflicts("none", m) /\ ~conflicts(m, "none")
    BY DEF conflicts, Mode
  <2>3. \A q \in Procs \ {p} : ~conflicts(hold'[p], hold'[q]) /\ ~conflicts(hold'[q], hold'[p])
    BY <2>1, <2>2 DEF PgInv, PgTypeOK
  <2>4. \A q, r \in Procs \ {p} : q # r => ~conflicts(hold'[q], hold'[r])
    BY <2>1 DEF PgInv, LockDiscipline
  <2> QED
    BY <2>3, <2>4
<1>5. LockDiscipline'
  BY <1>3, <1>4 DEF LockDiscipline, conflicts
<1>6. \A q \in Procs : tx'[q].op # "idle" => q # p /\ tx'[q] = tx[q]
  BY IdleIsFree DEF PgInv, PgTypeOK
<1> QED
  BY <1>1, <1>2, <1>5, <1>6

\* The COMMIT of a registration: the row its INSERT was allowed appears, and
\* no other registration is past its own FOR UPDATE.
LEMMA RegisterCommitKeeps ==
    ASSUME PgInv, NEW p \in Procs, RegisterCommit(p)
    PROVE  PgInv'
<1> DEFINE u == tx[p].u
<1>1. /\ u \in UsageIds /\ usage[u].status = "none" /\ tx[p].f \in Fingerprints
      /\ uniqueIndexAllows(tx[p].f) /\ hold[p] = "update"
  BY DEF PgInv, TxShape, ShapeOf, InsertStands, LockDiscipline, HoldOf, RegisterCommit
<1>2. /\ usage' = [usage EXCEPT ![u] = [fingerprint |-> tx[p].f,
                                        status |-> "active"]]
      /\ status' = activated(tx[p].status)
      /\ tx' = [tx EXCEPT ![p] = Idle] /\ hold' = [hold EXCEPT ![p] = "none"]
      /\ UNCHANGED seatAudit
  BY DEF RegisterCommit
<1>3. /\ tx' \in [Procs -> Tx] /\ hold' \in [Procs -> Mode]
      /\ TxShape' /\ LockDiscipline'
      /\ \A q \in Procs : tx'[q].op # "idle" => q # p /\ tx'[q] = tx[q]
  BY <1>2, CommitFrees
<1> HIDE DEF u
<1>4. usage' \in [UsageIds -> Usage]
  BY <1>1, <1>2 DEF PgInv, PgTypeOK, Usage
<1>5. PgTypeOK'
  BY <1>2, <1>3, <1>4 DEF PgInv, PgTypeOK, activated, Status
<1>6. EndsAreAudited'
  BY <1>1, <1>2 DEF PgInv, PgTypeOK, EndsAreAudited, Usage
<1>7. RevokeHasRow'
  BY <1>1, <1>2, <1>3 DEF PgInv, PgTypeOK, RevokeHasRow, TxShape, ShapeOf, Usage
<1>8. \A q \in Procs \ {p} : ~(tx[q].op = "register" /\ tx[q].at = "commit")
  BY <1>1 DEF PgInv, LockDiscipline, HoldOf, conflicts
<1>9. InsertStands'
  BY <1>3, <1>8 DEF InsertStands
<1>10. PgOneSeatPerDevice'
  <2> SUFFICES ASSUME NEW a \in UsageIds, NEW b \in UsageIds,
                      usage'[a].status = "active", usage'[b].status = "active",
                      usage'[a].fingerprint = usage'[b].fingerprint
               PROVE  a = b
    BY DEF PgOneSeatPerDevice, activeUsages
  <2>1. \A v \in UsageIds : v # u => usage'[v] = usage[v]
    BY <1>2 DEF PgInv, PgTypeOK
  <2>2. usage'[u].fingerprint = tx[p].f
    BY <1>1, <1>2 DEF PgInv, PgTypeOK
  <2>3. \A v \in UsageIds : usage[v].status = "active"
                              => usage[v].fingerprint # tx[p].f
    BY <1>1 DEF uniqueIndexAllows, activeUsages
  <2> QED
    BY <2>1, <2>2, <2>3 DEF PgInv, PgOneSeatPerDevice, activeUsages
<1> QED
  BY <1>3, <1>5, <1>6, <1>7, <1>9, <1>10 DEF PgInv

\* The COMMIT of a lifecycle transition: no usage row changes.
LEMMA TransitionCommitKeeps ==
    ASSUME PgInv, NEW p \in Procs, TransitionCommit(p)
    PROVE  PgInv'
<1>1. tx[p].to \in Status
  BY DEF PgInv, TxShape, ShapeOf, TransitionCommit
<1>2. /\ tx' \in [Procs -> Tx] /\ hold' \in [Procs -> Mode]
      /\ TxShape' /\ LockDiscipline'
      /\ \A q \in Procs : tx'[q].op # "idle" => q # p /\ tx'[q] = tx[q]
  BY CommitFrees DEF TransitionCommit
<1>3. PgTypeOK'
  BY <1>1, <1>2 DEF PgInv, PgTypeOK, TransitionCommit
<1>4. RevokeHasRow'
  BY <1>2 DEF PgInv, RevokeHasRow, TransitionCommit
<1>5. InsertStands'
  BY <1>2 DEF PgInv, InsertStands, uniqueIndexAllows, activeUsages, TransitionCommit
<1>6. EndsAreAudited' /\ PgOneSeatPerDevice'
  BY DEF PgInv, TransitionCommit, EndsAreAudited, PgOneSeatPerDevice, activeUsages
<1> QED
  BY <1>2, <1>3, <1>4, <1>5, <1>6 DEF PgInv

\* The COMMIT of a revokeUsage: a row ends and gains an audit row, which
\* frees an entry of the index and takes none.
LEMMA RevokeCommitKeeps ==
    ASSUME PgInv, NEW p \in Procs, RevokeCommit(p)
    PROVE  PgInv'
<1> DEFINE u == tx[p].u
<1>1. u \in UsageIds /\ usage[u].status # "none"
  BY DEF PgInv, TxShape, ShapeOf, RevokeHasRow, RevokeCommit
<1>2. /\ usage' = [usage EXCEPT ![u].status = "revoked"]
      /\ seatAudit' = [seatAudit EXCEPT ![u] = @ + 1]
      /\ tx' = [tx EXCEPT ![p] = Idle] /\ hold' = [hold EXCEPT ![p] = "none"]
      /\ UNCHANGED status
  BY DEF RevokeCommit
<1>3. /\ tx' \in [Procs -> Tx] /\ hold' \in [Procs -> Mode]
      /\ TxShape' /\ LockDiscipline'
      /\ \A q \in Procs : tx'[q].op # "idle" => q # p /\ tx'[q] = tx[q]
  BY <1>2, CommitFrees
<1> HIDE DEF u
<1>4. usage' \in [UsageIds -> Usage] /\ seatAudit' \in [UsageIds -> Nat]
  BY <1>1, <1>2 DEF PgInv, PgTypeOK, Usage
<1>5. PgTypeOK'
  BY <1>2, <1>3, <1>4 DEF PgInv, PgTypeOK
<1>6. RevokeHasRow'
  BY <1>1, <1>2, <1>3 DEF PgInv, PgTypeOK, RevokeHasRow, TxShape, ShapeOf, Usage
<1>7. InsertStands'
  <2> SUFFICES ASSUME NEW q \in Procs, tx'[q].op = "register", tx'[q].at = "commit"
               PROVE  /\ usage'[tx'[q].u].status = "none"
                      /\ \A v \in UsageIds : usage'[v].status = "active"
                                               => usage'[v].fingerprint # tx'[q].f
    BY DEF InsertStands, uniqueIndexAllows, activeUsages
  <2>1. tx'[q] = tx[q] /\ tx[q].u \in UsageIds
    BY <1>3 DEF PgInv, TxShape, ShapeOf
  <2>2. usage[tx[q].u].status = "none" /\ \A v \in UsageIds :
            usage[v].status = "active" => usage[v].fingerprint # tx[q].f
    BY <2>1 DEF PgInv, InsertStands, uniqueIndexAllows, activeUsages
  <2> QED
    BY <1>1, <1>2, <2>1, <2>2 DEF PgInv, PgTypeOK, Usage
<1>8. EndsAreAudited'
  BY <1>1, <1>2 DEF PgInv, PgTypeOK, EndsAreAudited, Usage
<1>9. PgOneSeatPerDevice'
  BY <1>1, <1>2 DEF PgInv, PgTypeOK, PgOneSeatPerDevice, activeUsages, Usage
<1> QED
  BY <1>3, <1>5, <1>6, <1>7, <1>8, <1>9 DEF PgInv

\* The inductive invariant of the transactions.
THEOREM PgInvariant == Spec => []PgInv
<1>1. Init => PgInv
  <2> SUFFICES ASSUME Init PROVE PgInv
    OBVIOUS
  <2>1. \A p \in Procs : tx[p] = Idle /\ hold[p] = "none"
    BY DEF Init
  <2>2. PgTypeOK
    BY IdleIsFree DEF Init, PgTypeOK, Status, Usage, Mode
  <2>3. TxShape /\ LockDiscipline
    BY <2>1, IdleIsFree DEF TxShape, LockDiscipline, conflicts
  <2>4. RevokeHasRow /\ InsertStands
    BY <2>1, IdleIsFree DEF RevokeHasRow, InsertStands
  <2> QED
    BY <2>2, <2>3, <2>4 DEF Init, PgInv, EndsAreAudited, PgOneSeatPerDevice, activeUsages
<1>2. PgInv /\ [Next]_vars => PgInv'
  <2> SUFFICES ASSUME PgInv, [Next]_vars PROVE PgInv'
    OBVIOUS
  <2>1. CASE UNCHANGED vars
    BY <2>1 DEF vars, PgInv, PgTypeOK, TxShape, LockDiscipline, InsertStands,
       EndsAreAudited, RevokeHasRow, PgOneSeatPerDevice, activeUsages, uniqueIndexAllows
  <2>2. ASSUME NEW p \in Procs, Begin(p) PROVE PgInv'
    BY <2>2, BeginKeeps
  <2>3. ASSUME NEW p \in Procs, Continue(p) PROVE PgInv'
    <3>1. RegisterFind(p) => PgInv'
      BY RollbackKeeps, NextKeeps DEF RegisterFind
    <3>2. RegisterCount(p) => PgInv'
      BY RollbackKeeps, NextKeeps DEF RegisterCount
    <3>3. ForUpdate(p) \/ TransitionUpdate(p) \/ RevokeAudit(p) => PgInv'
      BY LocksKeep DEF ForUpdate, TransitionUpdate, RevokeAudit
    <3>4. RevokeUpdate(p) => PgInv'
      BY NextKeeps DEF RevokeUpdate
    <3> QED
      BY <2>3, <3>1, <3>2, <3>3, <3>4, InsertKeeps, RegisterCommitKeeps,
         TransitionCommitKeeps, RevokeCommitKeeps DEF Continue
  <2>4. ASSUME NEW p \in Procs, DeadlockVictim(p) PROVE PgInv'
    BY <2>4, RollbackKeeps DEF DeadlockVictim
  <2> QED
    BY <2>1, <2>2, <2>3, <2>4 DEF Next
<1> QED
  BY <1>1, <1>2, PTL DEF Spec

\* The partial unique index leaves a device one live seat, however many
\* registrations of it miss each other's rows.
THEOREM OneSeatPerDevicePg == Spec => []PgOneSeatPerDevice
<1>1. PgInv => PgOneSeatPerDevice
  BY DEF PgInv
<1> QED
  BY <1>1, PgInvariant, PTL

\* The license row's locks follow Postgres' table: each is held from the
\* statement that takes it to the COMMIT or ROLLBACK, and no two connections
\* ever hold modes that conflict.
THEOREM LockHeldToCommit == Spec => []LockDiscipline
<1>1. PgInv => LockDiscipline
  BY DEF PgInv
<1> QED
  BY <1>1, PgInvariant, PTL

\* A usage row that ended has its audit row, and no other row has one: an
\* end and its audit record are never committed apart.
THEOREM EndsAuditedPg == Spec => []EndsAreAudited
<1>1. PgInv => EndsAreAudited
  BY DEF PgInv
<1> QED
  BY <1>1, PgInvariant, PTL

\* The next statement of p waits for q: for the license row, for the row q
\* updated, for an entry of the unique index.
WaitsFor(p, q) ==
    /\ p # q
    /\ \/ tx[p].at = "insert" /\ indexWaitsFor(p, q)
       \/ tx[p].op = "revokeUsage" /\ tx[p].at = "write" /\ updating(q, tx[p].u)
       \/ tx[p].at = "lock" /\ conflicts("update", hold[q])
       \/ tx[p].op = "transition" /\ tx[p].at = "write" /\ conflicts("noKeyUpdate", hold[q])
       \/ tx[p].at = "audit" /\ conflicts("keyShare", hold[q])

\* Connections that all wait for one of themselves.
Wedged(C) == C # {} /\ \A p \in C : \E q \in C : WaitsFor(p, q)

DeadlocksAreLockCycles ==
    \A C \in SUBSET Procs : Wedged(C) => \E p, q \in C : lockCycle(p, q)

\* The one way these transactions deadlock: a registration, holding the
\* license row, inserts a device whose seat another connection is ending,
\* and that one's audit row waits for the license row.  Whoever waits for
\* anything else waits for a connection that goes on.
THEOREM OnlyDeadlock == Spec => []DeadlocksAreLockCycles
<1>1. ASSUME PgInv PROVE DeadlocksAreLockCycles
  <2> SUFFICES ASSUME NEW C \in SUBSET Procs, Wedged(C)
               PROVE  \E p, q \in C : lockCycle(p, q)
    BY DEF DeadlocksAreLockCycles
  <2>1. \A p \in C : tx[p] \in Tx /\ ShapeOf(tx[p]) /\ hold[p] = HoldOf(tx[p])
    BY <1>1 DEF PgInv, PgTypeOK, TxShape, LockDiscipline
  \* A member that is waited for holds something and is not about to commit.
  <2>2. ASSUME NEW p \in C, NEW q \in C, WaitsFor(p, q)
        PROVE  \/ tx[q].op = "register" /\ tx[q].at = "insert"
               \/ tx[q].op = "revokeUsage" /\ tx[q].at = "audit"
    <3>1. \E r \in C : WaitsFor(q, r)
      BY DEF Wedged
    <3>2. tx[q].at # "commit"
      BY <2>1, <3>1 DEF WaitsFor, ShapeOf, Idle
    <3>3. \/ tx[q].op = "revokeUsage" /\ tx[q].at \in {"audit", "commit"}
          \/ tx[q].op = "register" /\ tx[q].at = "commit"
          \/ hold[q] # "none"
      BY <2>2 DEF WaitsFor, indexWaitsFor, updating, conflicts
    <3>4. HoldOf(tx[q]) # "none" => tx[q].op = "register" /\ tx[q].at = "insert"
      BY <3>2 DEF HoldOf
    <3> QED
      BY <2>1, <3>2, <3>3, <3>4
  \* A registration of C waits for the index, for a connection at its audit
  \* row, which its own lock on the license row keeps waiting.
  <2>3. ASSUME NEW p \in C, tx[p].op = "register", tx[p].at = "insert"
        PROVE  \E q \in C : lockCycle(p, q)
    <3>1. PICK q \in C : WaitsFor(p, q)
      BY DEF Wedged
    <3>2. indexWaitsFor(p, q) /\ p # q
      BY <2>3, <3>1 DEF WaitsFor
    <3>3. \/ tx[q].op = "register" /\ tx[q].at = "insert"
          \/ tx[q].op = "revokeUsage" /\ tx[q].at = "audit"
      BY <2>2, <3>1
    <3>4. tx[q].at = "audit"
      BY <3>2, <3>3 DEF indexWaitsFor, updating
    <3>5. hold[p] = "update" /\ p \in Procs
      BY <2>1, <2>3 DEF HoldOf
    <3>6. ~grants(q, "keyShare")
      BY <3>2, <3>5 DEF grants, conflicts
    <3> QED
      BY <2>3, <3>2, <3>4, <3>6 DEF lockCycle
  <2>4. PICK p \in C, q \in C : WaitsFor(p, q)
    BY DEF Wedged
  <2>5. CASE tx[q].op = "register" /\ tx[q].at = "insert"
    BY <2>3, <2>5
  <2>6. CASE tx[q].op = "revokeUsage" /\ tx[q].at = "audit"
    <3>1. PICK r \in C : WaitsFor(q, r)
      BY DEF Wedged
    <3>2. hold[r] = "update"
      BY <2>6, <3>1 DEF WaitsFor, conflicts
    <3>3. tx[r].op = "register" /\ tx[r].at = "insert"
      <4>1. HoldOf(tx[r]) = "update"
        BY <2>1, <3>2
      <4>2. tx[r].op = "register"
        BY <4>1 DEF HoldOf
      <4> QED
        BY <2>2, <3>1, <4>2
    <3> QED
      BY <2>3, <3>3
  <2> QED
    BY <2>2, <2>4, <2>5, <2>6
<1> QED
  BY <1>1, PgInvariant, PTL
=============================================================================
