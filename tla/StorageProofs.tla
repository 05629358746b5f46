--------------------------- MODULE StorageProofs ----------------------------
(* Theorems about the storage adapters (StorageMachine) and about callers    *)
(* that share one connection (StorageSessions): the three adapters answer    *)
(* alike, every session implements the contract of storage/types.ts, a       *)
(* transaction is all or nothing, and a walk through the pages returns every *)
(* row once; for any tables, inputs, callers, writes and limits.             *)
EXTENDS StorageSessions, FiniteSetTheorems, WellFoundedInduction, TLAPS

-----------------------------------------------------------------------------
\* The writes made so far.
Made(k) == {w \in Procs \X Nat : w[2] <= k.count[w[1]]}

\* The bookkeeping of one connection: counts of writes, and sets of them.
ConnRecords ==
    [store : SUBSET (Procs \X Nat), live : SUBSET (Procs \X Nat), owner : Procs \cup {Null},
     count : [Procs -> Nat], mine : SUBSET (Procs \X Nat), committed : SUBSET (Procs \X Nat),
     gone : SUBSET (Procs \X Nat), acked : SUBSET (Procs \X Nat)]

ConnShape(k) ==
    /\ k \in ConnRecords
    /\ k.store \subseteq Made(k) /\ k.live \subseteq Made(k) /\ k.mine \subseteq Made(k)
    /\ k.committed \subseteq Made(k) /\ k.gone \subseteq Made(k)

\* What is decided stays so: committed writes are there, rolled back ones not.
Settled(k, rows) == k.committed \subseteq rows /\ k.gone \cap rows = {}

\* While a transaction is open, the snapshot a rollback would restore is
\* settled too and holds none of the transaction's own writes, which are all
\* in the store.
OpenTx(k) ==
    IF k.owner = Null THEN k.mine = {}
    ELSE Settled(k, k.live) /\ k.mine \cap k.live = {} /\ k.mine \subseteq k.store

ConnOK(k) == ConnShape(k) /\ Settled(k, k.store) /\ OpenTx(k)

ConnInv == ConnOK(conn)

-----------------------------------------------------------------------------
\* A write carries a number its caller never used, so it is in none of the
\* sets of writes before.
LEMMA FreshWrite ==
    ASSUME NEW k, ConnShape(k), NEW p \in Procs
    PROVE  <<p, k.count[p] + 1>> \notin Made(k)
  BY DEF Made, ConnShape, ConnRecords

LEMMA WriteKeeps ==
    ASSUME NEW p \in Procs, ConnOK(conn), Write(p)
    PROVE  ConnOK(conn')
  <1> DEFINE w == <<p, conn.count[p] + 1>>
  <1>1. ConnShape(conn)
    BY DEF ConnOK
  <1>2. w \in Procs \X Nat /\ w \notin Made(conn)
    BY <1>1, FreshWrite DEF ConnShape, ConnRecords
  <1>3. /\ conn'.count = [conn.count EXCEPT ![p] = conn.count[p] + 1]
        /\ conn'.store = conn.store \cup {w}
        /\ conn'.mine = IF conn.owner = p THEN conn.mine \cup {w} ELSE conn.mine
        /\ conn'.owner = conn.owner /\ conn'.live = conn.live
        /\ conn'.committed = conn.committed /\ conn'.gone = conn.gone
    BY <1>1 DEF Write, ConnShape, ConnRecords
  <1>4. Made(conn) \subseteq Made(conn') /\ w \in Made(conn')
    BY <1>1, <1>2, <1>3 DEF Made, ConnShape, ConnRecords
  <1>5. conn' \in ConnRecords
    BY <1>1, <1>2 DEF Write, ConnShape, ConnRecords
  <1>6. ConnShape(conn')
    BY <1>1, <1>3, <1>4, <1>5 DEF ConnShape
  <1>7. w \notin conn.committed /\ w \notin conn.gone /\ w \notin conn.live
    BY <1>1, <1>2 DEF ConnShape, ConnRecords
  <1>8. Settled(conn', conn'.store)
    BY <1>3, <1>7 DEF ConnOK, Settled
  <1>9. OpenTx(conn')
    BY <1>3, <1>7, ProcsAssumption DEF ConnOK, OpenTx, Settled
  <1> QED
    BY <1>6, <1>8, <1>9 DEF ConnOK

LEMMA BeginKeeps ==
    ASSUME NEW p \in Procs, ConnOK(conn), BeginTx(p)
    PROVE  ConnOK(conn')
  <1>1. CASE conn.owner = Null
    <2>1. /\ conn'.owner = p /\ conn'.live = conn.store /\ conn'.mine = {}
          /\ conn'.store = conn.store /\ conn'.count = conn.count
          /\ conn'.committed = conn.committed /\ conn'.gone = conn.gone
      BY <1>1 DEF BeginTx, ConnOK, ConnShape, ConnRecords
    <2>2. ConnShape(conn')
      BY <1>1, <2>1, ZenonT(30) DEF BeginTx, ConnOK, ConnShape, ConnRecords, Made
    <2> QED
      BY <2>1, <2>2, ProcsAssumption DEF ConnOK, OpenTx, Settled
  <1>2. CASE conn.owner # Null
    BY <1>2 DEF BeginTx
  <1> QED
    BY <1>1, <1>2

LEMMA CommitKeeps ==
    ASSUME NEW p \in Procs, ConnOK(conn), CommitTx(p)
    PROVE  ConnOK(conn')
  <1>1. /\ conn'.owner = Null /\ conn'.live = conn.live /\ conn'.mine = {}
        /\ conn'.store = conn.store /\ conn'.count = conn.count
        /\ conn'.committed = conn.committed \cup conn.mine /\ conn'.gone = conn.gone
    BY DEF CommitTx, ConnOK, ConnShape, ConnRecords
  <1>2. ConnShape(conn')
    BY <1>1, ZenonT(30) DEF CommitTx, ConnOK, ConnShape, ConnRecords, Made
  <1>3. conn.owner # Null
    BY ProcsAssumption DEF CommitTx
  <1> QED
    BY <1>1, <1>2, <1>3 DEF ConnOK, OpenTx, Settled

LEMMA RollbackKeeps ==
    ASSUME NEW p \in Procs, ConnOK(conn), RollbackTx(p)
    PROVE  ConnOK(conn')
  <1>1. /\ conn'.owner = Null /\ conn'.live = conn.live /\ conn'.mine = {}
        /\ conn'.store = conn.live /\ conn'.count = conn.count
        /\ conn'.committed = conn.committed /\ conn'.gone = conn.gone \cup conn.mine
    BY DEF RollbackTx, ConnOK, ConnShape, ConnRecords
  <1>2. ConnShape(conn')
    <2>1. conn' \in ConnRecords
      BY DEF RollbackTx, ConnOK, ConnShape, ConnRecords
    <2>2. Made(conn') = Made(conn)
      BY <1>1 DEF Made
    <2> QED
      BY <1>1, <2>1, <2>2 DEF ConnOK, ConnShape
  <1>3. conn.owner # Null
    BY ProcsAssumption DEF RollbackTx
  <1> QED
    BY <1>1, <1>2, <1>3 DEF ConnOK, OpenTx, Settled

-----------------------------------------------------------------------------
\* The connection's invariant: decided transactions stay decided, and the
\* snapshot of an open one is ready to be restored (withTransaction).
THEOREM ConnInvariant == SessionSpec => []ConnInv
  <1>1. SessionInit => ConnInv
    BY DEF SessionInit, noConn, ConnInv, ConnOK, ConnShape, ConnRecords, Settled, OpenTx, Made
  <1>2. ConnInv /\ [SessionNext]_sessionVars => ConnInv'
    <2> SUFFICES ASSUME ConnInv, [SessionNext]_sessionVars PROVE ConnInv'
      OBVIOUS
    <2>1. CASE UNCHANGED conn
      BY <2>1 DEF ConnInv
    <2>2. CASE Transactions
      <3>1. PICK p \in Procs : BeginTx(p) \/ Write(p) \/ CommitTx(p) \/ RollbackTx(p)
        BY <2>2 DEF Transactions
      <3>2. ConnOK(conn')
        BY <3>1, BeginKeeps, WriteKeeps, CommitKeeps, RollbackKeeps DEF ConnInv
      <3> QED
        BY <3>2 DEF ConnInv
    <2> QED
      BY <2>1, <2>2 DEF SessionNext, sessionVars, Pages
  <1> QED
    BY <1>1, <1>2, PTL DEF SessionSpec

\* A transaction that ended left all of its writes or none, whatever other
\* callers wrote and whatever nested BEGINs were refused while it was open.
THEOREM TransactionsAreAtomic == SessionSpec => []TxAllOrNothing
  <1>1. ConnInv => TxAllOrNothing
    BY DEF ConnInv, ConnOK, Settled, TxAllOrNothing
  <1> QED
    BY <1>1, ConnInvariant, PTL

-----------------------------------------------------------------------------
(* Rows.  A database in order, and what a write makes of it.                 *)

\* Every nonempty set of naturals has a least element: induction said of sets.
LEMMA LeastNatural ==
    ASSUME NEW T, T \subseteq Nat, T # {}
    PROVE  \E n \in T : \A m \in T : n <= m
  <1> DEFINE R == OpToRel(<, Nat)
  <1>1. IsWellFoundedOn(R, Nat)
    BY NatLessThanWellFounded
  <1>2. \A x, y \in Nat : <<y, x>> \in R <=> y < x
    BY DEF OpToRel
  <1> HIDE DEF R
  <1>3. PICK x \in T : \A y \in T : ~ (<<y, x>> \in R)
    BY <1>1, WFMin
  <1>4. \A y \in T : ~(y < x)
    BY <1>2, <1>3
  <1>5. \A y \in T : x <= y
    BY <1>4
  <1> QED
    BY <1>5

\* Each instance of the adapters counts the same way.
LEMMA OneCardinality ==
    \A S : /\ Mem!Cardinality(S) = Cardinality(S) /\ Lite!Cardinality(S) = Cardinality(S)
           /\ Pg!Cardinality(S) = Cardinality(S) /\ Contract!Cardinality(S) = Cardinality(S)
  BY DEF Cardinality, Mem!Cardinality, Lite!Cardinality, Pg!Cardinality, Contract!Cardinality

-----------------------------------------------------------------------------
\* The columns of each table.
Columns(t) ==
    CASE t = "scopes"    -> {"id", "slug", "name"}
      [] t = "templates" -> {"id", "scope", "parent", "name"}
      [] t = "licenses"  -> {"id", "scope", "template", "who", "key", "status", "ordered",
                             "exp", "max"}
      [] t = "usages"    -> {"id", "license", "fp", "status"}
      [] t = "keys"      -> {"id", "scope", "kid", "role", "state", "from", "ordered"}
      [] t = "audit"     -> {"id", "license", "scope", "event", "actor", "kind"}
      [] t = "trials"    -> {"id", "template", "fp"}

\* A table: finitely many rows, each with its columns and an id of its own.
TableOK(t, rows) ==
    /\ IsFiniteSet(rows)
    /\ \A r \in rows : DOMAIN r = Columns(t) /\ r.id \in Nat \ {0}
    /\ \A r, q \in rows : r.id = q.id => r = q

\* A database whose tables are all in order.
RowsOK(d) == DOMAIN d = Tables /\ \A t \in Tables : TableOK(t, d[t])

\* newUuidV7 finds an id that no row carries; an empty table starts at 1.
LEMMA FreshId ==
    ASSUME NEW d, NEW t, TableOK(t, d[t])
    PROVE  /\ newUuidV7(d, t) \in Nat \ {0}
           /\ ~has(d, t, newUuidV7(d, t))
           /\ d[t] # {} => (has(d, t, 1) \/ newUuidV7(d, t) = 1)
           /\ d[t] = {} => newUuidV7(d, t) = 1
  <1> DEFINE n == Cardinality(d[t])
             Free == {k \in 1..(n + 1) : ~has(d, t, k)}
  <1>1. IsFiniteSet(d[t]) /\ n \in Nat
    BY FS_CardinalityType DEF TableOK
  <1>2. Free # {}
    <2> SUFFICES ASSUME Free = {} PROVE FALSE
      OBVIOUS
    <2> DEFINE f == [k \in 1..(n + 1) |-> CHOOSE r \in d[t] : r.id = k]
    <2>1. \A k \in 1..(n + 1) : \E r \in d[t] : r.id = k
      BY DEF has
    <2>2. \A k \in 1..(n + 1) : f[k] \in d[t] /\ f[k].id = k
      BY <2>1
    <2>3. f \in [1..(n + 1) -> d[t]]
      BY <2>2
    <2>4. IsFiniteSet(1..(n + 1)) /\ Cardinality(1..(n + 1)) = n + 1
      BY <1>1, FS_Interval
    <2> HIDE DEF f
    <2>5. PICK x, y \in 1..(n + 1) : x # y /\ f[x] = f[y]
      <3>1. n < n + 1
        BY <1>1
      <3> HIDE DEF n
      <3> QED
        BY <1>1, <2>3, <2>4, <3>1, FS_PigeonHole DEF n
    <2> QED
      BY <2>2, <2>5
  <1>3. PICK m \in Free : \A k \in Free : m <= k
    BY <1>1, <1>2, LeastNatural, Free \subseteq Nat
  <1>4. newUuidV7(d, t) \in Free /\ \A k \in Free : newUuidV7(d, t) <= k
    BY <1>3 DEF newUuidV7, Min
  <1>5. /\ newUuidV7(d, t) \in 1..(n + 1)
        /\ ~has(d, t, newUuidV7(d, t))
        /\ \A k \in 1..(newUuidV7(d, t) - 1) : has(d, t, k)
    BY <1>1, <1>4
  <1>6. d[t] = {} => n = 0
    BY FS_EmptySet
  <1> HIDE DEF n
  <1> QED
    BY <1>1, <1>5, <1>6

\* Looking a row up by an id that is there finds it.
LEMMA RowIsThere ==
    ASSUME NEW d, NEW t, NEW id, has(d, t, id)
    PROVE  row(d, t, id) \in d[t] /\ row(d, t, id).id = id
  BY DEF has, row

\* Writing a row with the columns of its table keeps the tables in order.
LEMMA WroteOK ==
    ASSUME NEW d, RowsOK(d), NEW t \in Tables, NEW r,
           DOMAIN r = Columns(t), r.id \in Nat \ {0}
    PROVE  RowsOK(wrote(d, t, r).db)
  <1> DEFINE keep == {q \in d[t] : q.id # r.id}
             rows == keep \cup {r}
  <1>1. wrote(d, t, r).db = [d EXCEPT ![t] = rows]
    BY DEF wrote, RowsOK
  <1>2. TableOK(t, d[t])
    BY DEF RowsOK
  <1>3. IsFiniteSet(rows)
    BY <1>2, FS_Subset, FS_AddElement DEF TableOK
  <1>4. TableOK(t, rows)
    BY <1>2, <1>3 DEF TableOK
  <1> HIDE DEF rows
  <1> QED
    BY <1>1, <1>4 DEF RowsOK

\* What a caller may ask for, by focus.
LEMMA CallShape ==
    ASSUME NEW c \in Calls
    PROVE  \/ focus = "catalogue" /\ Room("scopes") /\ c.op = "createScope" /\ c.arg \in ScopeInputs
           \/ focus = "catalogue" /\ Room("templates") /\ c.op = "createTemplate" /\ c.arg \in TemplateInputs
           \/ focus = "catalogue" /\ c.op = "updateScope" /\ c.arg \in ScopePatches
           \/ focus = "catalogue" /\ c.op = "updateTemplate" /\ c.arg \in TemplatePatches
           \/ focus = "licenses" /\ c.op = "createLicense" /\ c.arg \in LicenseInputs
           \/ focus = "licenses" /\ c.op = "updateLicense" /\ c.arg \in LicensePatches
           \/ focus = "seats" /\ c.op = "updateLicense" /\ c.arg \in [status : {"active"}]
           \/ focus = "seats" /\ c.op = "createUsage" /\ c.arg \in UsageInputs
           \/ focus = "seats" /\ c.op = "updateUsage" /\ c.arg \in UsagePatches
           \/ focus = "seats" /\ c.op = "appendAudit" /\ c.arg \in AuditInputs
           \/ focus = "keys" /\ c.op = "createKey" /\ c.arg \in KeyInputs
           \/ focus = "keys" /\ c.op = "updateKey" /\ c.arg \in KeyPatches
           \/ focus = "trials" /\ c.op = "recordTrialIssuance" /\ c.arg \in TrialInputs
           \/ focus = "trials" /\ c.op = "deleteTrialIssuance"
  <1> USE DEF Calls, Call, CallOn
  <1>1. CASE focus = "catalogue"
    BY <1>1
  <1>2. CASE focus = "licenses"
    BY <1>2
  <1>3. CASE focus = "seats"
    BY <1>3
  <1>4. CASE focus = "keys"
    BY <1>4
  <1>5. CASE focus = "trials"
    BY <1>5
  <1>6. CASE focus \notin {"catalogue", "licenses", "seats", "keys", "trials"}
    BY <1>6
  <1> QED
    BY <1>1, <1>2, <1>3, <1>4, <1>5, <1>6

-----------------------------------------------------------------------------
(* SQLite and Postgres: one schema, two ways to name what it refused.        *)

\* The driver errors there are.
IndexNames ==
    {"license_scopes_slug_key", "license_templates_scope_name_key", "license_templates_global_name_key",
     "licenses_license_key_key", "licenses_scoped_triple_key", "licenses_global_pair_key",
     "license_usages_active_fp_key", "license_keys_kid_key", "license_keys_active_signing_scoped_key",
     "license_keys_active_signing_global_key", "trial_issuances_template_fp_key",
     "trial_issuances_global_fp_key"}

\* Every entry of an index carries the name of one of them.
LEMMA EntriesAreNamed ==
    ASSUME NEW t \in Tables, NEW r, NEW e \in Lite!indexEntries(t, r)
    PROVE  e[1] \in IndexNames
  BY DEF Lite!indexEntries, Lite!split, Tables, IndexNames

\* A statement can only fail in these ways.
LEMMA RaisedIsNamed ==
    ASSUME NEW d, NEW t \in Tables, NEW r, NEW e \in Lite!raised(d, t, r)
    PROVE  e \in IndexNames \cup {"check", "foreign_key"}
  <1> DEFINE hit == {x \in Lite!indexEntries(t, r) : \E q \in {q \in d[t] : q.id # r.id} : x \in Lite!indexEntries(t, q)}
  <1>1. \A x \in hit : x[1] \in IndexNames
    BY EntriesAreNamed
  <1>2. e = "check" \/ e = "foreign_key" \/ e \in {x[1] : x \in hit}
    BY DEF Lite!raised
  <1> HIDE DEF hit
  <1> QED
    BY <1>1, <1>2

\* The two engines see one schema.
LEMMA OneSchema ==
    ASSUME NEW d, NEW t, NEW r
    PROVE  Pg!raised(d, t, r) = Lite!raised(d, t, r)
  BY DEF Lite!raised, Lite!checks, Lite!references, Lite!has, Lite!indexEntries, Lite!split,
         Pg!raised, Pg!checks, Pg!references, Pg!has, Pg!indexEntries, Pg!split

\* Both mappers end in the same code, but for the label of a trial index.
LEMMA ErrorsAlike ==
    ASSUME NEW e \in IndexNames \cup {"check", "foreign_key"}
    PROVE  code(Lite!mapSqliteError(e)) = code(Pg!mapPgError(e))
  <1> DEFINE trials == {"trial_issuances_template_fp_key", "trial_issuances_global_fp_key"}
  <1>3. CASE e \in trials
    <2>1. Lite!nameConstraint(e) = "unnamed"
      BY <1>3 DEF Lite!nameConstraint
    <2>2. Lite!mapSqliteError(e) = "unnamed_unique"
      BY <2>1 DEF Lite!mapSqliteError
    <2>3. Pg!mapPgError(e) = e
      BY <1>3 DEF Pg!mapPgError
    <2> QED
      BY <1>3, <2>2, <2>3 DEF code
  <1>4. CASE e \notin trials
    <2>1. Lite!nameConstraint(e) = e
      BY <1>4 DEF Lite!nameConstraint
    <2>2. Lite!mapSqliteError(e) = Pg!mapPgError(e)
      BY <1>4, <2>1 DEF Lite!mapSqliteError, Pg!mapPgError, IndexNames
    <2> QED
      BY <2>2
  <1> QED
    BY <1>3, <1>4

\* An outcome without that label.
coded(o) == [o EXCEPT !.out = code(@)]

Coded(outcomes) == {coded(o) : o \in outcomes}

\* The two SQL adapters store or refuse a row alike.
LEMMA WritesAlike ==
    ASSUME NEW d, NEW t \in Tables, NEW r
    PROVE  Coded(Lite!write(d, t, r)) = Coded(Pg!insert(d, t, r))
  <1> DEFINE errs == Lite!raised(d, t, r)
  <1>1. \A e \in errs : code(Lite!mapSqliteError(e)) = code(Pg!mapPgError(e))
    BY RaisedIsNamed, ErrorsAlike
  <1>2. Pg!raised(d, t, r) = errs
    BY OneSchema
  <1> HIDE DEF errs
  <1>3. CASE errs = {}
    BY <1>2, <1>3 DEF errs, Lite!write, Pg!insert, Lite!wrote, Pg!wrote
  <1>4. CASE errs # {}
    <2>1. Lite!write(d, t, r) = {Lite!refused(d, Lite!mapSqliteError(e)) : e \in errs}
      BY <1>4 DEF errs, Lite!write
    <2>2. Pg!insert(d, t, r) = {Pg!refused(d, Pg!mapPgError(e)) : e \in errs}
      BY <1>2, <1>4 DEF Pg!insert
    <2>3. \A x, y : code(x) = code(y) => coded(Lite!refused(d, x)) = coded(Pg!refused(d, y))
      BY DEF coded, Lite!refused, Pg!refused
    <2>4. \A e \in errs : coded(Lite!refused(d, Lite!mapSqliteError(e))) = coded(Pg!refused(d, Pg!mapPgError(e)))
      BY <1>1, <2>3
    <2> QED
      BY <2>1, <2>2, <2>4 DEF Coded
  <1> QED
    BY <1>3, <1>4

LEMMA UpdatesAlike ==
    ASSUME NEW d, NEW t \in Tables, NEW id, NEW patch, NEW missing
    PROVE  Coded(Lite!update(d, t, id, patch, missing)) = Coded(Pg!updateReturning(d, t, id, patch, missing))
  <1>1. Pg!has(d, t, id) <=> Lite!has(d, t, id)
    BY DEF Pg!has, Lite!has
  <1>2. Pg!patched(d, t, id, patch) = Lite!patched(d, t, id, patch)
    BY DEF Pg!patched, Lite!patched, Pg!row, Lite!row
  <1>3. CASE Lite!has(d, t, id)
    BY <1>1, <1>2, <1>3, WritesAlike DEF Lite!update, Pg!updateReturning
  <1>4. CASE ~Lite!has(d, t, id)
    BY <1>1, <1>4 DEF Lite!update, Pg!updateReturning, Lite!refused, Pg!refused
  <1> QED
    BY <1>3, <1>4

LEMMA CreatesAlike ==
    ASSUME NEW d, NEW t \in Tables, NEW in
    PROVE  Coded(Lite!write(d, t, Lite!created(d, t, in))) = Coded(Pg!insert(d, t, Pg!created(d, t, in)))
  <1>1. Pg!newUuidV7(d, t) = Lite!newUuidV7(d, t)
    <2>1. {n \in 1..(Cardinality(d[t]) + 1) : ~Pg!has(d, t, n)} = {n \in 1..(Cardinality(d[t]) + 1) : ~Lite!has(d, t, n)}
      BY DEF Pg!has, Lite!has
    <2>2. \A S : Pg!Min(S) = Lite!Min(S)
      BY DEF Pg!Min, Lite!Min
    <2> QED
      BY <2>1, <2>2, OneCardinality DEF Pg!newUuidV7, Lite!newUuidV7
  <1>2. Pg!created(d, t, in) = Lite!created(d, t, in)
    BY <1>1 DEF Pg!created, Lite!created
  <1> QED
    BY <1>2, WritesAlike

\* The two cycle walks see the same chain.
LEMMA WalksAlike ==
    ASSUME NEW d, NEW start, NEW forbidden
    PROVE  Pg!walkPgParentChain(d, start, forbidden) <=> Lite!walkSqliteParentChain(d, start, forbidden)
  <1>1. \A n : Pg!ancestor(d, start, n) = Lite!ancestor(d, start, n)
    BY DEF Pg!ancestor, Pg!row, Pg!has, Lite!ancestor, Lite!row, Lite!has
  <1> QED
    BY <1>1 DEF Pg!walkPgParentChain, Lite!walkSqliteParentChain

\* SQLite and Postgres answer every call alike, whatever the rows.
LEMMA SqlAnswersAlike == SqlAdaptersAgree
  <1> SUFFICES ASSUME NEW c \in Calls
               PROVE  Coded(LiteOutcomes(c)) = Coded(PgOutcomes(c))
    BY DEF SqlAdaptersAgree, Coded, coded
  <1> USE DEF Tables, LiteOutcomes, PgOutcomes
  <1>1. CASE c.op = "createScope"
    BY <1>1, CreatesAlike DEF Lite!createScope, Pg!createScope
  <1>2. CASE c.op = "updateScope"
    BY <1>2, UpdatesAlike DEF Lite!updateScope, Pg!updateScope
  <1>3. CASE c.op = "createTemplate"
    BY <1>3, CreatesAlike DEF Lite!createTemplate, Pg!createTemplate
  <1>4. CASE c.op = "updateTemplate"
    <2> DEFINE cyclic == /\ "parent" \in DOMAIN c.arg /\ c.arg.parent # Null
                         /\ Lite!walkSqliteParentChain(db, c.arg.parent, c.id)
    <2>1. LiteOutcomes(c) = IF cyclic THEN {[db |-> db, out |-> "TemplateCycle"]}
                            ELSE Lite!update(db, "templates", c.id, c.arg, "pk")
      BY <1>4 DEF Lite!updateTemplate, Lite!refused
    <2>2. PgOutcomes(c) = IF cyclic THEN {[db |-> db, out |-> "TemplateCycle"]}
                          ELSE Pg!updateReturning(db, "templates", c.id, c.arg, "pk")
      BY <1>4, WalksAlike DEF Pg!updateTemplate, Pg!refused
    <2> HIDE DEF cyclic, LiteOutcomes, PgOutcomes
    <2> QED
      BY <2>1, <2>2, UpdatesAlike
  <1>5. CASE c.op = "createLicense"
    BY <1>5, CreatesAlike DEF Lite!createLicense, Pg!createLicense
  <1>6. CASE c.op = "updateLicense"
    BY <1>6, UpdatesAlike DEF Lite!updateLicense, Pg!updateLicense
  <1>7. CASE c.op = "createUsage"
    BY <1>7, CreatesAlike DEF Lite!createUsage, Pg!createUsage
  <1>8. CASE c.op = "updateUsage"
    BY <1>8, UpdatesAlike DEF Lite!updateUsage, Pg!updateUsage
  <1>9. CASE c.op = "createKey"
    BY <1>9, CreatesAlike DEF Lite!createKey, Pg!createKey
  <1>10. CASE c.op = "updateKey"
    BY <1>10, UpdatesAlike DEF Lite!updateKey, Pg!updateKey
  <1>11. CASE c.op = "appendAudit"
    BY <1>11, CreatesAlike DEF Lite!appendAudit, Pg!appendAudit
  <1>12. CASE c.op = "recordTrialIssuance"
    BY <1>12, CreatesAlike DEF Lite!recordTrialIssuance, Pg!recordTrialIssuance
  <1>13. CASE c.op = "deleteTrialIssuance"
    BY <1>13 DEF Lite!deleteTrialIssuance, Pg!deleteTrialIssuance
  <1> QED
    BY CallShape, <1>1, <1>2, <1>3, <1>4, <1>5, <1>6, <1>7, <1>8, <1>9, <1>10, <1>11, <1>12, <1>13

-----------------------------------------------------------------------------
(* What the schema accepts.  The adapters share the vocabulary of StorageRows.*)

\* The adapters share the vocabulary of StorageRows.
LEMMA OneLookup ==
    \A d, t, id : /\ Mem!has(d, t, id) <=> has(d, t, id)
                  /\ Lite!has(d, t, id) <=> has(d, t, id)
                  /\ Pg!has(d, t, id) <=> has(d, t, id)
                  /\ Contract!has(d, t, id) <=> has(d, t, id)
                  /\ Mem!row(d, t, id) = row(d, t, id)
                  /\ Lite!row(d, t, id) = row(d, t, id)
                  /\ Pg!row(d, t, id) = row(d, t, id)
  BY DEF has, Mem!has, Lite!has, Pg!has, Contract!has, row, Mem!row, Lite!row, Pg!row

LEMMA OneId ==
    ASSUME NEW d, NEW t
    PROVE  Mem!newUuidV7(d, t) = newUuidV7(d, t) /\ Lite!newUuidV7(d, t) = newUuidV7(d, t)
           /\ Pg!newUuidV7(d, t) = newUuidV7(d, t)
  <1> DEFINE N == 1..(Cardinality(d[t]) + 1)
  <1>1. /\ {n \in N : ~Mem!has(d, t, n)} = {n \in N : ~has(d, t, n)}
        /\ {n \in N : ~Lite!has(d, t, n)} = {n \in N : ~has(d, t, n)}
        /\ {n \in N : ~Pg!has(d, t, n)} = {n \in N : ~has(d, t, n)}
    BY OneLookup
  <1>2. \A S : Mem!Min(S) = Min(S) /\ Lite!Min(S) = Min(S) /\ Pg!Min(S) = Min(S)
    BY DEF Min, Mem!Min, Lite!Min, Pg!Min
  <1> QED
    BY <1>1, <1>2, OneCardinality DEF newUuidV7, Mem!newUuidV7, Lite!newUuidV7, Pg!newUuidV7

LEMMA OneRowMade ==
    ASSUME NEW d, NEW t, NEW id, NEW x
    PROVE  /\ Mem!created(d, t, x) = created(d, t, x)
           /\ Lite!created(d, t, x) = created(d, t, x)
           /\ Pg!created(d, t, x) = created(d, t, x)
           /\ Mem!patched(d, t, id, x) = patched(d, t, id, x)
           /\ Lite!patched(d, t, id, x) = patched(d, t, id, x)
           /\ Pg!patched(d, t, id, x) = patched(d, t, id, x)
  BY OneId, OneLookup DEF created, patched, Mem!created, Mem!patched, Lite!created, Lite!patched,
     Pg!created, Pg!patched

LEMMA OneOutcome ==
    ASSUME NEW d, NEW t, NEW x
    PROVE  /\ Mem!wrote(d, t, x) = wrote(d, t, x) /\ Lite!wrote(d, t, x) = wrote(d, t, x)
           /\ Pg!wrote(d, t, x) = wrote(d, t, x)
           /\ Mem!refused(d, x) = refused(d, x) /\ Lite!refused(d, x) = refused(d, x)
           /\ Pg!refused(d, x) = refused(d, x)
  BY DEF wrote, refused, Mem!wrote, Mem!refused, Lite!wrote, Lite!refused, Pg!wrote, Pg!refused

LEMMA OneAncestry ==
    \A d, s, n : /\ Mem!ancestor(d, s, n) = ancestor(d, s, n)
                 /\ Lite!ancestor(d, s, n) = ancestor(d, s, n)
                 /\ Pg!ancestor(d, s, n) = ancestor(d, s, n)
                 /\ Contract!ancestor(d, s, n) = ancestor(d, s, n)
  BY DEF has, Mem!has, Lite!has, Pg!has, Contract!has, row, Mem!row, Lite!row, Pg!row, Contract!row,
         ancestor, Mem!ancestor, Lite!ancestor, Pg!ancestor, Contract!ancestor

-----------------------------------------------------------------------------
\* What the schema accepts.
Accepts(d, t, r) == Lite!raised(d, t, r) = {}

\* A SQLite write stores the row if the schema accepts it, and fails if not.
LEMMA LiteWrite ==
    ASSUME NEW d, NEW t \in Tables, NEW r, NEW o \in Lite!write(d, t, r)
    PROVE  \/ Accepts(d, t, r) /\ Lite!write(d, t, r) = {wrote(d, t, r)} /\ o = wrote(d, t, r)
           \/ ~Accepts(d, t, r) /\ o.db = d /\ o.out # "ok"
  <1>1. CASE Accepts(d, t, r)
    BY <1>1, OneOutcome DEF Accepts, Lite!write
  <1>2. CASE ~Accepts(d, t, r)
    <2>1. PICK e \in Lite!raised(d, t, r) : o = refused(d, Lite!mapSqliteError(e))
      BY <1>2, OneOutcome DEF Accepts, Lite!write
    <2>2. Lite!mapSqliteError(e) # "ok"
      BY RaisedIsNamed DEF IndexNames, Lite!mapSqliteError, Lite!nameConstraint
    <2> QED
      BY <1>2, <2>1, <2>2 DEF refused
  <1> QED
    BY <1>1, <1>2

LEMMA LiteUpdate ==
    ASSUME NEW d, NEW t \in Tables, NEW id, NEW patch, NEW missing, missing # "ok",
           NEW o \in Lite!update(d, t, id, patch, missing)
    PROVE  \/ /\ has(d, t, id) /\ Accepts(d, t, patched(d, t, id, patch))
              /\ Lite!update(d, t, id, patch, missing) = {wrote(d, t, patched(d, t, id, patch))}
              /\ o = wrote(d, t, patched(d, t, id, patch))
           \/ o.db = d /\ o.out # "ok"
  <1>1. CASE has(d, t, id)
    BY <1>1, LiteWrite, OneLookup, OneRowMade DEF Lite!update
  <1>2. CASE ~has(d, t, id)
    BY <1>2, OneLookup, OneOutcome DEF Lite!update, refused
  <1> QED
    BY <1>1, <1>2

\* An accepted row shares no index entry with another one.
LEMMA AcceptedIsUnique ==
    ASSUME NEW d, NEW t \in Tables, NEW r, Accepts(d, t, r), NEW q \in d[t], q.id # r.id
    PROVE  Lite!indexEntries(t, r) \cap Lite!indexEntries(t, q) = {}
  BY DEF Accepts, Lite!raised

\* Its references resolve, to itself if need be.
LEMMA AcceptedReferences ==
    ASSUME NEW d, NEW t \in Tables, NEW r, Accepts(d, t, r), NEW x \in Lite!references(t, r)
    PROVE  has(d, x[1], x[2]) \/ (x[1] = t /\ x[2] = r.id)
  BY OneLookup DEF Accepts, Lite!raised

\* Two entries of one index clash if they are about the same columns; the
\* split pair of indexes compares NULL like any other value.
LEMMA SingleClash ==
    ASSUME NEW n, NEW a, NEW b
    PROVE  {<<n, a>>} \cap {<<n, b>>} = {} <=> a # b
  <1>1. ASSUME a # b PROVE {<<n, a>>} \cap {<<n, b>>} = {}
    BY <1>1
  <1>2. ASSUME a = b PROVE {<<n, a>>} \cap {<<n, b>>} # {}
    BY <1>2
  <1> QED
    BY <1>1, <1>2

LEMMA SplitClash ==
    ASSUME NEW s, NEW g, s # g, NEW a, NEW b, NEW x, NEW y
    PROVE  Lite!split(s, g, a, b) \cap Lite!split(s, g, x, y) = {} <=> ~(a = x /\ b = y)
  <1>1. ASSUME ~(a = x /\ b = y) PROVE Lite!split(s, g, a, b) \cap Lite!split(s, g, x, y) = {}
    BY <1>1 DEF Lite!split
  <1>2. ASSUME a = x, b = y PROVE Lite!split(s, g, a, b) \cap Lite!split(s, g, x, y) # {}
    BY <1>2 DEF Lite!split
  <1> QED
    BY <1>1, <1>2

LEMMA SplitNames ==
    ASSUME NEW s, NEW g, NEW a, NEW b, NEW e \in Lite!split(s, g, a, b)
    PROVE  e[1] \in {s, g}
  BY DEF Lite!split

LEMMA NameClash ==
    ASSUME NEW s, NEW g, NEW n, n # s, n # g, NEW a, NEW b, NEW c
    PROVE  {<<n, c>>} \cap Lite!split(s, g, a, b) = {}
  BY SplitNames

\* Two rows that no unique group of the schema keeps from existing together.
Apart(t, r, q) ==
    CASE t = "scopes"    -> r.slug # q.slug
      [] t = "templates" -> ~(r.scope = q.scope /\ r.name = q.name)
      [] t = "licenses"  -> r.key # q.key /\ ~(r.scope = q.scope /\ r.who = q.who)
      [] t = "usages"    -> ~(r.status = "active" /\ q.status = "active" /\ r.license = q.license /\ r.fp = q.fp)
      [] t = "keys"      -> /\ r.kid # q.kid
                            /\ ~(/\ r.role = "signing" /\ q.role = "signing"
                                 /\ r.state = "active" /\ q.state = "active" /\ r.scope = q.scope)
      [] t = "trials"    -> ~(r.template = q.template /\ r.fp = q.fp)
      [] OTHER           -> TRUE

\* The indexes keep apart exactly the rows the unique groups do.
LEMMA IndexesKeepApart ==
    ASSUME NEW t \in Tables, NEW r, NEW q
    PROVE  Lite!indexEntries(t, r) \cap Lite!indexEntries(t, q) = {} <=> Apart(t, r, q)
  <1>1. Lite!indexEntries("scopes", r) \cap Lite!indexEntries("scopes", q) = {} <=> r.slug # q.slug
    <2>1. \A z : Lite!indexEntries("scopes", z) = {<<"license_scopes_slug_key", z.slug>>}
      BY DEF Lite!indexEntries
    <2> QED
      BY <2>1, SingleClash
  <1>2. Lite!indexEntries("templates", r) \cap Lite!indexEntries("templates", q) = {}
                <=> ~(r.scope = q.scope /\ r.name = q.name)
    <2>1. \A z : Lite!indexEntries("templates", z) =
                  Lite!split("license_templates_scope_name_key", "license_templates_global_name_key", z.scope, z.name)
      BY DEF Lite!indexEntries
    <2> QED
      BY <2>1, SplitClash
  <1>3. Lite!indexEntries("licenses", r) \cap Lite!indexEntries("licenses", q) = {}
                <=> r.key # q.key /\ ~(r.scope = q.scope /\ r.who = q.who)
    <2> DEFINE one(z) == {<<"licenses_license_key_key", z.key>>}
               two(z) == Lite!split("licenses_scoped_triple_key", "licenses_global_pair_key", z.scope, z.who)
    <2>1. \A z : Lite!indexEntries("licenses", z) = one(z) \cup two(z)
      BY DEF Lite!indexEntries
    <2>2. one(r) \cap two(q) = {} /\ one(q) \cap two(r) = {}
      BY NameClash
    <2>3. one(r) \cap one(q) = {} <=> r.key # q.key
      BY SingleClash
    <2>4. two(r) \cap two(q) = {} <=> ~(r.scope = q.scope /\ r.who = q.who)
      BY SplitClash
    <2> HIDE DEF one, two
    <2> QED
      BY <2>1, <2>2, <2>3, <2>4
  <1>4. Lite!indexEntries("usages", r) \cap Lite!indexEntries("usages", q) = {}
                <=> ~(r.status = "active" /\ q.status = "active" /\ r.license = q.license /\ r.fp = q.fp)
    <2> DEFINE one(z) == {<<"license_usages_active_fp_key", <<z.license, z.fp>>>>}
    <2>1. \A z : Lite!indexEntries("usages", z) = IF z.status = "active" THEN one(z) ELSE {}
      BY DEF Lite!indexEntries
    <2>2. one(r) \cap one(q) = {} <=> <<r.license, r.fp>> # <<q.license, q.fp>>
      BY SingleClash
    <2> HIDE DEF one
    <2> QED
      BY <2>1, <2>2
  <1>5. Lite!indexEntries("keys", r) \cap Lite!indexEntries("keys", q) = {}
                <=> /\ r.kid # q.kid
                    /\ ~(/\ r.role = "signing" /\ q.role = "signing" /\ r.state = "active" /\ q.state = "active"
                         /\ r.scope = q.scope)
    <2> DEFINE one(z) == {<<"license_keys_kid_key", z.kid>>}
               two(z) == Lite!split("license_keys_active_signing_scoped_key",
                                    "license_keys_active_signing_global_key", z.scope, "signing")
    <2>1. \A z : Lite!indexEntries("keys", z) =
                  one(z) \cup (IF z.state = "active" /\ z.role = "signing" THEN two(z) ELSE {})
      BY DEF Lite!indexEntries
    <2>2. one(r) \cap two(q) = {} /\ one(q) \cap two(r) = {}
      BY NameClash
    <2>3. one(r) \cap one(q) = {} <=> r.kid # q.kid
      BY SingleClash
    <2>4. two(r) \cap two(q) = {} <=> r.scope # q.scope
      BY SplitClash
    <2> HIDE DEF one, two
    <2>5. CASE r.state = "active" /\ r.role = "signing"
      BY <2>1, <2>2, <2>3, <2>4, <2>5
    <2>6. CASE ~(r.state = "active" /\ r.role = "signing")
      BY <2>1, <2>2, <2>3, <2>4, <2>6
    <2> QED
      BY <2>5, <2>6
  <1>6. Lite!indexEntries("trials", r) \cap Lite!indexEntries("trials", q) = {}
                <=> ~(r.template = q.template /\ r.fp = q.fp)
    <2>1. \A z : Lite!indexEntries("trials", z) =
                  Lite!split("trial_issuances_template_fp_key", "trial_issuances_global_fp_key", z.template, z.fp)
      BY DEF Lite!indexEntries
    <2> QED
      BY <2>1, SplitClash
  <1>7. Lite!indexEntries("audit", r) = {}
    BY DEF Lite!indexEntries
  <1> QED
    BY <1>1, <1>2, <1>3, <1>4, <1>5, <1>6, <1>7 DEF Apart, Tables

LEMMA Accepted ==
    ASSUME NEW d, NEW t \in Tables, NEW r, Accepts(d, t, r), NEW q \in d[t], q.id # r.id
    PROVE  Apart(t, r, q)
  BY AcceptedIsUnique, IndexesKeepApart

\* The contract's unique groups, said the same way.
LEMMA ContractKeepsApart ==
    ASSUME NEW t \in Tables, NEW r, NEW q
    PROVE  Contract!claims(t, r) \cap Contract!claims(t, q) = {} <=> Apart(t, r, q)
  <1>1. CASE t = "scopes"
    <2>1. \A z : Contract!claims(t, z) = {<<"slug", z.slug>>}
      BY <1>1 DEF Contract!claims
    <2> QED
      BY <1>1, <2>1, SingleClash DEF Apart
  <1>2. CASE t = "templates"
    <2>1. \A z : Contract!claims(t, z) = {<<"scope_name", z.scope, z.name>>}
      BY <1>2 DEF Contract!claims
    <2>2. ASSUME Apart(t, r, q) PROVE Contract!claims(t, r) \cap Contract!claims(t, q) = {}
      BY <1>2, <2>1, <2>2 DEF Apart
    <2>3. ASSUME ~Apart(t, r, q) PROVE Contract!claims(t, r) \cap Contract!claims(t, q) # {}
      BY <1>2, <2>1, <2>3 DEF Apart
    <2> QED
      BY <2>2, <2>3
  <1>3. CASE t = "licenses"
    <2>1. \A z : Contract!claims(t, z) = {<<"license_key", z.key>>, <<"licensable_scope", z.who, z.scope>>}
      BY <1>3 DEF Contract!claims
    <2>2. ASSUME Apart(t, r, q) PROVE Contract!claims(t, r) \cap Contract!claims(t, q) = {}
      BY <1>3, <2>1, <2>2 DEF Apart
    <2>3. ASSUME ~Apart(t, r, q) PROVE Contract!claims(t, r) \cap Contract!claims(t, q) # {}
      BY <1>3, <2>1, <2>3 DEF Apart
    <2> QED
      BY <2>2, <2>3
  <1>4. CASE t = "usages"
    <2>1. \A z : Contract!claims(t, z) =
                 IF z.status = "active" THEN {<<"license_fingerprint_active", z.license, z.fp>>} ELSE {}
      BY <1>4 DEF Contract!claims
    <2>2. ASSUME Apart(t, r, q) PROVE Contract!claims(t, r) \cap Contract!claims(t, q) = {}
      BY <1>4, <2>1, <2>2 DEF Apart
    <2>3. ASSUME ~Apart(t, r, q) PROVE Contract!claims(t, r) \cap Contract!claims(t, q) # {}
      BY <1>4, <2>1, <2>3 DEF Apart
    <2> QED
      BY <2>2, <2>3
  <1>5. CASE t = "keys"
    <2>1. \A z : Contract!claims(t, z) = {<<"kid", z.kid>>} \cup
                 (IF z.role = "signing" /\ z.state = "active" THEN {<<"scope_active_signing", z.scope>>} ELSE {})
      <3> TAKE z
      <3> DEFINE on == {<<z.role, z.state>>} \cap {<<"signing", "active">>}
      <3>1. Contract!claims(t, z) = {<<"kid", z.kid>>} \cup {<<"scope_active_signing", z.scope>> : s \in on}
        BY <1>5 DEF Contract!claims
      <3>2. CASE z.role = "signing" /\ z.state = "active"
        <4>1. on = {<<"signing", "active">>}
          BY <3>2
        <4> HIDE DEF on
        <4>2. {<<"scope_active_signing", z.scope>> : s \in on} = {<<"scope_active_signing", z.scope>>}
          BY <4>1
        <4> QED
          BY <3>1, <3>2, <4>2
      <3>3. CASE ~(z.role = "signing" /\ z.state = "active")
        <4>1. on = {}
          BY <3>3
        <4> HIDE DEF on
        <4> QED
          BY <3>1, <3>3, <4>1
      <3> QED
        BY <3>2, <3>3
    <2>2. ASSUME Apart(t, r, q) PROVE Contract!claims(t, r) \cap Contract!claims(t, q) = {}
      BY <1>5, <2>1, <2>2 DEF Apart
    <2>3. ASSUME ~Apart(t, r, q) PROVE Contract!claims(t, r) \cap Contract!claims(t, q) # {}
      BY <1>5, <2>1, <2>3 DEF Apart
    <2> QED
      BY <2>2, <2>3
  <1>6. CASE t = "trials"
    <2>1. \A z : Contract!claims(t, z) = {<<"template_fingerprint", z.template, z.fp>>}
      BY <1>6 DEF Contract!claims
    <2>2. ASSUME Apart(t, r, q) PROVE Contract!claims(t, r) \cap Contract!claims(t, q) = {}
      BY <1>6, <2>1, <2>2 DEF Apart
    <2>3. ASSUME ~Apart(t, r, q) PROVE Contract!claims(t, r) \cap Contract!claims(t, q) # {}
      BY <1>6, <2>1, <2>3 DEF Apart
    <2> QED
      BY <2>2, <2>3
  <1>7. CASE t = "audit"
    BY <1>7 DEF Contract!claims, Apart
  <1> QED
    BY <1>1, <1>2, <1>3, <1>4, <1>5, <1>6, <1>7 DEF Tables

-----------------------------------------------------------------------------
(* The memory adapter mirrors the schema.                                    *)

\* A new row: the input's columns and an id of its own.
LEMMA CreatedRow ==
    ASSUME NEW d, NEW t, NEW in, "id" \notin DOMAIN in
    PROVE  /\ DOMAIN created(d, t, in) = {"id"} \cup DOMAIN in
           /\ created(d, t, in).id = newUuidV7(d, t)
  BY DEF created

LEMMA CreatedIsNew ==
    ASSUME NEW d, NEW t \in Tables, RowsOK(d), NEW in, "id" \notin DOMAIN in, NEW q \in d[t]
    PROVE  q.id # created(d, t, in).id
  <1>1. ~has(d, t, newUuidV7(d, t))
    BY FreshId DEF RowsOK
  <1> QED
    BY <1>1, CreatedRow DEF has

\* A changed row keeps its id.
LEMMA PatchedId ==
    ASSUME NEW d, NEW t \in Tables, RowsOK(d), NEW id, has(d, t, id), NEW patch, "id" \notin DOMAIN patch
    PROVE  /\ patched(d, t, id, patch).id = id
           /\ DOMAIN row(d, t, id) = Columns(t)
           /\ id \in Nat \ {0}
  <1>1. row(d, t, id) \in d[t] /\ row(d, t, id).id = id
    BY RowIsThere
  <1>2. DOMAIN row(d, t, id) = Columns(t) /\ id \in Nat \ {0}
    BY <1>1 DEF RowsOK, TableOK
  <1>4. "id" \in Columns(t)
    BY DEF Columns, Tables
  <1>3. patched(d, t, id, patch).id = row(d, t, id).id
    BY <1>2, <1>4 DEF patched
  <1> QED
    BY <1>1, <1>2, <1>3

\* The walk starts at its start.
LEMMA AncestorZero ==
    ASSUME NEW d, NEW s
    PROVE  ancestor(d, s, 0) = s
  <1> DEFINE body(h) == [k \in 0..0 |-> IF k = 0 THEN s
                           ELSE IF has(d, "templates", h[k - 1])
                                THEN row(d, "templates", h[k - 1]).parent ELSE Null]
             hop == CHOOSE h : h = body(h)
  <1>1. ancestor(d, s, 0) = hop[0]
    BY DEF ancestor
  <1>2. \E h : h = body(h)
    <2> WITNESS [k \in 0..0 |-> s]
    <2> QED
      OBVIOUS
  <1>3. hop = body(hop)
    BY <1>2
  <1> QED
    BY <1>1, <1>3

\* A license patch names one column.
LEMMA LicensePatchColumn ==
    /\ \A p \in LicensePatches : \E c \in {"status", "key", "scope", "ordered"} : DOMAIN p = {c}
    /\ \A p \in [status : {"active"}] : DOMAIN p = {"status"}
  BY DEF LicensePatches

-----------------------------------------------------------------------------
\* Each write of the memory adapter accepts what the schema accepts.
LEMMA MirrorScopes ==
    ASSUME RowsOK(db), NEW in \in ScopeInputs, NEW o \in Lite!createScope(db, in), o.out = "ok"
    PROVE  Mem!createScope(db, in) = Lite!createScope(db, in)
  <1> DEFINE r == created(db, "scopes", in)
  <1>1. Accepts(db, "scopes", r) /\ Lite!createScope(db, in) = {wrote(db, "scopes", r)}
    BY LiteWrite, OneRowMade DEF Lite!createScope, Tables
  <1>2. r.slug = in.slug /\ "id" \notin DOMAIN in
    BY DEF created, ScopeInputs
  <1>3. \A q \in db.scopes : q.slug # in.slug
    BY <1>1, <1>2, Accepted, CreatedIsNew DEF Apart, Tables
  <1> HIDE DEF r
  <1> QED
    BY <1>1, <1>3, OneRowMade, OneOutcome DEF Mem!createScope, r

LEMMA MirrorTemplates ==
    ASSUME RowsOK(db), NEW in \in TemplateInputs, NEW o \in Lite!createTemplate(db, in), o.out = "ok"
    PROVE  Mem!createTemplate(db, in) = Lite!createTemplate(db, in)
  <1> DEFINE r == created(db, "templates", in)
  <1>1. Accepts(db, "templates", r) /\ Lite!createTemplate(db, in) = {wrote(db, "templates", r)}
    BY LiteWrite, OneRowMade DEF Lite!createTemplate, Tables
  <1>2. /\ r.scope = in.scope /\ r.name = in.name /\ r.parent = in.parent
        /\ "id" \notin DOMAIN in /\ r.id = newUuidV7(db, "templates")
    BY DEF created, TemplateInputs
  <1>3. \A q \in db.templates : ~(q.scope = in.scope /\ q.name = in.name)
    BY <1>1, <1>2, Accepted, CreatedIsNew DEF Apart, Tables
  <1>4. r.id \in Nat \ {0} /\ ~has(db, "templates", r.id)
    BY <1>2, FreshId DEF RowsOK, Tables
  <1>5. in.parent # r.id
    BY <1>4, NullAssumption DEF TemplateInputs, Opt, Known, has
  <1>6. in.parent # Null => has(db, "templates", in.parent)
    <2> SUFFICES ASSUME in.parent # Null PROVE has(db, "templates", in.parent)
      OBVIOUS
    <2>1. <<"templates", in.parent>> \in Lite!references("templates", r)
      BY <1>2 DEF Lite!references
    <2> QED
      BY <1>1, <1>5, <2>1, AcceptedReferences DEF Tables
  <1> HIDE DEF r
  <1> QED
    BY <1>1, <1>3, <1>6, OneRowMade, OneOutcome, OneLookup DEF Mem!createTemplate, r

LEMMA MirrorLicenses ==
    ASSUME RowsOK(db), NEW in \in LicenseInputs, NEW o \in Lite!createLicense(db, in), o.out = "ok"
    PROVE  Mem!createLicense(db, in) = Lite!createLicense(db, in)
  <1> DEFINE r == created(db, "licenses", in)
  <1>1. Accepts(db, "licenses", r) /\ Lite!createLicense(db, in) = {wrote(db, "licenses", r)}
    BY LiteWrite, OneRowMade DEF Lite!createLicense, Tables
  <1>2. r.key = in.key /\ r.who = in.who /\ r.scope = in.scope /\ "id" \notin DOMAIN in
    BY DEF created, LicenseInputs
  <1>3. \A q \in db.licenses : q.key # in.key /\ ~(q.who = in.who /\ q.scope = in.scope)
    BY <1>1, <1>2, Accepted, CreatedIsNew DEF Apart, Tables
  <1>4. {q \in db.licenses : q.key = in.key \/ (q.who = in.who /\ q.scope = in.scope)} = {}
    BY <1>3
  <1> HIDE DEF r
  <1> QED
    BY <1>1, <1>4, OneRowMade, OneOutcome DEF Mem!createLicense, r

LEMMA MirrorUsages ==
    ASSUME RowsOK(db), NEW in \in UsageInputs, NEW o \in Lite!createUsage(db, in), o.out = "ok"
    PROVE  Mem!createUsage(db, in) = Lite!createUsage(db, in)
  <1> DEFINE r == created(db, "usages", in)
  <1>1. Accepts(db, "usages", r) /\ Lite!createUsage(db, in) = {wrote(db, "usages", r)}
    BY LiteWrite, OneRowMade DEF Lite!createUsage, Tables
  <1>2. r.license = in.license /\ r.fp = in.fp /\ r.status = "active" /\ "id" \notin DOMAIN in
    BY DEF created, UsageInputs
  <1>3. \A q \in db.usages : ~(q.license = in.license /\ q.fp = in.fp /\ q.status = "active")
    BY <1>1, <1>2, Accepted, CreatedIsNew DEF Apart, Tables
  <1> HIDE DEF r
  <1> QED
    BY <1>1, <1>3, OneRowMade, OneOutcome DEF Mem!createUsage, Mem!seatTaken, r

LEMMA MirrorKeys ==
    ASSUME RowsOK(db), NEW in \in KeyInputs, NEW o \in Lite!createKey(db, in), o.out = "ok"
    PROVE  Mem!createKey(db, in) = Lite!createKey(db, in)
  <1> DEFINE r == created(db, "keys", in)
  <1>1. Accepts(db, "keys", r) /\ Lite!createKey(db, in) = {wrote(db, "keys", r)}
    BY LiteWrite, OneRowMade DEF Lite!createKey, Tables
  <1>2. r.kid = in.kid /\ r.scope = in.scope /\ r.role = in.role /\ r.state = in.state /\ "id" \notin DOMAIN in
    BY DEF created, KeyInputs
  <1>3. \A q \in db.keys : /\ q.kid # in.kid
                           /\ ~(/\ in.role = "signing" /\ q.role = "signing" /\ in.state = "active"
                                /\ q.state = "active" /\ q.scope = in.scope)
    BY <1>1, <1>2, Accepted, CreatedIsNew DEF Apart, Tables
  <1> HIDE DEF r
  <1> QED
    BY <1>1, <1>3, OneRowMade, OneOutcome DEF Mem!createKey, Mem!signerTaken, r

LEMMA MirrorAudit ==
    ASSUME NEW in, NEW o \in Lite!appendAudit(db, in), o.out = "ok"
    PROVE  Mem!appendAudit(db, in) = Lite!appendAudit(db, in)
  BY LiteWrite, OneRowMade, OneOutcome DEF Lite!appendAudit, Mem!appendAudit, Tables

LEMMA MirrorTrials ==
    ASSUME RowsOK(db), NEW in \in TrialInputs, NEW o \in Lite!recordTrialIssuance(db, in), o.out = "ok"
    PROVE  Mem!recordTrialIssuance(db, in) = Lite!recordTrialIssuance(db, in)
  <1> DEFINE r == created(db, "trials", in)
  <1>1. Accepts(db, "trials", r) /\ Lite!recordTrialIssuance(db, in) = {wrote(db, "trials", r)}
    BY LiteWrite, OneRowMade DEF Lite!recordTrialIssuance, Tables
  <1>2. r.template = in.template /\ r.fp = in.fp /\ "id" \notin DOMAIN in
    BY DEF created, TrialInputs
  <1>3. \A q \in db.trials : ~(q.template = in.template /\ q.fp = in.fp)
    BY <1>1, <1>2, Accepted, CreatedIsNew DEF Apart, Tables
  <1> HIDE DEF r
  <1> QED
    BY <1>1, <1>3, OneRowMade, OneOutcome DEF Mem!recordTrialIssuance, r

\* The same for the updates.
LEMMA MirrorUpdateScope ==
    ASSUME NEW id, NEW patch, NEW o \in Lite!updateScope(db, id, patch), o.out = "ok"
    PROVE  Mem!updateScope(db, id, patch) = Lite!updateScope(db, id, patch)
  <1>1. /\ has(db, "scopes", id) /\ Accepts(db, "scopes", patched(db, "scopes", id, patch))
        /\ Lite!updateScope(db, id, patch) = {wrote(db, "scopes", patched(db, "scopes", id, patch))}
    BY LiteUpdate DEF Lite!updateScope, Tables
  <1> QED
    BY <1>1, OneRowMade, OneOutcome, OneLookup DEF Mem!updateScope

LEMMA MirrorUpdateTemplate ==
    ASSUME RowsOK(db), NEW id, NEW patch \in TemplatePatches,
           NEW o \in Lite!updateTemplate(db, id, patch), o.out = "ok"
    PROVE  Mem!updateTemplate(db, id, patch) = Lite!updateTemplate(db, id, patch)
  <1> DEFINE r == patched(db, "templates", id, patch)
             moves == "parent" \in DOMAIN patch /\ patch.parent # Null
             walks == \E n \in 0..(WalkCap - 1) : ancestor(db, patch.parent, n) = id
  <1>0. "id" \notin DOMAIN patch
    BY DEF TemplatePatches
  <1>1. /\ Lite!walkSqliteParentChain(db, patch.parent, id) <=> walks
        /\ Mem!walkParentChain(db, patch.parent, id) <=> walks
    BY OneAncestry DEF Lite!walkSqliteParentChain, Mem!walkParentChain
  <1>2. ~(moves /\ walks) /\ o \in Lite!update(db, "templates", id, patch, "pk")
        /\ Lite!updateTemplate(db, id, patch) = Lite!update(db, "templates", id, patch, "pk")
    <2> HIDE DEF walks
    <2> QED
      BY <1>1, OneOutcome DEF Lite!updateTemplate, refused
  <1>3. /\ has(db, "templates", id) /\ Accepts(db, "templates", r)
        /\ Lite!updateTemplate(db, id, patch) = {wrote(db, "templates", r)}
    BY <1>2, LiteUpdate DEF Tables
  <1>4. ASSUME moves PROVE has(db, "templates", patch.parent)
    <2>1. r.parent = patch.parent
      BY <1>4 DEF patched
    <2>4. r.id = id
      BY <1>0, <1>3, PatchedId DEF Tables
    <2>2. patch.parent # id
      <3>1. ancestor(db, patch.parent, 0) = patch.parent
        BY AncestorZero
      <3>2. 0 \in 0..(WalkCap - 1)
        BY WalkCapAssumption
      <3> QED
        BY <1>2, <1>4, <3>1, <3>2
    <2>3. <<"templates", patch.parent>> \in Lite!references("templates", r)
      BY <1>4, <2>1 DEF Lite!references
    <2> HIDE DEF r, walks
    <2> QED
      BY <1>3, <2>2, <2>3, <2>4, AcceptedReferences DEF Tables
  <1> HIDE DEF r, walks
  <1> QED
    BY <1>1, <1>2, <1>3, <1>4, OneRowMade, OneOutcome, OneLookup DEF Mem!updateTemplate, r

LEMMA MirrorUpdateLicense ==
    ASSUME RowsOK(db), NEW id, NEW patch, "id" \notin DOMAIN patch,
           NEW o \in Lite!updateLicense(db, id, patch), o.out = "ok"
    PROVE  Mem!updateLicense(db, id, patch) = Lite!updateLicense(db, id, patch)
  <1> DEFINE r == patched(db, "licenses", id, patch)
  <1>1. /\ has(db, "licenses", id) /\ Accepts(db, "licenses", r)
        /\ Lite!updateLicense(db, id, patch) = {wrote(db, "licenses", r)}
    BY LiteUpdate DEF Lite!updateLicense, Tables
  <1>2. r.id = id
    BY <1>1, PatchedId DEF Tables
  <1>3. ASSUME "key" \in DOMAIN patch, NEW q \in db.licenses, q.id # id
        PROVE  q.key # patch.key
    <2>1. r.key = patch.key
      BY <1>3 DEF patched
    <2>2. Apart("licenses", r, q)
      BY <1>1, <1>2, <1>3, Accepted DEF Tables
    <2> QED
      BY <2>1, <2>2 DEF Apart
  <1> HIDE DEF r
  <1> QED
    BY <1>1, <1>3, OneRowMade, OneOutcome, OneLookup DEF Mem!updateLicense, r

LEMMA MirrorUpdateUsage ==
    ASSUME RowsOK(db), NEW id, NEW patch \in UsagePatches,
           NEW o \in Lite!updateUsage(db, id, patch), o.out = "ok"
    PROVE  Mem!updateUsage(db, id, patch) = Lite!updateUsage(db, id, patch)
  <1> DEFINE r == patched(db, "usages", id, patch)
             cur == row(db, "usages", id)
  <1>0. DOMAIN patch = {"status"}
    BY DEF UsagePatches
  <1>1. /\ has(db, "usages", id) /\ Accepts(db, "usages", r)
        /\ Lite!updateUsage(db, id, patch) = {wrote(db, "usages", r)}
    BY LiteUpdate DEF Lite!updateUsage, Tables
  <1>2. r.id = id /\ r.status = patch.status /\ r.license = cur.license /\ r.fp = cur.fp
    <2>1. r.id = id /\ DOMAIN cur = {"id", "license", "fp", "status"}
      BY <1>0, <1>1, PatchedId DEF Tables, Columns
    <2> QED
      BY <1>0, <2>1 DEF patched
  <1>3. ASSUME patch.status = "active", NEW q \in db.usages, q.id # id
        PROVE  ~(q.license = cur.license /\ q.fp = cur.fp /\ q.status = "active")
    <2>1. Apart("usages", r, q)
      BY <1>1, <1>2, <1>3, Accepted DEF Tables
    <2> QED
      BY <1>2, <1>3, <2>1 DEF Apart
  <1> HIDE DEF r, cur
  <1> QED
    BY <1>1, <1>3, OneRowMade, OneOutcome, OneLookup DEF Mem!updateUsage, Mem!seatTaken, r, cur

LEMMA MirrorUpdateKey ==
    ASSUME RowsOK(db), NEW id, NEW patch \in KeyPatches,
           NEW o \in Lite!updateKey(db, id, patch), o.out = "ok"
    PROVE  Mem!updateKey(db, id, patch) = Lite!updateKey(db, id, patch)
  <1> DEFINE r == patched(db, "keys", id, patch)
             cur == row(db, "keys", id)
  <1>0. DOMAIN patch = {"state"}
    BY DEF KeyPatches
  <1>1. /\ has(db, "keys", id) /\ Accepts(db, "keys", r)
        /\ Lite!updateKey(db, id, patch) = {wrote(db, "keys", r)}
    BY LiteUpdate DEF Lite!updateKey, Tables
  <1>2. r.id = id /\ r.state = patch.state /\ r.scope = cur.scope /\ r.role = cur.role
    <2>1. r.id = id /\ DOMAIN cur = {"id", "scope", "kid", "role", "state", "from", "ordered"}
      BY <1>0, <1>1, PatchedId DEF Tables, Columns
    <2> QED
      BY <1>0, <2>1 DEF patched
  <1>3. ASSUME patch.state = "active", cur.role = "signing", NEW q \in db.keys, q.id # id
        PROVE  ~(q.role = "signing" /\ q.state = "active" /\ q.scope = cur.scope)
    <2>1. Apart("keys", r, q)
      BY <1>1, <1>2, <1>3, Accepted DEF Tables
    <2> QED
      BY <1>2, <1>3, <2>1 DEF Apart
  <1> HIDE DEF r, cur
  <1> QED
    BY <1>1, <1>3, OneRowMade, OneOutcome, OneLookup DEF Mem!updateKey, Mem!signerTaken, r, cur

\* Whatever SQLite accepts the memory adapter accepts, with the same rows.
LEMMA MemoryMirrors ==
    ASSUME RowsOK(db)
    PROVE  MemoryMirrorsSql
  <1> SUFFICES ASSUME NEW c \in Calls, NEW o \in LiteOutcomes(c), o.out = "ok"
               PROVE  MemOutcomes(c) = LiteOutcomes(c)
    BY DEF MemoryMirrorsSql
  <1> USE DEF MemOutcomes, LiteOutcomes
  <1>1. CASE c.op = "createScope" /\ c.arg \in ScopeInputs
    BY <1>1, MirrorScopes
  <1>2. CASE c.op = "updateScope"
    BY <1>2, MirrorUpdateScope
  <1>3. CASE c.op = "createTemplate" /\ c.arg \in TemplateInputs
    BY <1>3, MirrorTemplates
  <1>4. CASE c.op = "updateTemplate" /\ c.arg \in TemplatePatches
    BY <1>4, MirrorUpdateTemplate
  <1>5. CASE c.op = "createLicense" /\ c.arg \in LicenseInputs
    BY <1>5, MirrorLicenses
  <1>6. CASE c.op = "updateLicense" /\ "id" \notin DOMAIN c.arg
    BY <1>6, MirrorUpdateLicense
  <1>7. CASE c.op = "createUsage" /\ c.arg \in UsageInputs
    BY <1>7, MirrorUsages
  <1>8. CASE c.op = "updateUsage" /\ c.arg \in UsagePatches
    BY <1>8, MirrorUpdateUsage
  <1>9. CASE c.op = "createKey" /\ c.arg \in KeyInputs
    BY <1>9, MirrorKeys
  <1>10. CASE c.op = "updateKey" /\ c.arg \in KeyPatches
    BY <1>10, MirrorUpdateKey
  <1>11. CASE c.op = "appendAudit"
    BY <1>11, MirrorAudit
  <1>12. CASE c.op = "recordTrialIssuance" /\ c.arg \in TrialInputs
    BY <1>12, MirrorTrials
  <1>13. CASE c.op = "deleteTrialIssuance"
    BY <1>13 DEF Lite!deleteTrialIssuance, Mem!deleteTrialIssuance
  <1>14. /\ \A p \in LicensePatches : "id" \notin DOMAIN p
         /\ \A p \in [status : {"active"}] : "id" \notin DOMAIN p
    BY LicensePatchColumn
  <1> HIDE DEF MemOutcomes, LiteOutcomes
  <1> QED
    BY CallShape, <1>1, <1>2, <1>3, <1>4, <1>5, <1>6, <1>7, <1>8, <1>9, <1>10, <1>11, <1>12, <1>13, <1>14

-----------------------------------------------------------------------------
(* Lists and lookups.                                                        *)

\* `= ?` with the IS NULL rewriting is JavaScript's ===.
LEMMA ClauseIsEquality ==
    ASSUME NEW r, NEW c, NEW v
    PROVE  (Lite!clause(r, c, v) <=> r[c] = v) /\ (Pg!clause(r, c, v) <=> r[c] = v)
  BY DEF Lite!clause, Pg!clause

LEMMA SelectedAlike ==
    ASSUME NEW rows, NEW filter, NEW many, \A f \in DOMAIN filter : f = "status" => filter[f] # {}
    PROVE  Alike(Mem!selected(rows, filter, many), Lite!selected(rows, filter, many),
                 Pg!selected(rows, filter, many))
  <1> DEFINE keep == {q \in rows : \A f \in DOMAIN filter :
                         IF f = many THEN q[f] \in filter[f] ELSE q[f] = filter[f]}
             lite == {q \in rows : \A f \in DOMAIN filter :
                         IF f = many THEN q[f] \in filter[f] \/ (f = "status" /\ filter[f] = {})
                         ELSE Lite!clause(q, f, filter[f])}
             pg   == {q \in rows : \A f \in DOMAIN filter :
                         IF f = many THEN q[f] \in filter[f] \/ (f = "status" /\ filter[f] = {})
                         ELSE Pg!clause(q, f, filter[f])}
  <1>1. lite = keep /\ pg = keep
    BY ClauseIsEquality
  <1>2. /\ Mem!selected(rows, filter, many) = {r.id : r \in keep}
        /\ Lite!selected(rows, filter, many) = {r.id : r \in lite}
        /\ Pg!selected(rows, filter, many) = {r.id : r \in pg}
    BY DEF Mem!selected, Lite!selected, Pg!selected
  <1> HIDE DEF keep, lite, pg
  <1> QED
    BY <1>1, <1>2 DEF Alike

\* Filters name columns of their table, and no status list is empty.
LEMMA FilterStatus ==
    ASSUME {} \notin StatusLists
    PROVE  /\ \A f \in LicenseFilters \cup UsageFilters : \A c \in DOMAIN f : c = "status" => f[c] # {}
           /\ \A f \in [slug : Slugs] : "status" \notin DOMAIN f
           /\ \A f \in TemplateFilters : "status" \notin DOMAIN f
           /\ \A f \in KeyFilters : "status" \notin DOMAIN f
           /\ \A f \in AuditFilters : "status" \notin DOMAIN f
  <1>1. \A f \in LicenseFilters : \A c \in DOMAIN f : c = "status" => f[c] # {}
    BY DEF LicenseFilters
  <1>2. \A f \in UsageFilters : \A c \in DOMAIN f : c = "status" => f[c] # {}
    BY DEF UsageFilters
  <1>3. \A f \in [slug : Slugs] : "status" \notin DOMAIN f
    OBVIOUS
  <1>4. \A f \in TemplateFilters : "status" \notin DOMAIN f
    <2> TAKE f \in TemplateFilters
    <2>1. DOMAIN f = {"scope"} \/ DOMAIN f = {"parent"} \/ DOMAIN f = {"scope", "parent"}
      BY DEF TemplateFilters
    <2> QED
      BY <2>1
  <1>5. \A f \in KeyFilters : "status" \notin DOMAIN f
    <2> TAKE f \in KeyFilters
    <2>1. DOMAIN f = {"scope", "role", "state"}
      BY DEF KeyFilters
    <2> QED
      BY <2>1
  <1>6. \A f \in AuditFilters : "status" \notin DOMAIN f
    <2> TAKE f \in AuditFilters
    <2>1. DOMAIN f = {"license", "scope"} \/ DOMAIN f = {"event"}
      BY DEF AuditFilters
    <2> QED
      BY <2>1
  <1> QED
    BY <1>1, <1>2, <1>3, <1>4, <1>5, <1>6

\* Postgres refuses no template list but the global one.
LEMMA TemplateListsAccepted ==
    ASSUME NEW f \in TemplateFilters
    PROVE  Pg!pushed(f) = Pg!mentioned(f)
  <1>1. "scope" \in DOMAIN f => f["scope"] # Null
    <2>1. f \in [parent : Opt(Ids("templates"))] => DOMAIN f = {"parent"}
      OBVIOUS
    <2>2. f \notin [parent : Opt(Ids("templates"))] => f["scope"] = 1
      BY DEF TemplateFilters
    <2> QED
      BY <2>1, <2>2, NullAssumption
  <1> QED
    BY <1>1 DEF Pg!pushed, Pg!mentioned

\* Every list and lookup selects the same rows on every adapter.
LEMMA ListsAlike ==
    ASSUME RowsOK(db), {} \notin StatusLists
    PROVE  ListsAgree
  <1>1. \A f \in LicenseFilters : Alike(Mem!listLicenses(db, f), Lite!listLicenses(db, f), Pg!listLicenses(db, f))
    BY FilterStatus, SelectedAlike DEF Mem!listLicenses, Lite!listLicenses, Pg!listLicenses
  <1>2. \A f \in [slug : Slugs] : Alike(Mem!listScopes(db, f), Lite!listScopes(db, f), Pg!listScopes(db, f))
    BY FilterStatus, SelectedAlike DEF Mem!listScopes, Lite!listScopes, Pg!listScopes
  <1>3. \A f \in TemplateFilters : Alike(Mem!listTemplates(db, f), Lite!listTemplates(db, f), Pg!listTemplates(db, f))
    BY FilterStatus, SelectedAlike, TemplateListsAccepted DEF Mem!listTemplates, Lite!listTemplates, Pg!listTemplates
  <1>4. \A f \in UsageFilters : Alike(Mem!listUsages(db, f), Lite!listUsages(db, f), Pg!listUsages(db, f))
    BY FilterStatus, SelectedAlike DEF Mem!listUsages, Lite!listUsages, Pg!listUsages
  <1>5. \A f \in KeyFilters : Alike(Mem!listKeys(db, f), Lite!listKeys(db, f), Pg!listKeys(db, f))
    BY FilterStatus, SelectedAlike DEF Mem!listKeys, Lite!listKeys, Pg!listKeys
  <1>6. \A f \in AuditFilters, o \in Owning : Alike(Mem!listAudit(db, f, o), Lite!listAudit(db, f, o), Pg!listAudit(db, f, o))
    <2> TAKE f \in AuditFilters, o \in Owning
    <2> DEFINE ids == {l.id : l \in {q \in db.licenses : q.who \in o}}
               mem == {a \in db.audit : o = {} \/ (a.license # Null /\ a.license \in ids)}
               sql == {a \in db.audit : o = {} \/ \E l \in db.licenses : l.id = a.license /\ l.who \in o}
    <2>1. \A l \in db.licenses : l.id # Null
      BY NullAssumption DEF RowsOK, TableOK, Tables
    <2>2. mem = sql
      BY <2>1
    <2>3. /\ Mem!listAudit(db, f, o) = Mem!selected(mem, f, "event")
          /\ Lite!listAudit(db, f, o) = Lite!selected(sql, f, "event")
          /\ Pg!listAudit(db, f, o) = Pg!selected(sql, f, "event")
      BY DEF Mem!listAudit, Lite!listAudit, Pg!listAudit
    <2> HIDE DEF mem, sql
    <2> QED
      BY <2>2, <2>3, FilterStatus, SelectedAlike
  <1>7. \A w \in Owners, s \in {{}, {Null}, {1}} :
          Alike(Mem!findLicensesByLicensable(db, w, s), Lite!findLicensesByLicensable(db, w, s),
                Pg!findLicensesByLicensable(db, w, s))
    <2> TAKE w \in Owners, s \in {{}, {Null}, {1}}
    <2>1. \A q : /\ (\A x \in s : q.scope = x) <=> (\A x \in s : Lite!clause(q, "scope", x))
                 /\ (\A x \in s : q.scope = x) <=> (\A x \in s : Pg!clause(q, "scope", x))
      BY DEF Lite!clause, Pg!clause
    <2> DEFINE mem == {q \in db.licenses : q.who = w /\ \A x \in s : q.scope = x}
               lite == {q \in db.licenses : q.who = w /\ \A x \in s : Lite!clause(q, "scope", x)}
               pg == {q \in db.licenses : q.who = w /\ \A x \in s : Pg!clause(q, "scope", x)}
    <2>2. mem = lite /\ mem = pg
      BY <2>1
    <2>3. /\ Mem!findLicensesByLicensable(db, w, s) = {l.id : l \in mem}
          /\ Lite!findLicensesByLicensable(db, w, s) = {l.id : l \in lite}
          /\ Pg!findLicensesByLicensable(db, w, s) = {l.id : l \in pg}
      BY DEF Mem!findLicensesByLicensable, Lite!findLicensesByLicensable, Pg!findLicensesByLicensable
    <2> HIDE DEF mem, lite, pg
    <2> QED
      BY <2>2, <2>3 DEF Alike
  <1>8. \A t \in {Null, 0, 1}, v \in Devices :
          Alike(Mem!findTrialIssuance(db, t, v), Lite!findTrialIssuance(db, t, v), Pg!findTrialIssuance(db, t, v))
    <2> TAKE t \in {Null, 0, 1}, v \in Devices
    <2> DEFINE mem == {q \in db.trials : q.template = t /\ q.fp = v}
               lite == {q \in db.trials : Lite!clause(q, "template", t) /\ q.fp = v}
               pg == {q \in db.trials : Pg!clause(q, "template", t) /\ q.fp = v}
    <2>2. mem = lite /\ mem = pg
      BY DEF Lite!clause, Pg!clause
    <2>3. /\ Mem!findTrialIssuance(db, t, v) = {r.id : r \in mem}
          /\ Lite!findTrialIssuance(db, t, v) = {r.id : r \in lite}
          /\ Pg!findTrialIssuance(db, t, v) = {r.id : r \in pg}
      BY DEF Mem!findTrialIssuance, Lite!findTrialIssuance, Pg!findTrialIssuance
    <2> HIDE DEF mem, lite, pg
    <2> QED
      BY <2>2, <2>3 DEF Alike
  <1> QED
    BY <1>1, <1>2, <1>3, <1>4, <1>5, <1>6, <1>7, <1>8 DEF ListsAgree

-----------------------------------------------------------------------------
(* Statistics.                                                               *)

\* The three adapters hand their rows to one and the same roll-up.
LEMMA OneRollup ==
    ASSUME NEW L, NEW X, NEW S, NEW E
    PROVE  /\ Mem!computeLicenseStats(L, X, S, E) = Lite!computeLicenseStats(L, X, S, E)
           /\ Pg!computeLicenseStats(L, X, S, E) = Lite!computeLicenseStats(L, X, S, E)
  BY DEF Mem!computeLicenseStats, Lite!computeLicenseStats, Pg!computeLicenseStats,
         Mem!Cardinality, Lite!Cardinality, Pg!Cardinality,
         Mem!AddedEvents, Lite!AddedEvents, Pg!AddedEvents,
         Mem!RemovedEvents, Lite!RemovedEvents, Pg!RemovedEvents,
         Mem!within30d, Lite!within30d, Pg!within30d

\* What a row's expires_at is decides one figure only.
LEMMA OneFigure ==
    ASSUME NEW L, NEW X, NEW Y, NEW S, NEW E
    PROVE  /\ DOMAIN Lite!computeLicenseStats(L, X, S, E)
                = {"counts", "expiring", "added", "removed", "used", "maxUsages",
                   "perLicense", "templates"}
           /\ \A c \in DOMAIN Lite!computeLicenseStats(L, X, S, E) \ {"expiring"} :
                Lite!computeLicenseStats(L, Y, S, E)[c] = Lite!computeLicenseStats(L, X, S, E)[c]
  <1> DEFINE x == Lite!computeLicenseStats(L, X, S, E)
             y == Lite!computeLicenseStats(L, Y, S, E)
             Figures == {"counts", "expiring", "added", "removed", "used", "maxUsages",
                         "perLicense", "templates"}
  <1>1. /\ y.counts = x.counts /\ y.added = x.added /\ y.removed = x.removed
        /\ y.used = x.used /\ y.maxUsages = x.maxUsages
        /\ y.perLicense = x.perLicense /\ y.templates = x.templates
    BY DEF Lite!computeLicenseStats
  <1>2. DOMAIN x = Figures
    BY Zenon DEF Lite!computeLicenseStats
  <1> HIDE DEF x, y
  <1>3. ASSUME NEW c \in Figures, c # "expiring" PROVE y[c] = x[c]
    BY <1>1, <1>3
  <1>4. \A c \in DOMAIN x \ {"expiring"} : y[c] = x[c]
    BY <1>2, <1>3
  <1> QED
    BY <1>2, <1>4 DEF x, y

\* Only the five events of the roll-up are counted.
LEMMA OtherEventsDoNotCount ==
    ASSUME NEW L, NEW X, NEW S, NEW E
    PROVE  Lite!computeLicenseStats(L, X, S, E) =
           Lite!computeLicenseStats(L, X, S, {a \in E : a.event \in Lite!AddedEvents \cup Lite!RemovedEvents})
  <1> DEFINE A == Lite!AddedEvents
             R == Lite!RemovedEvents
             F == {a \in E : a.event \in A \cup R}
  <1>1. {a \in F : a.event \in A} = {a \in E : a.event \in A}
    OBVIOUS
  <1>2. {a \in F : a.event \in R} = {a \in E : a.event \in R}
    OBVIOUS
  <1> HIDE DEF A, R, F
  <1>3. Lite!computeLicenseStats(L, X, S, F) = Lite!computeLicenseStats(L, X, S, E)
    BY <1>1, <1>2 DEF Lite!computeLicenseStats, A, R
  <1> QED
    BY <1>3 DEF F, A, R

\* The rows of one scope, or of all: what each adapter's WHERE selects.
InScope(rows, filter) == {r \in rows : \A s \in filter : r.scope = s}

\* The seats taken on a set of licenses.
SeatsOf(d, licenses) == {u \in d.usages : u.status = "active" /\ \E l \in licenses : l.id = u.license}

\* The statistics of a database, said once.
StatsOn(d, filter, expiresAt) ==
    Lite!computeLicenseStats(InScope(d.licenses, filter), expiresAt,
                             SeatsOf(d, InScope(d.licenses, filter)), InScope(d.audit, filter))

Stats(d, filter) == StatsOn(d, filter, [l \in InScope(d.licenses, filter) |-> l.exp])
PgStats(d, filter) == StatsOn(d, filter, [l \in InScope(d.licenses, filter) |-> Pg!timestamptz(l.exp)])

\* The three selections agree: scan, JOIN, and the five events.
LEMMA StatsSelectAlike ==
    ASSUME NEW d, NEW filter
    PROVE  /\ Mem!getLicenseStats(d, filter) = Stats(d, filter)
           /\ Lite!getLicenseStats(d, filter) = Stats(d, filter)
           /\ Pg!getLicenseStats(d, filter) = PgStats(d, filter)
  <1> DEFINE L == InScope(d.licenses, filter)
             S == SeatsOf(d, L)
             E == InScope(d.audit, filter)
             F == {a \in E : a.event \in Lite!AddedEvents \cup Lite!RemovedEvents}
             X == [l \in L |-> l.exp]
             Y == [l \in L |-> Pg!timestamptz(l.exp)]
  <1>1. Mem!getLicenseStats(d, filter) = Mem!computeLicenseStats(L, X, S, E)
    BY DEF Mem!getLicenseStats, InScope, SeatsOf
  <1>2. \A r : /\ Lite!scopeWhere(r, filter) <=> \A s \in filter : r.scope = s
               /\ Pg!scopePredicate(r, filter) <=> \A s \in filter : r.scope = s
    BY DEF Lite!scopeWhere, Pg!scopePredicate, Lite!clause, Pg!clause
  <1>3. Pg!AddedEvents \cup Pg!RemovedEvents = Lite!AddedEvents \cup Lite!RemovedEvents
    BY DEF Pg!AddedEvents, Pg!RemovedEvents, Lite!AddedEvents, Lite!RemovedEvents
  <1>4. /\ {l \in d.licenses : Lite!scopeWhere(l, filter)} = L
        /\ {l \in d.licenses : Pg!scopePredicate(l, filter)} = L
    BY <1>2 DEF InScope
  <1>5. /\ {u \in d.usages : u.status = "active" /\
               \E l \in d.licenses : l.id = u.license /\ Lite!scopeWhere(l, filter)} = S
        /\ {u \in d.usages : u.status = "active" /\
               \E l \in d.licenses : l.id = u.license /\ Pg!scopePredicate(l, filter)} = S
    BY <1>2 DEF InScope, SeatsOf
  <1>6. /\ {a \in d.audit : a.event \in Lite!AddedEvents \cup Lite!RemovedEvents /\ Lite!scopeWhere(a, filter)} = F
        /\ {a \in d.audit : a.event \in Pg!AddedEvents \cup Pg!RemovedEvents /\ Pg!scopePredicate(a, filter)} = F
    BY <1>2, <1>3 DEF InScope
  <1>7. Lite!getLicenseStats(d, filter) = Lite!computeLicenseStats(L, X, S, F)
    BY <1>4, <1>5, <1>6 DEF Lite!getLicenseStats
  <1>8. Pg!getLicenseStats(d, filter) = Pg!computeLicenseStats(L, Y, S, F)
    BY <1>4, <1>5, <1>6 DEF Pg!getLicenseStats
  <1> QED
    BY <1>1, <1>7, <1>8, OneRollup, OtherEventsDoNotCount DEF Stats, PgStats, StatsOn

-----------------------------------------------------------------------------
\* Every license and audit row names the global scope or one that exists, and
\* the first scope has id 1.
ScopesOK(d) ==
    /\ d.scopes # {} => has(d, "scopes", 1)
    /\ \A r \in d.licenses \cup d.audit : r.scope = Null \/ has(d, "scopes", r.scope)

\* The active licenses of a filter, and how many seats one has in use.
Live(d, filter) == {l \in InScope(d.licenses, filter) : l.status = "active"}

SeatCount(d, l) == Lite!Cardinality({u \in d.usages : u.status = "active" /\ u.license = l.id})

LEMMA PerLicense ==
    ASSUME NEW d, NEW filter
    PROVE  Stats(d, filter).perLicense = {<<l.id, l.max, SeatCount(d, l)>> : l \in Live(d, filter)}
  <1> DEFINE L == InScope(d.licenses, filter)
             S == SeatsOf(d, L)
  <1>1. Stats(d, filter).perLicense =
          {<<l.id, l.max, Lite!Cardinality({u \in S : u.license = l.id})>> : l \in Live(d, filter)}
    BY DEF Stats, StatsOn, Lite!computeLicenseStats, Live
  <1>2. \A l \in L : {u \in S : u.license = l.id} = {u \in d.usages : u.status = "active" /\ u.license = l.id}
    BY DEF SeatsOf
  <1>3. \A l \in Live(d, filter) : Lite!Cardinality({u \in S : u.license = l.id}) = SeatCount(d, l)
    BY <1>2 DEF Live, SeatCount
  <1> HIDE DEF L, S
  <1> QED
    BY <1>1, <1>3

\* The number of added seats is the number of events that add one.
LEMMA Added ==
    ASSUME NEW d, NEW filter
    PROVE  Stats(d, filter).added = Cardinality({a \in InScope(d.audit, filter) : a.event \in Lite!AddedEvents})
  BY OneCardinality DEF Stats, StatsOn, Lite!computeLicenseStats

\* A finite set with two elements has no third.
LEMMA ThreeOrMore ==
    ASSUME NEW S, IsFiniteSet(S), NEW a \in S, NEW b \in S, NEW c \in S, a # b, a # c, b # c
    PROVE  Cardinality(S) # 2
  <1>1. IsFiniteSet({a}) /\ Cardinality({a}) = 1
    BY FS_Singleton
  <1>2. IsFiniteSet({a} \cup {b}) /\ Cardinality({a} \cup {b}) = 2
    <2>1. b \notin {a}
      OBVIOUS
    <2>2. /\ IsFiniteSet({a} \cup {b})
          /\ Cardinality({a} \cup {b}) = IF b \in {a} THEN Cardinality({a}) ELSE Cardinality({a}) + 1
      BY <1>1, FS_AddElement, Zenon
    <2> QED
      BY <1>1, <2>1, <2>2
  <1> DEFINE T == {a} \cup {b}
             U == T \cup {c}
  <1>3. c \notin T /\ U \in SUBSET S
    OBVIOUS
  <1> HIDE DEF T
  <1>4. IsFiniteSet(U) /\ Cardinality(U) = 3
    BY <1>2, <1>3, FS_AddElement DEF T
  <1> HIDE DEF U
  <1>5. Cardinality(U) <= Cardinality(S) /\ Cardinality(S) \in Nat
    BY <1>3, FS_Subset, FS_CardinalityType
  <1> QED
    BY <1>4, <1>5

\* Disjoint finite sets add up.
LEMMA DisjointSum ==
    ASSUME NEW S, NEW T, IsFiniteSet(S), IsFiniteSet(T), S \cap T = {}
    PROVE  Cardinality(S \cup T) = Cardinality(S) + Cardinality(T)
  <1>1. Cardinality(S \cap T) = 0
    BY FS_EmptySet
  <1>2. Cardinality(S \cup T) = Cardinality(S) + Cardinality(T) - Cardinality(S \cap T)
    BY FS_Union
  <1>3. Cardinality(S) \in Nat /\ Cardinality(T) \in Nat
    BY FS_CardinalityType
  <1> QED
    BY <1>1, <1>2, <1>3

LEMMA ScopeIdsFinite ==
    ASSUME RowsOK(db)
    PROVE  IsFiniteSet(Opt({r.id : r \in db.scopes}))
  <1> DEFINE ids == {r.id : r \in db.scopes}
             f == [r \in db.scopes |-> r.id]
  <1>1. IsFiniteSet(db.scopes)
    BY DEF RowsOK, TableOK, Tables
  <1>2. f \in Surjection(db.scopes, ids)
    BY DEF Surjection
  <1>3. IsFiniteSet(ids)
    BY <1>1, <1>2, FS_Surjection
  <1> HIDE DEF ids
  <1> QED
    BY <1>3, FS_AddElement DEF Opt, ids

\* The statistics agree, and the scopes partition them.
LEMMA StatsAddUp ==
    ASSUME RowsOK(db), ScopesOK(db)
    PROVE  StatsAgreeAndAddUp
  <1> DEFINE D == Opt({r.id : r \in db.scopes})
             parts == [s \in D |-> Lite!getLicenseStats(db, {s})]
             whole == Lite!getLicenseStats(db, {})
  <1>1. whole = Stats(db, {}) /\ \A s \in D : parts[s] = Stats(db, {s})
    BY StatsSelectAlike
  <1>2. \A r \in db.licenses \cup db.audit : r.scope \in D
    BY DEF ScopesOK, Opt, has
  <1>3. whole.perLicense = UNION {parts[s].perLicense : s \in D}
    <2>1. \A s \in D : parts[s].perLicense = {<<l.id, l.max, SeatCount(db, l)>> : l \in Live(db, {s})}
      BY <1>1, PerLicense
    <2>2. whole.perLicense = {<<l.id, l.max, SeatCount(db, l)>> : l \in Live(db, {})}
      BY <1>1, PerLicense
    <2>3. \A l : l \in Live(db, {}) <=> \E s \in D : l \in Live(db, {s})
      BY <1>2 DEF Live, InScope
    <2> HIDE DEF D, parts, whole
    <2>4. \A e : e \in whole.perLicense <=> \E s \in D : e \in parts[s].perLicense
      <3> TAKE e
      <3>1. e \in whole.perLicense <=> \E l \in Live(db, {}) : e = <<l.id, l.max, SeatCount(db, l)>>
        BY <2>2
      <3>2. \A s \in D : e \in parts[s].perLicense <=> \E l \in Live(db, {s}) : e = <<l.id, l.max, SeatCount(db, l)>>
        BY <2>1
      <3> QED
        BY <2>3, <3>1, <3>2, Zenon
    <2> QED
      BY <2>4
  <1>4. ASSUME NEW s \in D, NEW q \in D, s # q
        PROVE  parts[s].perLicense \cap parts[q].perLicense = {}
    <2>1. /\ parts[s].perLicense = {<<l.id, l.max, SeatCount(db, l)>> : l \in Live(db, {s})}
          /\ parts[q].perLicense = {<<l.id, l.max, SeatCount(db, l)>> : l \in Live(db, {q})}
      BY <1>1, PerLicense
    <2>2. \A l \in Live(db, {s}), k \in Live(db, {q}) : l.id # k.id
      BY <1>4 DEF Live, InScope, RowsOK, TableOK, Tables
    <2> HIDE DEF parts
    <2> QED
      BY <2>1, <2>2
  <1>5. ASSUME Cardinality(DOMAIN parts) = 2
        PROVE  whole.added = parts[Null].added + parts[1].added
    <2> DEFINE N(f) == {a \in InScope(db.audit, f) : a.event \in Lite!AddedEvents}
    <2>1. IsFiniteSet(db.audit)
      BY DEF RowsOK, TableOK, Tables
    <2>2. 1 \in D /\ D = {Null, 1}
      <3>1. IsFiniteSet(db.scopes) /\ \A r, q \in db.scopes : r.id = q.id => r = q
        BY DEF RowsOK, TableOK, Tables
      <3>2. db.scopes # {}
        <4> SUFFICES ASSUME db.scopes = {} PROVE FALSE
          OBVIOUS
        <4>1. DOMAIN parts = {Null}
          BY DEF Opt
        <4>2. Cardinality({Null}) = 1
          BY FS_Singleton
        <4> HIDE DEF parts
        <4> QED
          BY <1>5, <4>1, <4>2
      <3>3. 1 \in D
        BY <3>2 DEF ScopesOK, has, Opt
      <3>4. ASSUME NEW x \in D, x # Null, x # 1 PROVE FALSE
        <4>0. DOMAIN parts = D
          OBVIOUS
        <4> HIDE DEF parts
        <4>1. Null \in D /\ Null # 1
          BY NullAssumption DEF Opt
        <4>2. IsFiniteSet(D)
          BY ScopeIdsFinite
        <4> HIDE DEF D
        <4> QED
          BY <1>5, <3>3, <3>4, <4>0, <4>1, <4>2, ThreeOrMore
      <3> QED
        BY <3>3, <3>4 DEF Opt
    <2>3. N({}) = N({Null}) \cup N({1}) /\ N({Null}) \cap N({1}) = {}
      BY <1>2, <2>2, NullAssumption DEF InScope
    <2>4. IsFiniteSet(N({Null})) /\ IsFiniteSet(N({1}))
      BY <2>1, FS_Subset DEF InScope
    <2> HIDE DEF N
    <2>5. Cardinality(N({})) = Cardinality(N({Null})) + Cardinality(N({1}))
      BY <2>3, <2>4, DisjointSum
    <2>6. /\ whole.added = Cardinality(N({})) /\ parts[Null].added = Cardinality(N({Null}))
          /\ parts[1].added = Cardinality(N({1}))
      BY <1>1, <2>2, Added DEF N
    <2> QED
      BY <2>5, <2>6
  <1>6. \A f \in StatsFilters :
          LET stats == Lite!getLicenseStats(db, f)
          IN  /\ Mem!getLicenseStats(db, f) = stats
              /\ \A c \in DOMAIN stats \ {"expiring"} : Pg!getLicenseStats(db, f)[c] = stats[c]
    <2> TAKE f \in StatsFilters
    <2> DEFINE stats == Lite!getLicenseStats(db, f)
    <2>1. Mem!getLicenseStats(db, f) = stats /\ stats = Stats(db, f)
      BY StatsSelectAlike
    <2>2. Pg!getLicenseStats(db, f) = PgStats(db, f)
      BY StatsSelectAlike
    <2>3. \A c \in DOMAIN Stats(db, f) \ {"expiring"} : PgStats(db, f)[c] = Stats(db, f)[c]
      BY OneFigure DEF Stats, PgStats, StatsOn
    <2> HIDE DEF stats
    <2>4. \A c \in DOMAIN stats \ {"expiring"} : Pg!getLicenseStats(db, f)[c] = stats[c]
      BY <2>1, <2>2, <2>3
    <2> QED
      BY <2>1, <2>4 DEF stats
  <1>7. DOMAIN parts = D
    OBVIOUS
  <1> HIDE DEF D, parts, whole
  <1> QED
    BY <1>3, <1>4, <1>5, <1>6, <1>7 DEF StatsAgreeAndAddUp, D, parts, whole

-----------------------------------------------------------------------------
(* What one call may leave behind, for each adapter.                         *)

\* What a caller can create in a table, and how it can change a row of it.
Inputs(t) ==
    CASE t = "scopes"    -> ScopeInputs
      [] t = "templates" -> TemplateInputs
      [] t = "licenses"  -> LicenseInputs
      [] t = "usages"    -> UsageInputs
      [] t = "keys"      -> KeyInputs
      [] t = "audit"     -> AuditInputs
      [] t = "trials"    -> TrialInputs

Patches(t) ==
    CASE t = "scopes"    -> ScopePatches
      [] t = "templates" -> TemplatePatches
      [] t = "licenses"  -> LicensePatches
      [] t = "usages"    -> UsagePatches
      [] t = "keys"      -> KeyPatches
      [] OTHER           -> {}

\* The tables a focus writes.
Written ==
    CASE focus = "catalogue" -> {"scopes", "templates"}
      [] focus = "licenses"  -> {"licenses"}
      [] focus = "seats"     -> {"licenses", "usages", "audit"}
      [] focus = "keys"      -> {"keys"}
      [] focus = "trials"    -> {"trials"}
      [] OTHER               -> {}

\* Row r can stand in table t: it shares no unique group with another row, if
\* no two rows did before, and in a SQL schema its references resolve.
Fits(t, r) ==
    /\ /\ adapter # "memory" \/ focus \notin {"catalogue", "licenses"}
       /\ \A a, b \in db[t] : a # b => Apart(t, a, b)
       => \A q \in db[t] : q.id # r.id => Apart(t, r, q)
    /\ adapter # "memory" =>
          \A x \in Lite!references(t, r) : has(db, x[1], x[2]) \/ (x[1] = t /\ x[2] = r.id)

\* The parent a template is given is not below it, as far as the walk sees.
NotBelow(id, patch) ==
    "parent" \in DOMAIN patch /\ patch.parent # Null =>
        ~ \E n \in 0..(WalkCap - 1) : ancestor(db, patch.parent, n) = id

\* d is the database after a row was created, changed or dropped.
Inserted(t, d) ==
    \E in \in Inputs(t) :
        /\ focus = "catalogue" => Room(t)
        /\ Fits(t, created(db, t, in))
        /\ d = wrote(db, t, created(db, t, in)).db

Changed(t, d) ==
    \E id, patch :
        /\ has(db, t, id) /\ patch \in Patches(t)
        /\ t = "templates" => NotBelow(id, patch)
        /\ focus = "seats" => DOMAIN patch = {"status"}
        /\ Fits(t, patched(db, t, id, patch))
        /\ d = wrote(db, t, patched(db, t, id, patch)).db

Dropped(d) == \E id : d = [db EXCEPT !.trials = {r \in @ : r.id # id}]

\* What one call may leave behind.
Effect(d) ==
    \/ d = db
    \/ \E t \in Written : Inserted(t, d) \/ Changed(t, d)
    \/ "trials" \in Written /\ Dropped(d)

\* Inputs bring all the columns of a row but its id; patches some of them.
LEMMA InputColumns ==
    ASSUME NEW t \in Tables, NEW in \in Inputs(t)
    PROVE  DOMAIN in = Columns(t) \ {"id"}
  <1> USE DEF Inputs, Columns
  <1>1. CASE t = "scopes"
    BY <1>1 DEF ScopeInputs
  <1>2. CASE t = "templates"
    BY <1>2 DEF TemplateInputs
  <1>3. CASE t = "licenses"
    BY <1>3 DEF LicenseInputs
  <1>4. CASE t = "usages"
    BY <1>4 DEF UsageInputs
  <1>5. CASE t = "keys"
    BY <1>5 DEF KeyInputs
  <1>6. CASE t = "audit"
    BY <1>6 DEF AuditInputs
  <1>7. CASE t = "trials"
    BY <1>7 DEF TrialInputs
  <1> QED
    BY <1>1, <1>2, <1>3, <1>4, <1>5, <1>6, <1>7 DEF Tables

LEMMA PatchColumns ==
    ASSUME NEW t \in Tables, NEW patch \in Patches(t)
    PROVE  DOMAIN patch \subseteq Columns(t) \ {"id"}
  <1> USE DEF Patches, Columns
  <1>1. CASE t = "scopes"
    BY <1>1 DEF ScopePatches
  <1>2. CASE t = "templates"
    BY <1>2 DEF TemplatePatches
  <1>3. CASE t = "licenses"
    BY <1>3 DEF LicensePatches
  <1>4. CASE t = "usages"
    BY <1>4 DEF UsagePatches
  <1>5. CASE t = "keys"
    BY <1>5 DEF KeyPatches
  <1>6. CASE t \in {"audit", "trials"}
    BY <1>6
  <1> QED
    BY <1>1, <1>2, <1>3, <1>4, <1>5, <1>6 DEF Tables

\* A row the schema accepts fits.
LEMMA AcceptedFits ==
    ASSUME NEW t \in Tables, NEW r, Accepts(db, t, r)
    PROVE  Fits(t, r)
  BY Accepted, AcceptedReferences DEF Fits

\* SQLite leaves nothing else.
LEMMA LiteInsert ==
    ASSUME NEW t \in Written, t \in Tables, focus = "catalogue" => Room(t), NEW in \in Inputs(t),
           NEW o \in Lite!write(db, t, Lite!created(db, t, in))
    PROVE  Effect(o.db)
  <1> DEFINE r == created(db, t, in)
  <1>1. Lite!created(db, t, in) = r
    BY OneRowMade
  <1> HIDE DEF r
  <1>2. (Accepts(db, t, r) /\ o = wrote(db, t, r)) \/ o.db = db
    BY <1>1, LiteWrite
  <1>3. CASE Accepts(db, t, r) /\ o = wrote(db, t, r)
    <2>1. Fits(t, r)
      BY <1>3, AcceptedFits
    <2>2. Inserted(t, o.db)
      BY <1>3, <2>1 DEF Inserted, r
    <2> QED
      BY <2>2 DEF Effect
  <1> QED
    BY <1>2, <1>3 DEF Effect

LEMMA LiteChange ==
    ASSUME NEW t \in Written, t \in Tables, NEW id, NEW patch \in Patches(t), NEW missing, missing # "ok",
           t = "templates" => NotBelow(id, patch),
           focus = "seats" => DOMAIN patch = {"status"},
           NEW o \in Lite!update(db, t, id, patch, missing)
    PROVE  Effect(o.db)
  <1> DEFINE r == patched(db, t, id, patch)
  <1> HIDE DEF r
  <1>2. (has(db, t, id) /\ Accepts(db, t, r) /\ o = wrote(db, t, r)) \/ o.db = db
    BY LiteUpdate DEF r
  <1>3. CASE has(db, t, id) /\ Accepts(db, t, r) /\ o = wrote(db, t, r)
    <2>1. Fits(t, r)
      BY <1>3, AcceptedFits
    <2>2. Changed(t, o.db)
      BY <1>3, <2>1 DEF Changed, r
    <2> QED
      BY <2>2 DEF Effect
  <1> QED
    BY <1>2, <1>3 DEF Effect

LEMMA LiteEffect ==
    ASSUME NEW c \in Calls, NEW o \in LiteOutcomes(c)
    PROVE  Effect(o.db)
  <1> USE DEF Tables, LiteOutcomes, Inputs, Patches, Written
  <1>1. CASE focus = "catalogue" /\ Room("scopes") /\ c.op = "createScope" /\ c.arg \in ScopeInputs
    BY <1>1, LiteInsert DEF Lite!createScope
  <1>2. CASE focus = "catalogue" /\ Room("templates") /\ c.op = "createTemplate" /\ c.arg \in TemplateInputs
    BY <1>2, LiteInsert DEF Lite!createTemplate
  <1>3. CASE focus = "catalogue" /\ c.op = "updateScope" /\ c.arg \in ScopePatches
    BY <1>3, LiteChange DEF Lite!updateScope
  <1>4. CASE focus = "catalogue" /\ c.op = "updateTemplate" /\ c.arg \in TemplatePatches
    <2>1. CASE NotBelow(c.id, c.arg)
      <3>1. o \in Lite!update(db, "templates", c.id, c.arg, "pk")
        BY <1>4, <2>1, OneAncestry DEF NotBelow, Lite!updateTemplate, Lite!walkSqliteParentChain
      <3> QED
        BY <1>4, <2>1, <3>1, LiteChange
    <2>2. CASE ~NotBelow(c.id, c.arg)
      <3>1. o = refused(db, "TemplateCycle")
        BY <1>4, <2>2, OneAncestry, OneOutcome DEF NotBelow, Lite!updateTemplate, Lite!walkSqliteParentChain
      <3> QED
        BY <3>1 DEF Effect, refused
    <2> QED
      BY <2>1, <2>2
  <1>5. CASE focus = "licenses" /\ c.op = "createLicense" /\ c.arg \in LicenseInputs
    BY <1>5, LiteInsert DEF Lite!createLicense
  <1>6. CASE focus = "licenses" /\ c.op = "updateLicense" /\ c.arg \in LicensePatches
    BY <1>6, LiteChange DEF Lite!updateLicense
  <1>7. CASE focus = "seats" /\ c.op = "updateLicense" /\ c.arg \in [status : {"active"}]
    <2>1. c.arg \in LicensePatches /\ DOMAIN c.arg = {"status"}
      BY <1>7 DEF LicensePatches
    <2> QED
      BY <1>7, <2>1, LiteChange DEF Lite!updateLicense
  <1>8. CASE focus = "seats" /\ c.op = "createUsage" /\ c.arg \in UsageInputs
    BY <1>8, LiteInsert DEF Lite!createUsage
  <1>9. CASE focus = "seats" /\ c.op = "updateUsage" /\ c.arg \in UsagePatches
    <2>1. DOMAIN c.arg = {"status"}
      BY <1>9 DEF UsagePatches
    <2> QED
      BY <1>9, <2>1, LiteChange DEF Lite!updateUsage
  <1>10. CASE focus = "seats" /\ c.op = "appendAudit" /\ c.arg \in AuditInputs
    BY <1>10, LiteInsert DEF Lite!appendAudit
  <1>11. CASE focus = "keys" /\ c.op = "createKey" /\ c.arg \in KeyInputs
    BY <1>11, LiteInsert DEF Lite!createKey
  <1>12. CASE focus = "keys" /\ c.op = "updateKey" /\ c.arg \in KeyPatches
    BY <1>12, LiteChange DEF Lite!updateKey
  <1>13. CASE focus = "trials" /\ c.op = "recordTrialIssuance" /\ c.arg \in TrialInputs
    BY <1>13, LiteInsert DEF Lite!recordTrialIssuance
  <1>14. CASE focus = "trials" /\ c.op = "deleteTrialIssuance"
    <2>1. o.db = [db EXCEPT !.trials = {r \in @ : r.id # c.id}]
      BY <1>14 DEF Lite!deleteTrialIssuance
    <2>2. Dropped(o.db)
      BY <2>1 DEF Dropped
    <2> QED
      BY <1>14, <2>2 DEF Effect
  <1> QED
    BY CallShape, <1>1, <1>2, <1>3, <1>4, <1>5, <1>6, <1>7, <1>8, <1>9, <1>10, <1>11, <1>12, <1>13, <1>14

\* Postgres leaves the rows SQLite leaves: its outcomes are records too.
LEMMA PgWrites ==
    /\ \A d, t, r : \A o \in Pg!insert(d, t, r) : DOMAIN o = {"db", "out"}
    /\ \A d, t, id, patch, missing :
          \A o \in Pg!updateReturning(d, t, id, patch, missing) : DOMAIN o = {"db", "out"}
    /\ \A d, t, r : \A o \in Lite!write(d, t, r) : DOMAIN o = {"db", "out"}
    /\ \A d, t, id, patch, missing :
          \A o \in Lite!update(d, t, id, patch, missing) : DOMAIN o = {"db", "out"}
  <1>1. \A d, t, r : \A o \in Pg!insert(d, t, r) : DOMAIN o = {"db", "out"}
    BY DEF Pg!insert, Pg!wrote, Pg!refused
  <1>2. \A d, t, r : \A o \in Lite!write(d, t, r) : DOMAIN o = {"db", "out"}
    BY DEF Lite!write, Lite!wrote, Lite!refused
  <1> QED
    BY <1>1, <1>2 DEF Pg!updateReturning, Pg!refused, Lite!update, Lite!refused

LEMMA OutcomesAreRecords ==
    ASSUME NEW c \in Calls, NEW o \in LiteOutcomes(c) \cup PgOutcomes(c)
    PROVE  DOMAIN o = {"db", "out"}
  <1> USE PgWrites DEF LiteOutcomes, PgOutcomes
  <1>1. CASE c.op \in {"createScope", "createTemplate", "createLicense"}
    BY <1>1 DEF Lite!createScope, Pg!createScope, Lite!createTemplate, Pg!createTemplate,
                Lite!createLicense, Pg!createLicense
  <1>2. CASE c.op \in {"createUsage", "createKey", "appendAudit", "recordTrialIssuance"}
    BY <1>2 DEF Lite!createUsage, Pg!createUsage, Lite!createKey, Pg!createKey, Lite!appendAudit, Pg!appendAudit,
                Lite!recordTrialIssuance, Pg!recordTrialIssuance
  <1>3. CASE c.op \in {"updateScope", "updateLicense", "updateUsage", "updateKey"}
    BY <1>3 DEF Lite!updateScope, Pg!updateScope, Lite!updateLicense, Pg!updateLicense,
                Lite!updateUsage, Pg!updateUsage, Lite!updateKey, Pg!updateKey
  <1>4. CASE c.op = "updateTemplate"
    BY <1>4 DEF Lite!updateTemplate, Pg!updateTemplate, Lite!refused, Pg!refused
  <1>5. CASE c.op = "deleteTrialIssuance"
    BY <1>5 DEF Lite!deleteTrialIssuance, Pg!deleteTrialIssuance
  <1> QED
    BY CallShape, <1>1, <1>2, <1>3, <1>4, <1>5

\* Neither does Postgres.
LEMMA PgEffect ==
    ASSUME NEW c \in Calls, NEW o \in PgOutcomes(c)
    PROVE  Effect(o.db)
  <1>1. Coded(LiteOutcomes(c)) = Coded(PgOutcomes(c))
    BY SqlAnswersAlike DEF SqlAdaptersAgree, Coded, coded
  <1>2. PICK p \in LiteOutcomes(c) : coded(p) = coded(o)
    BY <1>1 DEF Coded
  <1>3. DOMAIN o = {"db", "out"} /\ DOMAIN p = {"db", "out"}
    BY OutcomesAreRecords
  <1>4. coded(p).db = p.db /\ coded(o).db = o.db
    BY <1>3 DEF coded
  <1> QED
    BY <1>2, <1>4, LiteEffect

\* What the memory adapter stores fits where it is claimed to.
LEMMA MemInsert ==
    ASSUME NEW t \in Written, focus = "catalogue" => Room(t), NEW in \in Inputs(t),
           Fits(t, created(db, t, in)), NEW o, o = Mem!wrote(db, t, Mem!created(db, t, in))
    PROVE  Effect(o.db)
  <1>1. o = wrote(db, t, created(db, t, in))
    BY OneRowMade, OneOutcome
  <1>2. Inserted(t, o.db)
    BY <1>1 DEF Inserted
  <1> QED
    BY <1>2 DEF Effect

LEMMA MemChange ==
    ASSUME NEW t \in Written, NEW id, has(db, t, id), NEW patch \in Patches(t),
           t = "templates" => NotBelow(id, patch), focus = "seats" => DOMAIN patch = {"status"},
           Fits(t, patched(db, t, id, patch)), NEW o, o = Mem!wrote(db, t, Mem!patched(db, t, id, patch))
    PROVE  Effect(o.db)
  <1>1. o = wrote(db, t, patched(db, t, id, patch))
    BY OneRowMade, OneOutcome
  <1>2. Changed(t, o.db)
    BY <1>1 DEF Changed
  <1> QED
    BY <1>2 DEF Effect

LEMMA MemRefused ==
    ASSUME NEW e, NEW o, o = Mem!refused(db, e)
    PROVE  Effect(o.db)
  BY DEF Mem!refused, Effect

\* In the catalogue and on licenses nothing is claimed of it but the shape.
LEMMA MemCatalogue ==
    ASSUME NEW c \in Calls, NEW o \in MemOutcomes(c), adapter = "memory",
           focus \in {"catalogue", "licenses"}
    PROVE  Effect(o.db)
  <1>1. \A t, r : Fits(t, r)
    BY DEF Fits
  <1> USE DEF Tables, MemOutcomes, Inputs, Patches, Written
  <1>2. CASE focus = "catalogue" /\ Room("scopes") /\ c.op = "createScope" /\ c.arg \in ScopeInputs
    BY <1>1, <1>2, MemInsert, MemRefused DEF Mem!createScope
  <1>3. CASE focus = "catalogue" /\ Room("templates") /\ c.op = "createTemplate" /\ c.arg \in TemplateInputs
    BY <1>1, <1>3, MemInsert, MemRefused DEF Mem!createTemplate
  <1>4. CASE focus = "catalogue" /\ c.op = "updateScope" /\ c.arg \in ScopePatches
    BY <1>1, <1>4, MemChange, MemRefused, OneLookup DEF Mem!updateScope
  <1>5. CASE focus = "catalogue" /\ c.op = "updateTemplate" /\ c.arg \in TemplatePatches
    <2>1. CASE NotBelow(c.id, c.arg) /\ o = Mem!wrote(db, "templates", Mem!patched(db, "templates", c.id, c.arg))
               /\ has(db, "templates", c.id)
      BY <1>1, <1>5, <2>1, MemChange
    <2>2. CASE ~(NotBelow(c.id, c.arg) /\ o = Mem!wrote(db, "templates", Mem!patched(db, "templates", c.id, c.arg))
                 /\ has(db, "templates", c.id))
      <3>1. \E e : o = Mem!refused(db, e)
        BY <1>5, <2>2, OneAncestry, OneLookup DEF NotBelow, Mem!updateTemplate, Mem!walkParentChain
      <3> QED
        BY <3>1, MemRefused
    <2> QED
      BY <2>1, <2>2
  <1>6. CASE focus = "licenses" /\ c.op = "createLicense" /\ c.arg \in LicenseInputs
    BY <1>1, <1>6, MemInsert, MemRefused DEF Mem!createLicense
  <1>7. CASE focus = "licenses" /\ c.op = "updateLicense" /\ c.arg \in LicensePatches
    BY <1>1, <1>7, MemChange, MemRefused, OneLookup DEF Mem!updateLicense
  <1> QED
    BY CallShape, <1>2, <1>3, <1>4, <1>5, <1>6, <1>7

\* The scans of the memory adapter find what a unique group would.
LEMMA MemCreateUsage ==
    ASSUME RowsOK(db), NEW in \in UsageInputs, NEW o \in Mem!createUsage(db, in),
           adapter = "memory", focus = "seats"
    PROVE  Effect(o.db)
  <1> DEFINE r == created(db, "usages", in)
  <1>1. CASE Mem!seatTaken(db, in.license, in.fp, Null)
    BY <1>1, MemRefused DEF Mem!createUsage, UsageInputs
  <1>2. CASE ~Mem!seatTaken(db, in.license, in.fp, Null)
    <2>1. o = Mem!wrote(db, "usages", Mem!created(db, "usages", in))
      BY <1>2 DEF Mem!createUsage
    <2>2. r.license = in.license /\ r.fp = in.fp /\ r.status = "active"
      BY DEF created, UsageInputs
    <2>3. \A q \in db.usages : q.id # Null
      BY NullAssumption DEF RowsOK, TableOK, Tables
    <2>4. \A q \in db.usages : Apart("usages", r, q)
      BY <1>2, <2>2, <2>3 DEF Apart, Mem!seatTaken
    <2> HIDE DEF r
    <2>5. Fits("usages", r)
      BY <2>4 DEF Fits
    <2> QED
      BY <2>1, <2>5, MemInsert DEF r, Inputs, Written
  <1> QED
    BY <1>1, <1>2

LEMMA MemCreateKey ==
    ASSUME RowsOK(db), NEW in \in KeyInputs, NEW o \in Mem!createKey(db, in),
           adapter = "memory", focus = "keys"
    PROVE  Effect(o.db)
  <1> DEFINE r == created(db, "keys", in)
  <1>1. CASE \E e : o = Mem!refused(db, e)
    BY <1>1, MemRefused
  <1>2. CASE ~ \E e : o = Mem!refused(db, e)
    <2>1. /\ o = Mem!wrote(db, "keys", Mem!created(db, "keys", in))
          /\ \A q \in db.keys : q.kid # in.kid
          /\ in.role = "signing" /\ in.state = "active" => ~Mem!signerTaken(db, in.scope, Null)
      BY <1>2 DEF Mem!createKey
    <2>2. r.kid = in.kid /\ r.role = in.role /\ r.state = in.state /\ r.scope = in.scope
      BY DEF created, KeyInputs
    <2>3. \A q \in db.keys : q.id # Null
      BY NullAssumption DEF RowsOK, TableOK, Tables
    <2>4. \A q \in db.keys : Apart("keys", r, q)
      BY <2>1, <2>2, <2>3 DEF Apart, Mem!signerTaken
    <2> HIDE DEF r
    <2>5. Fits("keys", r)
      BY <2>4 DEF Fits
    <2> QED
      BY <2>1, <2>5, MemInsert DEF r, Inputs, Written
  <1> QED
    BY <1>1, <1>2

LEMMA MemRecordTrial ==
    ASSUME NEW in \in TrialInputs, NEW o \in Mem!recordTrialIssuance(db, in),
           adapter = "memory", focus = "trials"
    PROVE  Effect(o.db)
  <1> DEFINE r == created(db, "trials", in)
  <1>1. CASE \E e : o = Mem!refused(db, e)
    BY <1>1, MemRefused
  <1>2. CASE ~ \E e : o = Mem!refused(db, e)
    <2>1. /\ o = Mem!wrote(db, "trials", Mem!created(db, "trials", in))
          /\ \A q \in db.trials : ~(q.template = in.template /\ q.fp = in.fp)
      BY <1>2 DEF Mem!recordTrialIssuance
    <2>2. r.template = in.template /\ r.fp = in.fp
      BY DEF created, TrialInputs
    <2>4. \A q \in db.trials : Apart("trials", r, q)
      BY <2>1, <2>2 DEF Apart
    <2> HIDE DEF r
    <2>5. Fits("trials", r)
      BY <2>4 DEF Fits
    <2> QED
      BY <2>1, <2>5, MemInsert DEF r, Inputs, Written
  <1> QED
    BY <1>1, <1>2

LEMMA MemAppendAudit ==
    ASSUME NEW in \in AuditInputs, NEW o \in Mem!appendAudit(db, in), adapter = "memory", focus = "seats"
    PROVE  Effect(o.db)
  <1>1. Fits("audit", created(db, "audit", in))
    BY DEF Fits, Apart
  <1> QED
    BY <1>1, MemInsert DEF Mem!appendAudit, Inputs, Written

LEMMA MemUpdateUsage ==
    ASSUME RowsOK(db), NEW id, NEW patch \in UsagePatches, NEW o \in Mem!updateUsage(db, id, patch),
           adapter = "memory", focus = "seats"
    PROVE  Effect(o.db)
  <1> DEFINE r == patched(db, "usages", id, patch)
             cur == row(db, "usages", id)
  <1>0. DOMAIN patch = {"status"}
    BY DEF UsagePatches
  <1>1. CASE \E e : o = Mem!refused(db, e)
    BY <1>1, MemRefused
  <1>2. CASE ~ \E e : o = Mem!refused(db, e)
    <2>1. /\ has(db, "usages", id) /\ o = Mem!wrote(db, "usages", Mem!patched(db, "usages", id, patch))
          /\ patch.status = "active" /\ cur.status # "active" => ~Mem!seatTaken(db, cur.license, cur.fp, id)
      BY <1>0, <1>2, OneLookup DEF Mem!updateUsage
    <2>2. cur \in db.usages /\ cur.id = id
      BY <2>1, RowIsThere
    <2>3. r.license = cur.license /\ r.fp = cur.fp /\ r.status = patch.status /\ r.id = id
      <3>1. DOMAIN cur = Columns("usages")
        BY <2>2 DEF RowsOK, TableOK, Tables
      <3> HIDE DEF cur
      <3> QED
        BY <1>0, <2>2, <3>1 DEF patched, Columns, cur
    <2> HIDE DEF r, cur
    <2>4. ASSUME \A a, b \in db.usages : a # b => Apart("usages", a, b), NEW q \in db.usages, q.id # r.id
          PROVE  Apart("usages", r, q)
      BY <2>1, <2>2, <2>3, <2>4 DEF Apart, Mem!seatTaken
    <2>5. Fits("usages", r)
      BY <2>4 DEF Fits
    <2> QED
      BY <1>0, <2>1, <2>5, MemChange DEF r, Patches, Written
  <1> QED
    BY <1>1, <1>2

LEMMA MemUpdateKey ==
    ASSUME RowsOK(db), NEW id, NEW patch \in KeyPatches, NEW o \in Mem!updateKey(db, id, patch),
           adapter = "memory", focus = "keys"
    PROVE  Effect(o.db)
  <1> DEFINE r == patched(db, "keys", id, patch)
             cur == row(db, "keys", id)
  <1>0. DOMAIN patch = {"state"}
    BY DEF KeyPatches
  <1>1. CASE \E e : o = Mem!refused(db, e)
    BY <1>1, MemRefused
  <1>2. CASE ~ \E e : o = Mem!refused(db, e)
    <2>1. /\ has(db, "keys", id) /\ o = Mem!wrote(db, "keys", Mem!patched(db, "keys", id, patch))
          /\ patch.state = "active" /\ cur.state # "active" /\ cur.role = "signing"
             => ~Mem!signerTaken(db, cur.scope, id)
      BY <1>0, <1>2, OneLookup DEF Mem!updateKey
    <2>2. cur \in db.keys /\ cur.id = id
      BY <2>1, RowIsThere
    <2>3. r.kid = cur.kid /\ r.scope = cur.scope /\ r.role = cur.role /\ r.state = patch.state /\ r.id = id
      <3>1. DOMAIN cur = Columns("keys")
        BY <2>2 DEF RowsOK, TableOK, Tables
      <3> HIDE DEF cur
      <3> QED
        BY <1>0, <2>2, <3>1 DEF patched, Columns, cur
    <2> HIDE DEF r, cur
    <2>4. ASSUME \A a, b \in db.keys : a # b => Apart("keys", a, b), NEW q \in db.keys, q.id # r.id
          PROVE  Apart("keys", r, q)
      BY <2>1, <2>2, <2>3, <2>4 DEF Apart, Mem!signerTaken
    <2>5. Fits("keys", r)
      BY <2>4 DEF Fits
    <2> QED
      BY <1>0, <2>1, <2>5, MemChange DEF r, Patches, Written
  <1> QED
    BY <1>1, <1>2

LEMMA MemActivate ==
    ASSUME RowsOK(db), NEW id, NEW patch \in [status : {"active"}], NEW o \in Mem!updateLicense(db, id, patch),
           adapter = "memory", focus = "seats"
    PROVE  Effect(o.db)
  <1> DEFINE r == patched(db, "licenses", id, patch)
             cur == row(db, "licenses", id)
  <1>0. DOMAIN patch = {"status"} /\ patch \in LicensePatches
    BY DEF LicensePatches
  <1>1. CASE \E e : o = Mem!refused(db, e)
    BY <1>1, MemRefused
  <1>2. CASE ~ \E e : o = Mem!refused(db, e)
    <2>1. has(db, "licenses", id) /\ o = Mem!wrote(db, "licenses", Mem!patched(db, "licenses", id, patch))
      BY <1>0, <1>2, OneLookup DEF Mem!updateLicense
    <2>2. cur \in db.licenses /\ cur.id = id
      BY <2>1, RowIsThere
    <2>3. r.key = cur.key /\ r.scope = cur.scope /\ r.who = cur.who /\ r.id = id
      <3>1. DOMAIN cur = Columns("licenses")
        BY <2>2 DEF RowsOK, TableOK, Tables
      <3> HIDE DEF cur
      <3> QED
        BY <1>0, <2>2, <3>1 DEF patched, Columns, cur
    <2> HIDE DEF r, cur
    <2>4. ASSUME \A a, b \in db.licenses : a # b => Apart("licenses", a, b), NEW q \in db.licenses, q.id # r.id
          PROVE  Apart("licenses", r, q)
      BY <2>1, <2>2, <2>3, <2>4 DEF Apart
    <2>5. Fits("licenses", r)
      BY <2>4 DEF Fits
    <2> QED
      BY <1>0, <2>1, <2>5, MemChange DEF r, Patches, Written
  <1> QED
    BY <1>1, <1>2

\* The memory adapter leaves nothing else either.
LEMMA MemEffect ==
    ASSUME RowsOK(db), adapter = "memory", NEW c \in Calls, NEW o \in MemOutcomes(c)
    PROVE  Effect(o.db)
  <1>1. CASE focus \in {"catalogue", "licenses"}
    BY <1>1, MemCatalogue
  <1> USE DEF MemOutcomes
  <1>2. CASE focus = "seats" /\ c.op = "updateLicense" /\ c.arg \in [status : {"active"}]
    BY <1>2, MemActivate
  <1>3. CASE focus = "seats" /\ c.op = "createUsage" /\ c.arg \in UsageInputs
    BY <1>3, MemCreateUsage
  <1>4. CASE focus = "seats" /\ c.op = "updateUsage" /\ c.arg \in UsagePatches
    BY <1>4, MemUpdateUsage
  <1>5. CASE focus = "seats" /\ c.op = "appendAudit" /\ c.arg \in AuditInputs
    BY <1>5, MemAppendAudit
  <1>6. CASE focus = "keys" /\ c.op = "createKey" /\ c.arg \in KeyInputs
    BY <1>6, MemCreateKey
  <1>7. CASE focus = "keys" /\ c.op = "updateKey" /\ c.arg \in KeyPatches
    BY <1>7, MemUpdateKey
  <1>8. CASE focus = "trials" /\ c.op = "recordTrialIssuance" /\ c.arg \in TrialInputs
    BY <1>8, MemRecordTrial
  <1>9. CASE focus = "trials" /\ c.op = "deleteTrialIssuance"
    <2>1. o.db = [db EXCEPT !.trials = {r \in @ : r.id # c.id}]
      BY <1>9 DEF Mem!deleteTrialIssuance
    <2>2. Dropped(o.db)
      BY <2>1 DEF Dropped
    <2> QED
      BY <1>9, <2>2 DEF Effect, Written
  <1> QED
    BY CallShape, <1>1, <1>2, <1>3, <1>4, <1>5, <1>6, <1>7, <1>8, <1>9

\* Whatever the adapter, a step leaves one of these.
LEMMA StepEffect ==
    ASSUME RowsOK(db), Next
    PROVE  Effect(db') /\ adapter' = adapter /\ focus' = focus
  BY MemEffect, LiteEffect, PgEffect DEF Next, OnMemory, OnSqlite, OnPostgres, Take

-----------------------------------------------------------------------------
(* The invariant of the rows, and the agreement of the adapters.             *)

\* A database is a function, and nothing more.
Whole(d) == d = [t \in Tables |-> d[t]]

\* What the rows of the machine look like, whatever was called: a session
\* elsewhere than in the catalogue has the first scope, one in the catalogue
\* has no license and no audit row, and those name no scope but the first.
MachineInv ==
    /\ RowsOK(db) /\ Whole(db)
    /\ focus # "catalogue" => has(db, "scopes", 1)
    /\ focus = "catalogue" => db.licenses = {} /\ db.audit = {}
    /\ db.scopes # {} => has(db, "scopes", 1)
    /\ \A r \in db.licenses \cup db.audit : r.scope \in ScopeRefs

\* A write leaves the other tables alone, and puts one row into its own.
LEMMA WroteRows ==
    ASSUME NEW d, DOMAIN d = Tables, NEW t \in Tables, NEW r, NEW e, e = wrote(d, t, r).db
    PROVE  /\ DOMAIN e = Tables /\ Whole(e)
           /\ e[t] = {q \in d[t] : q.id # r.id} \cup {r}
           /\ \A u \in Tables : u # t => e[u] = d[u]
  BY DEF wrote, Whole

\* Ids only ever appear, but for the trial issuances.
LEMMA WroteKeepsIds ==
    ASSUME NEW d, DOMAIN d = Tables, NEW t \in Tables, NEW r, NEW e, e = wrote(d, t, r).db
    PROVE  /\ \A u \in Tables : \A id : has(d, u, id) => has(e, u, id)
           /\ \A u \in Tables : \A id : has(e, u, id) => has(d, u, id) \/ (u = t /\ id = r.id)
           /\ has(e, t, r.id)
  <1>1. /\ e[t] = {q \in d[t] : q.id # r.id} \cup {r}
        /\ \A u \in Tables : u # t => e[u] = d[u]
    BY WroteRows
  <1> QED
    BY <1>1 DEF has

\* The row a create or an update stores.
LEMMA InsertedRow ==
    ASSUME RowsOK(db), NEW t \in Tables, NEW in \in Inputs(t)
    PROVE  /\ DOMAIN created(db, t, in) = Columns(t)
           /\ created(db, t, in).id = newUuidV7(db, t)
           /\ newUuidV7(db, t) \in Nat \ {0} /\ ~has(db, t, newUuidV7(db, t))
           /\ db[t] = {} => newUuidV7(db, t) = 1
  <1>1. DOMAIN in = Columns(t) \ {"id"} /\ "id" \in Columns(t)
    BY InputColumns DEF Columns, Tables
  <1>2. TableOK(t, db[t])
    BY DEF RowsOK
  <1>3. /\ DOMAIN created(db, t, in) = {"id"} \cup DOMAIN in
        /\ created(db, t, in).id = newUuidV7(db, t)
    BY <1>1, CreatedRow
  <1>4. {"id"} \cup DOMAIN in = Columns(t)
    BY <1>1
  <1>5. /\ newUuidV7(db, t) \in Nat \ {0} /\ ~has(db, t, newUuidV7(db, t))
        /\ db[t] = {} => newUuidV7(db, t) = 1
    BY <1>2, FreshId
  <1> QED
    BY <1>3, <1>4, <1>5

LEMMA ChangedRow ==
    ASSUME RowsOK(db), NEW t \in Tables, NEW id, has(db, t, id), NEW patch \in Patches(t)
    PROVE  /\ DOMAIN patched(db, t, id, patch) = Columns(t)
           /\ patched(db, t, id, patch).id = id /\ id \in Nat \ {0}
           /\ DOMAIN row(db, t, id) = Columns(t)
           /\ row(db, t, id) \in db[t] /\ row(db, t, id).id = id
  <1>1. DOMAIN patch \subseteq Columns(t) \ {"id"}
    BY PatchColumns
  <1>2. /\ patched(db, t, id, patch).id = id /\ id \in Nat \ {0}
        /\ DOMAIN row(db, t, id) = Columns(t)
    BY <1>1, PatchedId
  <1>3. DOMAIN patched(db, t, id, patch) = Columns(t)
    BY <1>1, <1>2 DEF patched
  <1> QED
    BY <1>2, <1>3, RowIsThere

\* Scopes of licenses and of audit rows.
LEMMA InputScope ==
    /\ \A in \in LicenseInputs \cup AuditInputs : in.scope \in ScopeRefs /\ "scope" \in DOMAIN in
    /\ \A p \in LicensePatches : "scope" \in DOMAIN p => p.scope \in ScopeRefs
  <1>1. \A in \in LicenseInputs : in.scope \in ScopeRefs /\ "scope" \in DOMAIN in
    BY DEF LicenseInputs
  <1>2. \A in \in AuditInputs : in.scope \in ScopeRefs /\ "scope" \in DOMAIN in
    BY DEF AuditInputs
  <1>3. \A p \in LicensePatches : "scope" \in DOMAIN p => p.scope \in ScopeRefs
    <2> TAKE p \in LicensePatches
    <2>1. CASE p \in [scope : ScopeRefs]
      BY <2>1
    <2>2. CASE p \notin [scope : ScopeRefs]
      <3>1. CASE p \in [status : {"active", "revoked"}]
        BY <3>1
      <3>2. CASE p \in [key : Keys]
        BY <3>2
      <3>3. CASE p \in [ordered : {FALSE}]
        BY <3>3
      <3> QED
        BY <2>2, <3>1, <3>2, <3>3, Zenon DEF LicensePatches
    <2> QED
      BY <2>1, <2>2
  <1> QED
    BY <1>1, <1>2, <1>3

\* Each effect of a call keeps the invariant.
LEMMA InsertKeeps ==
    ASSUME MachineInv, NEW t \in Written, Inserted(t, db'), focus' = focus
    PROVE  MachineInv'
  <1> DEFINE r(in) == created(db, t, in)
  <1>1. PICK in \in Inputs(t) : db' = wrote(db, t, created(db, t, in)).db
    BY DEF Inserted
  <1>2. t \in Tables
    BY DEF Written, Tables
  <1>3. /\ DOMAIN r(in) = Columns(t) /\ r(in).id \in Nat \ {0}
        /\ db[t] = {} => r(in).id = 1
    BY <1>2, InsertedRow DEF MachineInv
  <1>4. RowsOK(db')
    BY <1>1, <1>2, <1>3, WroteOK DEF MachineInv
  <1>5. DOMAIN db = Tables
    BY DEF MachineInv, RowsOK
  <1>11. Whole(db')
    BY <1>1, <1>2, <1>5, WroteRows
  <1>6. r(in).scope \in ScopeRefs \/ t \notin {"licenses", "audit"}
    <2>1. CASE t \in {"licenses", "audit"}
      <3>1. in.scope \in ScopeRefs /\ "scope" \in DOMAIN in
        BY <2>1, InputScope DEF Inputs
      <3> QED
        BY <3>1 DEF created
    <2> QED
      BY <2>1
  <1> HIDE DEF r
  <1>7. /\ db'[t] = {q \in db[t] : q.id # r(in).id} \cup {r(in)}
        /\ \A u \in Tables : u # t => db'[u] = db[u]
        /\ \A u \in Tables : \A id : has(db, u, id) => has(db', u, id)
        /\ has(db', t, r(in).id)
    BY <1>1, <1>2, <1>5, WroteRows, WroteKeepsIds DEF r
  <1>8. \A x \in db'.licenses \cup db'.audit : x.scope \in ScopeRefs
    BY <1>6, <1>7 DEF MachineInv, Tables
  <1>9. /\ focus # "catalogue" => has(db', "scopes", 1)
        /\ focus = "catalogue" => db'.licenses = {} /\ db'.audit = {}
    BY <1>7 DEF MachineInv, Tables, Written
  <1>10. db'.scopes # {} => has(db', "scopes", 1)
    BY <1>3, <1>7 DEF MachineInv, Tables
  <1> QED
    BY <1>4, <1>8, <1>9, <1>10, <1>11 DEF MachineInv, has, Whole

LEMMA ChangeKeeps ==
    ASSUME MachineInv, NEW t \in Written, Changed(t, db'), focus' = focus
    PROVE  MachineInv'
  <1>1. PICK id, patch : /\ has(db, t, id) /\ patch \in Patches(t)
                         /\ db' = wrote(db, t, patched(db, t, id, patch)).db
    BY DEF Changed
  <1> DEFINE r == patched(db, t, id, patch)
  <1>2. t \in Tables
    BY DEF Written, Tables
  <1>3. /\ DOMAIN r = Columns(t) /\ r.id \in Nat \ {0} /\ r.id = id
        /\ DOMAIN row(db, t, id) = Columns(t) /\ row(db, t, id) \in db[t]
    BY <1>1, <1>2, ChangedRow DEF MachineInv
  <1>4. RowsOK(db')
    BY <1>1, <1>2, <1>3, WroteOK DEF MachineInv
  <1>5. DOMAIN db = Tables
    BY DEF MachineInv, RowsOK
  <1>11. Whole(db')
    BY <1>1, <1>2, <1>5, WroteRows
  <1>6. t \in {"licenses", "audit"} => r.scope \in ScopeRefs
    <2>1. CASE t = "licenses"
      <3>1. row(db, t, id).scope \in ScopeRefs
        BY <1>3, <2>1 DEF MachineInv
      <3>2. "scope" \in DOMAIN row(db, t, id)
        BY <1>3, <2>1 DEF Columns
      <3>3. "scope" \in DOMAIN patch => patch.scope \in ScopeRefs
        BY <1>1, <2>1, InputScope DEF Patches
      <3> QED
        BY <3>1, <3>2, <3>3 DEF patched
    <2>2. t # "audit"
      BY <1>1 DEF Patches
    <2> QED
      BY <2>1, <2>2
  <1> HIDE DEF r
  <1>7. /\ db'[t] = {q \in db[t] : q.id # r.id} \cup {r}
        /\ \A u \in Tables : u # t => db'[u] = db[u]
        /\ \A u \in Tables : \A i : has(db, u, i) => has(db', u, i)
    BY <1>1, <1>2, <1>5, WroteRows, WroteKeepsIds DEF r
  <1>8. \A x \in db'.licenses \cup db'.audit : x.scope \in ScopeRefs
    BY <1>6, <1>7 DEF MachineInv, Tables
  <1>9. /\ focus # "catalogue" => has(db', "scopes", 1)
        /\ focus = "catalogue" => db'.licenses = {} /\ db'.audit = {}
    BY <1>7 DEF MachineInv, Tables, Written
  <1>10. db'.scopes # {} => has(db', "scopes", 1)
    BY <1>1, <1>7 DEF MachineInv, Tables, has
  <1> QED
    BY <1>4, <1>8, <1>9, <1>10, <1>11 DEF MachineInv, has, Whole

LEMMA DropKeeps ==
    ASSUME MachineInv, Dropped(db'), focus' = focus
    PROVE  MachineInv'
  <1>1. PICK id : db' = [db EXCEPT !.trials = {r \in @ : r.id # id}]
    BY DEF Dropped
  <1>2. DOMAIN db = Tables /\ TableOK("trials", db.trials)
    BY DEF MachineInv, RowsOK, Tables
  <1> DEFINE rest == {r \in db.trials : r.id # id}
  <1>3. TableOK("trials", rest)
    BY <1>2, FS_Subset DEF TableOK
  <1>4. db'.trials = rest /\ DOMAIN db' = Tables /\ \A u \in Tables : u # "trials" => db'[u] = db[u]
    BY <1>1, <1>2 DEF Tables
  <1> HIDE DEF rest
  <1>5. RowsOK(db')
    BY <1>3, <1>4 DEF MachineInv, RowsOK
  <1>6. db'.scopes = db.scopes /\ db'.licenses = db.licenses /\ db'.audit = db.audit
    BY <1>4 DEF Tables
  <1>7. Whole(db')
    BY <1>1, <1>2 DEF Whole
  <1> QED
    BY <1>5, <1>6, <1>7 DEF MachineInv, has, Whole

\* The rows a session starts with.
LEMMA SeedRows ==
    /\ DOMAIN seed = Tables
    /\ seed.scopes = {[id |-> 1, slug |-> "seed", name |-> "a"]}
    /\ seed.templates = {[id |-> 1, scope |-> Null, parent |-> Null, name |-> "seed"]}
    /\ seed.licenses = {[id |-> 1, scope |-> 1, template |-> Null, who |-> "seed", key |-> "seed",
                         status |-> "pending", ordered |-> TRUE, exp |-> "soon", max |-> 2]}
    /\ seed.usages = {} /\ seed.keys = {} /\ seed.audit = {} /\ seed.trials = {}
    /\ DOMAIN emptyState = Tables /\ \A t \in Tables : emptyState[t] = {}
    /\ Whole(seed) /\ Whole(emptyState)
  <1>1. DOMAIN emptyState = Tables /\ Whole(emptyState) /\ \A t \in Tables : emptyState[t] = {}
    BY DEF emptyState, Whole
  <1>2. DOMAIN seed = Tables /\ Whole(seed)
    BY DEF seed, emptyState, Whole
  <1> QED
    BY <1>1, <1>2 DEF seed, emptyState, Tables

LEMMA SeedRowsOK == RowsOK(seed) /\ RowsOK(emptyState)
  <1>1. \A t : TableOK(t, {})
    BY FS_EmptySet DEF TableOK
  <1>2. ASSUME NEW t, NEW r, DOMAIN r = Columns(t), r.id = 1 PROVE TableOK(t, {r})
    <2>1. IsFiniteSet({r})
      BY FS_Singleton
    <2> QED
      BY <1>2, <2>1 DEF TableOK
  <1>3. TableOK("scopes", seed.scopes)
    <2> DEFINE r == [id |-> 1, slug |-> "seed", name |-> "a"]
    <2>1. DOMAIN r = Columns("scopes") /\ r.id = 1
      BY DEF Columns
    <2>2. seed.scopes = {r}
      BY SeedRows
    <2> HIDE DEF r
    <2>3. TableOK("scopes", {r})
      BY <1>2, <2>1
    <2> QED
      BY <2>2, <2>3
  <1>4. TableOK("templates", seed.templates)
    <2> DEFINE r == [id |-> 1, scope |-> Null, parent |-> Null, name |-> "seed"]
    <2>1. DOMAIN r = Columns("templates") /\ r.id = 1
      BY DEF Columns
    <2>2. seed.templates = {r}
      BY SeedRows
    <2> HIDE DEF r
    <2>3. TableOK("templates", {r})
      BY <1>2, <2>1
    <2> QED
      BY <2>2, <2>3
  <1>5. TableOK("licenses", seed.licenses)
    <2> DEFINE r == [id |-> 1, scope |-> 1, template |-> Null, who |-> "seed", key |-> "seed",
                     status |-> "pending", ordered |-> TRUE, exp |-> "soon", max |-> 2]
    <2>1. DOMAIN r = Columns("licenses") /\ r.id = 1
      BY DEF Columns
    <2>2. seed.licenses = {r}
      BY SeedRows
    <2> HIDE DEF r
    <2>3. TableOK("licenses", {r})
      BY <1>2, <2>1
    <2> QED
      BY <2>2, <2>3
  <1>6. RowsOK(seed)
    BY <1>1, <1>3, <1>4, <1>5, SeedRows DEF RowsOK, Tables
  <1> QED
    BY <1>1, <1>6, SeedRows DEF RowsOK

LEMMA MachineStart == Init => MachineInv
  <1> SUFFICES ASSUME Init PROVE MachineInv
    OBVIOUS
  <1>1. CASE focus = "catalogue"
    BY <1>1, SeedRows, SeedRowsOK DEF Init, MachineInv, Tables
  <1>2. CASE focus # "catalogue"
    <2>1. db = seed
      BY <1>2 DEF Init
    <2>2. has(seed, "scopes", 1)
      <3> DEFINE r == [id |-> 1, slug |-> "seed", name |-> "a"]
      <3>1. r \in seed.scopes /\ r.id = 1
        BY SeedRows
      <3> HIDE DEF r
      <3> QED
        BY <3>1 DEF has
    <2>3. \A r \in seed.licenses : r.scope = 1
      BY SeedRows
    <2>4. seed.audit = {}
      BY SeedRows
    <2>5. Whole(seed)
      BY SeedRows
    <2> QED
      BY <1>2, <2>1, <2>2, <2>3, <2>4, <2>5, SeedRowsOK, Zenon DEF MachineInv, ScopeRefs
  <1> QED
    BY <1>1, <1>2

LEMMA MachineStep == MachineInv /\ [SessionNext]_sessionVars => MachineInv'
  <1> SUFFICES ASSUME MachineInv, [SessionNext]_sessionVars PROVE MachineInv'
    OBVIOUS
  <1>1. CASE Next
    <2>1. Effect(db') /\ focus' = focus
      BY <1>1, StepEffect DEF MachineInv
    <2>2. CASE db' = db
      BY <2>1, <2>2 DEF MachineInv, has, Whole
    <2> QED
      BY <2>1, <2>2, InsertKeeps, ChangeKeeps, DropKeeps DEF Effect
  <1>2. CASE UNCHANGED <<db, focus>>
    BY <1>2 DEF MachineInv, has, Whole
  <1> QED
    BY <1>1, <1>2 DEF SessionNext, Pages, Transactions, sessionVars, vars

LEMMA MachineKept == SessionSpec => []MachineInv
  <1>1. SessionInit => MachineInv
    BY MachineStart DEF SessionInit
  <1> QED
    BY <1>1, MachineStep, PTL DEF SessionSpec

LEMMA AgreeHere ==
    ASSUME MachineInv, {} \notin StatusLists
    PROVE  AdaptersAgree
  <1>1. RowsOK(db) /\ ScopesOK(db)
    <2>1. ASSUME NEW r \in db.licenses \cup db.audit PROVE r.scope = Null \/ has(db, "scopes", r.scope)
      BY DEF MachineInv, ScopeRefs
    <2> QED
      BY <2>1 DEF MachineInv, ScopesOK
  <1> QED
    BY <1>1, SqlAnswersAlike, MemoryMirrors, ListsAlike, StatsAddUp DEF AdaptersAgree

\* One contract, three adapters: in every session, on every state it reaches,
\* the memory, SQLite and Postgres adapters answer every write, list, lookup
\* and statistic alike, all but the licenses that expire soon (AdaptersAgree).
\* A caller that filters by status names at least one: an empty list means
\* "none" to `includes` and "any" to the SQL.
THEOREM AdaptersAlwaysAgree ==
    ASSUME {} \notin StatusLists
    PROVE  SessionSpec => []AdaptersAgree
  <1>1. MachineInv => AdaptersAgree
    BY AgreeHere
  <1> QED
    BY <1>1, MachineKept, PTL

-----------------------------------------------------------------------------
(* Template parents.  The chain `ancestor` follows, by induction.            *)

\* Induction, as a statement about sets.
LEMMA SetInduction ==
    ASSUME NEW T, T \subseteq Nat, 0 \in T, \A n \in T : n + 1 \in T
    PROVE  T = Nat
  <1> SUFFICES ASSUME Nat \ T # {} PROVE FALSE
    OBVIOUS
  <1>1. PICK n \in Nat \ T : \A m \in Nat \ T : n <= m
    BY LeastNatural
  <1>2. n # 0 /\ n - 1 \in Nat
    BY <1>1
  <1>3. n - 1 \in T
    BY <1>1, <1>2
  <1> QED
    BY <1>1, <1>2, <1>3

\* One link of the parent chain.
up(d, x) == IF has(d, "templates", x) THEN row(d, "templates", x).parent ELSE Null

\* The chain of the first n links, as the recursive function of `ancestor`.
Chain(d, s, n, h) == h = [k \in 0..n |-> IF k = 0 THEN s ELSE up(d, h[k - 1])]

LEMMA ChainUnfolds ==
    ASSUME NEW d, NEW s, NEW n \in Nat, NEW h, Chain(d, s, n, h)
    PROVE  h[0] = s /\ \A k \in Nat : k < n => h[k + 1] = up(d, h[k])
  <1>1. \A k \in 0..n : h[k] = IF k = 0 THEN s ELSE up(d, h[k - 1])
    BY DEF Chain
  <1>2. ASSUME NEW k \in Nat, k < n PROVE h[k + 1] = up(d, h[k])
    <2>1. k + 1 \in 0..n /\ k + 1 # 0 /\ (k + 1) - 1 = k
      BY <1>2
    <2> QED
      BY <1>1, <2>1
  <1> QED
    BY <1>1, <1>2

LEMMA ChainExtends ==
    ASSUME NEW d, NEW s, NEW n \in Nat, NEW h, Chain(d, s, n, h)
    PROVE  \E g : Chain(d, s, n + 1, g)
  <1> DEFINE g == [k \in 0..(n + 1) |-> IF k = n + 1 THEN up(d, h[n]) ELSE h[k]]
  <1>1. \A k \in 0..n : h[k] = IF k = 0 THEN s ELSE up(d, h[k - 1])
    BY DEF Chain
  <1>2. \A k \in 0..(n + 1) : g[k] = IF k = 0 THEN s ELSE up(d, g[k - 1])
    BY <1>1
  <1>3. Chain(d, s, n + 1, g)
    BY <1>2 DEF Chain
  <1> QED
    BY <1>3

\* The recursive function exists for every length, and lengths agree.
LEMMA ChainExists ==
    ASSUME NEW d, NEW s
    PROVE  \A n \in Nat : \E h : Chain(d, s, n, h)
  <1> DEFINE T == {n \in Nat : \E h : Chain(d, s, n, h)}
  <1>1. 0 \in T
    <2> DEFINE h == [k \in 0..0 |-> s]
    <2>1. Chain(d, s, 0, h)
      BY DEF Chain
    <2> QED
      BY <2>1
  <1>2. ASSUME NEW n \in T PROVE n + 1 \in T
    BY ChainExtends
  <1> HIDE DEF T
  <1>3. T = Nat
    BY <1>1, <1>2, SetInduction DEF T
  <1> QED
    BY <1>3 DEF T

LEMMA AncestorChain ==
    ASSUME NEW d, NEW s, NEW n \in Nat
    PROVE  \E h : Chain(d, s, n, h) /\ ancestor(d, s, n) = h[n]
  <1> DEFINE hop == CHOOSE h : Chain(d, s, n, h)
  <1>1. ancestor(d, s, n) = hop[n]
    BY DEF ancestor, Chain, up
  <1>2. Chain(d, s, n, hop)
    BY ChainExists
  <1> QED
    BY <1>1, <1>2

LEMMA ChainsAgree ==
    ASSUME NEW d, NEW s, NEW m \in Nat, NEW n \in Nat, m <= n, NEW g, NEW h,
           Chain(d, s, m, g), Chain(d, s, n, h)
    PROVE  g[m] = h[m]
  <1> DEFINE T == {k \in Nat : k <= m => g[k] = h[k]}
  <1>0. g[0] = s /\ \A k \in Nat : k < m => g[k + 1] = up(d, g[k])
    BY ChainUnfolds
  <1>1. h[0] = s /\ \A k \in Nat : k < n => h[k + 1] = up(d, h[k])
    BY ChainUnfolds
  <1>2. 0 \in T
    BY <1>0, <1>1
  <1>3. ASSUME NEW k \in T PROVE k + 1 \in T
    <2>1. k + 1 <= m => g[k + 1] = up(d, g[k]) /\ h[k + 1] = up(d, h[k]) /\ g[k] = h[k]
      BY <1>0, <1>1
    <2> QED
      BY <2>1
  <1> HIDE DEF T
  <1>4. T = Nat
    BY <1>2, <1>3, SetInduction DEF T
  <1> QED
    BY <1>4 DEF T

\* The ancestor one further up, and the ancestors of an ancestor.
LEMMA AncestorStep ==
    ASSUME NEW d, NEW s, NEW n \in Nat
    PROVE  ancestor(d, s, n + 1) = up(d, ancestor(d, s, n))
  <1> DEFINE m == n + 1
  <1>0. m \in Nat /\ n < m /\ n <= m
    OBVIOUS
  <1> HIDE DEF m
  <1>1. PICK h : Chain(d, s, m, h) /\ ancestor(d, s, m) = h[m]
    BY <1>0, AncestorChain
  <1>2. PICK g : Chain(d, s, n, g) /\ ancestor(d, s, n) = g[n]
    BY AncestorChain
  <1>3. g[n] = h[n]
    BY <1>0, <1>1, <1>2, ChainsAgree
  <1>4. h[n + 1] = up(d, h[n])
    BY <1>0, <1>1, ChainUnfolds
  <1> QED
    BY <1>1, <1>2, <1>3, <1>4 DEF m

LEMMA AncestorAdds ==
    ASSUME NEW d, NEW s, NEW m \in Nat, NEW n \in Nat
    PROVE  ancestor(d, s, m + n) = ancestor(d, ancestor(d, s, m), n)
  <1> DEFINE x == ancestor(d, s, m)
             T == {k \in Nat : ancestor(d, s, m + k) = ancestor(d, x, k)}
  <1>1. 0 \in T
    BY AncestorZero
  <1>2. ASSUME NEW k \in T PROVE k + 1 \in T
    <2>1. ancestor(d, x, k + 1) = up(d, ancestor(d, x, k))
      BY AncestorStep
    <2>2. ancestor(d, s, (m + k) + 1) = up(d, ancestor(d, s, m + k))
      BY AncestorStep
    <2>3. m + (k + 1) = (m + k) + 1
      OBVIOUS
    <2> HIDE DEF x
    <2> QED
      BY <2>1, <2>2, <2>3
  <1> HIDE DEF T
  <1>3. T = Nat
    BY <1>1, <1>2, SetInduction DEF T
  <1> QED
    BY <1>3 DEF T

\* Where two databases give the same parents, they give the same ancestors.
LEMMA SameChain ==
    ASSUME NEW d, NEW e, NEW s, NEW n \in Nat,
           \A k \in Nat : k < n => up(d, ancestor(d, s, k)) = up(e, ancestor(d, s, k))
    PROVE  ancestor(e, s, n) = ancestor(d, s, n)
  <1> DEFINE T == {k \in Nat : k <= n => ancestor(e, s, k) = ancestor(d, s, k)}
  <1>1. 0 \in T
    BY AncestorZero
  <1>2. ASSUME NEW k \in T PROVE k + 1 \in T
    <2>1. /\ ancestor(d, s, k + 1) = up(d, ancestor(d, s, k))
          /\ ancestor(e, s, k + 1) = up(e, ancestor(e, s, k))
      BY AncestorStep
    <2> QED
      BY <2>1
  <1> HIDE DEF T
  <1>3. T = Nat
    BY <1>1, <1>2, SetInduction DEF T
  <1> QED
    BY <1>3 DEF T

-----------------------------------------------------------------------------
\* No template is its own ancestor.
Acyclic(d) == \A r \in d.templates : \A n \in Nat \ {0} : ancestor(d, r.id, n) # r.id

\* Every parent named is there.
ParentsThere(d) == \A r \in d.templates : r.parent = Null \/ has(d, "templates", r.parent)

\* A chain that is not over has passed templates that exist.
LEMMA PassedTemplates ==
    ASSUME NEW d, RowsOK(d), NEW s, NEW n \in Nat, has(d, "templates", ancestor(d, s, n))
    PROVE  \A k \in 0..n : has(d, "templates", ancestor(d, s, k))
  <1> DEFINE T == {k \in Nat : k <= n => has(d, "templates", ancestor(d, s, n - k))}
  <1>0. ~has(d, "templates", Null)
    BY NullAssumption DEF has, RowsOK, TableOK, Tables
  <1>1. 0 \in T
    OBVIOUS
  <1>2. ASSUME NEW k \in T PROVE k + 1 \in T
    <2> SUFFICES ASSUME k + 1 <= n PROVE has(d, "templates", ancestor(d, s, n - (k + 1)))
      OBVIOUS
    <2> DEFINE j == n - (k + 1)
    <2>1. j \in Nat /\ j + 1 = n - k
      OBVIOUS
    <2>2. has(d, "templates", ancestor(d, s, j + 1))
      BY <2>1
    <2> HIDE DEF j
    <2>3. ancestor(d, s, j + 1) = up(d, ancestor(d, s, j))
      BY <2>1, AncestorStep
    <2>4. has(d, "templates", ancestor(d, s, j))
      BY <1>0, <2>2, <2>3 DEF up
    <2> QED
      BY <2>4 DEF j
  <1> HIDE DEF T
  <1>3. T = Nat
    BY <1>1, <1>2, SetInduction DEF T
  <1>4. ASSUME NEW k \in 0..n PROVE has(d, "templates", ancestor(d, s, k))
    <2>1. n - k \in T /\ n - k \in Nat /\ n - k <= n /\ n - (n - k) = k
      BY <1>3
    <2> QED
      BY <2>1 DEF T
  <1> QED
    BY <1>4

\* A chain without a cycle is no longer than there are templates.
LEMMA ChainIsShort ==
    ASSUME NEW d, RowsOK(d), Acyclic(d), NEW s, NEW n \in Nat, has(d, "templates", ancestor(d, s, n))
    PROVE  n + 1 <= Cardinality(d.templates)
  <1> DEFINE c == Cardinality(d.templates)
             f == [k \in 0..n |-> CHOOSE r \in d.templates : r.id = ancestor(d, s, k)]
  <1>1. IsFiniteSet(d.templates) /\ c \in Nat
    BY FS_CardinalityType DEF RowsOK, TableOK, Tables
  <1>2. \A k \in 0..n : has(d, "templates", ancestor(d, s, k))
    BY PassedTemplates
  <1>3. \A k \in 0..n : f[k] \in d.templates /\ f[k].id = ancestor(d, s, k)
    BY <1>2 DEF has
  <1>4. f \in [0..n -> d.templates]
    BY <1>3
  <1>5. IsFiniteSet(0..n) /\ Cardinality(0..n) = n + 1
    BY FS_Interval
  <1> HIDE DEF f, c
  <1> SUFFICES ASSUME ~(n + 1 <= c) PROVE FALSE
    BY DEF c
  <1>6. c < n + 1
    BY <1>1
  <1>7. PICK x, y \in 0..n : x # y /\ f[x] = f[y]
    BY <1>1, <1>4, <1>5, <1>6, FS_PigeonHole DEF c
  <1>8. PICK i, j \in 0..n : i < j /\ f[i] = f[j]
    BY <1>7
  <1>9. j - i \in Nat \ {0} /\ i + (j - i) = j
    BY <1>8
  <1>10. ancestor(d, s, j) = ancestor(d, ancestor(d, s, i), j - i)
    BY <1>9, AncestorAdds
  <1>11. ancestor(d, f[i].id, j - i) = f[i].id
    BY <1>3, <1>8, <1>10
  <1> QED
    BY <1>3, <1>9, <1>11 DEF Acyclic

LEMMA NullIsNoTemplate ==
    ASSUME NEW d, RowsOK(d)
    PROVE  ~has(d, "templates", Null)
  BY NullAssumption DEF has, RowsOK, TableOK, Tables

LEMMA UpIsParent ==
    ASSUME NEW d, RowsOK(d), NEW r \in d.templates
    PROVE  up(d, r.id) = r.parent
  <1>1. has(d, "templates", r.id)
    BY DEF has
  <1>2. row(d, "templates", r.id) \in d.templates /\ row(d, "templates", r.id).id = r.id
    BY <1>1, RowIsThere
  <1>3. row(d, "templates", r.id) = r
    BY <1>2 DEF RowsOK, TableOK, Tables
  <1> QED
    BY <1>1, <1>3 DEF up

\* A write to the templates changes the parent of the row it writes only.
LEMMA UpAfter ==
    ASSUME NEW d, RowsOK(d), NEW r, DOMAIN r = Columns("templates"), r.id \in Nat \ {0},
           NEW e, e = wrote(d, "templates", r).db
    PROVE  /\ RowsOK(e) /\ r \in e.templates /\ up(e, r.id) = r.parent
           /\ \A x : x # r.id => up(e, x) = up(d, x)
           /\ \A q \in e.templates : q = r \/ (q \in d.templates /\ q.id # r.id)
           /\ \A q \in d.templates : q.id = r.id \/ q \in e.templates
  <1>1. RowsOK(e)
    BY WroteOK DEF Tables
  <1>2. e.templates = {q \in d.templates : q.id # r.id} \cup {r}
    BY WroteRows DEF RowsOK, Tables
  <1>3. up(e, r.id) = r.parent
    BY <1>1, <1>2, UpIsParent
  <1>4. ASSUME NEW x, x # r.id PROVE up(e, x) = up(d, x)
    <2>1. CASE has(d, "templates", x)
      <3>1. PICK q \in d.templates : q.id = x
        BY <2>1 DEF has
      <3>2. q \in e.templates
        BY <1>2, <1>4, <3>1
      <3>3. up(d, q.id) = q.parent /\ up(e, q.id) = q.parent
        BY <1>1, <3>1, <3>2, UpIsParent
      <3> QED
        BY <3>1, <3>3
    <2>2. CASE ~has(d, "templates", x)
      <3>1. ~has(e, "templates", x)
        BY <1>2, <1>4, <2>2 DEF has
      <3> QED
        BY <2>2, <3>1 DEF up
    <2> QED
      BY <2>1, <2>2
  <1> QED
    BY <1>1, <1>2, <1>3, <1>4

\* A new template closes no cycle: nothing names it as its parent.
LEMMA NewTemplateAcyclic ==
    ASSUME NEW d, RowsOK(d), Acyclic(d), ParentsThere(d),
           NEW r, DOMAIN r = Columns("templates"), r.id \in Nat \ {0}, ~has(d, "templates", r.id),
           r.parent = Null \/ has(d, "templates", r.parent),
           NEW e, e = wrote(d, "templates", r).db
    PROVE  Acyclic(e)
  <1>1. /\ up(e, r.id) = r.parent /\ \A x : x # r.id => up(e, x) = up(d, x)
        /\ \A q \in e.templates : q = r \/ (q \in d.templates /\ q.id # r.id)
    BY UpAfter
  <1>2. \A x : up(d, x) = Null \/ has(d, "templates", up(d, x))
    BY RowIsThere DEF up, ParentsThere
  <1>3. \A x : up(e, x) # r.id
    BY <1>1, <1>2, NullAssumption
  <1> SUFFICES ASSUME NEW q \in e.templates, NEW n \in Nat \ {0}, ancestor(e, q.id, n) = q.id PROVE FALSE
    BY DEF Acyclic
  <1> DEFINE s == q.id
  <1>4. \A k \in Nat : ancestor(e, s, k + 1) # r.id
    BY <1>3, AncestorStep
  <1>5. s # r.id
    <2>1. n - 1 \in Nat /\ (n - 1) + 1 = n
      OBVIOUS
    <2> QED
      BY <1>4, <2>1
  <1>6. \A k \in Nat : ancestor(e, s, k) # r.id
    <2> TAKE k \in Nat
    <2>1. CASE k = 0
      BY <1>5, <2>1, AncestorZero
    <2>2. CASE k # 0
      <3>1. k - 1 \in Nat /\ (k - 1) + 1 = k
        BY <2>2
      <3> QED
        BY <1>4, <3>1
    <2> QED
      BY <2>1, <2>2
  <1>7. \A k \in Nat : up(e, ancestor(e, s, k)) = up(d, ancestor(e, s, k))
    BY <1>1, <1>6
  <1>8. ancestor(d, s, n) = ancestor(e, s, n)
    BY <1>7, SameChain
  <1>9. q \in d.templates
    BY <1>1, <1>5
  <1> QED
    BY <1>8, <1>9 DEF Acyclic

\* A template that keeps its parent, or moves to one that is not below it,
\* closes no cycle either.
LEMMA ChangedTemplateAcyclic ==
    ASSUME NEW d, RowsOK(d), Acyclic(d), NEW r, DOMAIN r = Columns("templates"),
           has(d, "templates", r.id), r.id \in Nat \ {0},
           r.parent = row(d, "templates", r.id).parent \/ \A n \in Nat : ancestor(d, r.parent, n) # r.id,
           NEW e, e = wrote(d, "templates", r).db
    PROVE  Acyclic(e)
  <1> DEFINE id == r.id
             p == r.parent
  <1>1. /\ up(e, id) = p /\ \A x : x # id => up(e, x) = up(d, x)
        /\ \A q \in e.templates : q = r \/ (q \in d.templates /\ q.id # r.id)
    BY UpAfter
  <1>2. PICK old \in d.templates : old.id = id /\ old = row(d, "templates", id)
    BY RowIsThere
  <1>3. \A q \in e.templates : \E o \in d.templates : o.id = q.id
    BY <1>1, <1>2
  <1> SUFFICES ASSUME NEW q \in e.templates, NEW n \in Nat \ {0}, ancestor(e, q.id, n) = q.id PROVE FALSE
    BY DEF Acyclic
  <1> DEFINE s == q.id
  <1>4. CASE \A k \in Nat : k < n => up(e, ancestor(e, s, k)) = up(d, ancestor(e, s, k))
    <2>1. ancestor(d, s, n) = ancestor(e, s, n)
      BY <1>4, SameChain
    <2> QED
      BY <1>3, <2>1 DEF Acyclic
  <1>5. CASE \E k \in Nat : k < n /\ up(e, ancestor(e, s, k)) # up(d, ancestor(e, s, k))
    <2>1. PICK k \in Nat : k < n /\ up(e, ancestor(e, s, k)) # up(d, ancestor(e, s, k))
      BY <1>5
    <2>2. ancestor(e, s, k) = id
      BY <1>1, <2>1
    <2>3. p # old.parent
      BY <1>1, <1>2, <2>1, <2>2, UpIsParent
    <2>4. \A m \in Nat : ancestor(d, p, m) # id
      BY <1>2, <2>3
    <2>5. ancestor(e, id, n) = id
      <3>1. ancestor(e, s, k + n) = ancestor(e, id, n)
        BY <2>2, AncestorAdds
      <3>2. ancestor(e, s, n + k) = ancestor(e, s, k)
        BY AncestorAdds
      <3>3. k + n = n + k
        OBVIOUS
      <3> QED
        BY <2>2, <3>1, <3>2, <3>3
    <2> DEFINE L == {m \in Nat \ {0} : ancestor(e, id, m) = id}
    <2>6. PICK m \in L : \A i \in L : m <= i
      BY <2>5, LeastNatural, L \subseteq Nat, n \in L
    <2> HIDE DEF id, p, s
    <2>7. ancestor(e, id, 1) = p
      <3>1. ancestor(e, id, 0 + 1) = up(e, ancestor(e, id, 0))
        BY AncestorStep
      <3> QED
        BY <1>1, <3>1, AncestorZero
    <2>8. \A i \in Nat : ancestor(e, p, i) = ancestor(e, id, 1 + i)
      BY <2>7, AncestorAdds
    <2>9. m - 1 \in Nat /\ 1 + (m - 1) = m /\ ancestor(e, id, m) = id
      BY <2>6
    <2>10. ancestor(e, p, m - 1) = id
      BY <2>8, <2>9
    <2>11. ASSUME NEW i \in Nat, i < m - 1 PROVE up(e, ancestor(e, p, i)) = up(d, ancestor(e, p, i))
      <3>1. 1 + i \in Nat \ {0} /\ ~(m <= 1 + i)
        BY <2>6, <2>11
      <3>2. ancestor(e, p, i) # id
        BY <2>6, <2>8, <3>1
      <3> QED
        BY <1>1, <3>2
    <2> DEFINE j == m - 1
    <2>12. j \in Nat /\ ancestor(e, p, j) = id
           /\ \A i \in Nat : i < j => up(e, ancestor(e, p, i)) = up(d, ancestor(e, p, i))
      BY <2>9, <2>10, <2>11
    <2> HIDE DEF j
    <2>13. ancestor(d, p, j) = ancestor(e, p, j)
      BY <2>12, SameChain
    <2> QED
      BY <2>4, <2>12, <2>13
  <1> QED
    BY <1>4, <1>5

\* The walk sees the whole chain of a forest that has at most WalkCap rows.
LEMMA WalkSees ==
    ASSUME NEW d, RowsOK(d), Acyclic(d), Cardinality(d.templates) <= WalkCap,
           NEW id, has(d, "templates", id), NEW p,
           p # Null => ~ \E n \in 0..(WalkCap - 1) : ancestor(d, p, n) = id
    PROVE  \A n \in Nat : ancestor(d, p, n) # id
  <1> SUFFICES ASSUME NEW n \in Nat, ancestor(d, p, n) = id PROVE FALSE
    OBVIOUS
  <1>1. has(d, "templates", ancestor(d, p, 0))
    BY PassedTemplates, 0 \in 0..n
  <1>2. p # Null
    BY <1>1, AncestorZero, NullIsNoTemplate
  <1>3. n + 1 <= Cardinality(d.templates)
    BY ChainIsShort
  <1>4. Cardinality(d.templates) \in Nat
    BY FS_CardinalityType DEF RowsOK, TableOK, Tables
  <1>5. n \in 0..(WalkCap - 1)
    BY <1>3, <1>4, WalkCapAssumption
  <1> QED
    BY <1>2, <1>5

-----------------------------------------------------------------------------
(* Refinement of the contract.                                               *)

\* No two rows of a table meet in a unique group; every reference resolves.
RowsApart(d) == \A t \in Tables : \A a, b \in d[t] : a # b => Apart(t, a, b)

RefsThere(d) == \A t \in Tables : \A r \in d[t] : \A x \in Lite!references(t, r) : has(d, x[1], x[2])

\* The contract's consistency, strengthened to be inductive: no cycle of any
\* length, and never more templates than the walk visits.
ContractInv ==
    /\ MachineInv
    /\ adapter = "memory" => focus \notin {"catalogue", "licenses"}
    /\ RowsApart(db)
    /\ adapter # "memory" => RefsThere(db)
    /\ Acyclic(db)
    /\ Cardinality(db.templates) <= WalkCap

LEMMA ApartBothWays ==
    ASSUME NEW t \in Tables, NEW a, NEW b, Apart(t, a, b)
    PROVE  Apart(t, b, a)
  <1> USE DEF Apart
  <1>1. CASE t = "scopes"
    BY <1>1
  <1>2. CASE t = "templates"
    BY <1>2
  <1>3. CASE t = "licenses"
    BY <1>3
  <1>4. CASE t = "usages"
    BY <1>4
  <1>5. CASE t = "keys"
    BY <1>5
  <1>6. CASE t = "trials"
    BY <1>6
  <1>7. CASE t = "audit"
    BY <1>7
  <1> QED
    BY <1>1, <1>2, <1>3, <1>4, <1>5, <1>6, <1>7 DEF Tables

\* Rows like these are consistent in the sense of the contract.
LEMMA ContractConsistent ==
    ASSUME NEW d, RowsOK(d), RowsApart(d), adapter # "memory" => RefsThere(d), Acyclic(d)
    PROVE  Contract!Consistent(d)
  <1>1. Contract!NoSharedClaim(d)
    <2>1. Contract!Tables = Tables
      BY DEF Contract!Tables, Tables
    <2>2. ASSUME NEW t \in Tables, NEW r \in d[t], NEW q \in d[t], r # q
          PROVE  r.id # q.id /\ Contract!claims(t, r) \cap Contract!claims(t, q) = {}
      <3>1. Apart(t, r, q)
        BY <2>2 DEF RowsApart
      <3>2. r.id # q.id
        BY <2>2 DEF RowsOK, TableOK
      <3> QED
        BY <3>1, <3>2, ContractKeepsApart
    <2> QED
      BY <2>1, <2>2 DEF Contract!NoSharedClaim
  <1>2. adapter # "memory" => Contract!ReferencesResolve(d)
    <2>1. \A t, r : Contract!references(t, r) = Lite!references(t, r)
      BY DEF Contract!references, Lite!references
    <2> QED
      BY <2>1, OneLookup DEF Contract!ReferencesResolve, RefsThere, Contract!Tables, Tables
  <1>3. Contract!Forest(d)
    <2>1. Cardinality(d.templates) \in Nat
      BY FS_CardinalityType DEF RowsOK, TableOK, Tables
    <2>2. ASSUME NEW r \in d.templates, NEW n \in 1..Cardinality(d.templates)
          PROVE  Contract!ancestor(d, r.id, n) # r.id
      BY <2>1, OneAncestry DEF Acyclic
    <2> QED
      BY <2>2, OneCardinality DEF Contract!Forest
  <1> QED
    BY <1>1, <1>2, <1>3 DEF Contract!Consistent

\* A write elsewhere closes no cycle.
LEMMA SameTemplates ==
    ASSUME NEW d, NEW e, e.templates = d.templates, Acyclic(d)
    PROVE  Acyclic(e)
  <1>1. \A x : up(e, x) = up(d, x)
    BY DEF up, has, row
  <1>2. \A s : \A n \in Nat : ancestor(e, s, n) = ancestor(d, s, n)
    BY <1>1, SameChain
  <1> QED
    BY <1>2 DEF Acyclic

\* A row that fits keeps every table conforming.
LEMMA FitKeeps ==
    ASSUME ContractInv, NEW t \in Tables, NEW r, Fits(t, r), NEW e, e = wrote(db, t, r).db
    PROVE  RowsApart(e) /\ (adapter # "memory" => RefsThere(e))
  <1>0. DOMAIN db = Tables
    BY DEF ContractInv, MachineInv, RowsOK
  <1>1. /\ e[t] = {q \in db[t] : q.id # r.id} \cup {r}
        /\ \A u \in Tables : u # t => e[u] = db[u]
    BY <1>0, WroteRows
  <1>2. /\ \A u \in Tables : \A id : has(db, u, id) => has(e, u, id)
        /\ has(e, t, r.id)
    BY <1>0, WroteKeepsIds
  <1>3. \A q \in db[t] : q.id # r.id => Apart(t, r, q)
    BY DEF Fits, ContractInv, RowsApart
  <1>4. RowsApart(e)
    <2> SUFFICES ASSUME NEW u \in Tables, NEW a \in e[u], NEW b \in e[u], a # b PROVE Apart(u, a, b)
      BY DEF RowsApart
    <2>1. CASE u # t
      BY <1>1, <2>1 DEF ContractInv, RowsApart
    <2>2. CASE u = t
      <3>1. CASE a = r
        BY <1>1, <1>3, <2>2, <3>1
      <3>2. CASE b = r
        BY <1>1, <1>3, <2>2, <3>2, ApartBothWays
      <3>3. CASE a # r /\ b # r
        BY <1>1, <2>2, <3>3 DEF ContractInv, RowsApart
      <3> QED
        BY <3>1, <3>2, <3>3
    <2> QED
      BY <2>1, <2>2
  <1>5. ASSUME adapter # "memory" PROVE RefsThere(e)
    <2> SUFFICES ASSUME NEW u \in Tables, NEW q \in e[u], NEW x \in Lite!references(u, q)
                 PROVE  has(e, x[1], x[2])
      BY DEF RefsThere
    <2>1. x[1] \in Tables
      BY DEF Lite!references, Tables
    <2>2. CASE u = t /\ q = r
      BY <1>2, <1>5, <2>1, <2>2 DEF Fits
    <2>3. CASE ~(u = t /\ q = r)
      <3>1. q \in db[u]
        BY <1>1, <2>3
      <3> QED
        BY <1>2, <1>5, <2>1, <3>1 DEF ContractInv, RefsThere
    <2> QED
      BY <2>2, <2>3
  <1> QED
    BY <1>4, <1>5

\* Where references are enforced a template's parent exists.
LEMMA ParentRefs ==
    ASSUME ContractInv, adapter # "memory"
    PROVE  ParentsThere(db)
  <1> SUFFICES ASSUME NEW r \in db.templates, r.parent # Null PROVE has(db, "templates", r.parent)
    BY DEF ParentsThere
  <1>1. <<"templates", r.parent>> \in Lite!references("templates", r)
    BY DEF Lite!references
  <1> QED
    BY <1>1 DEF ContractInv, RefsThere, Tables

LEMMA TemplatesFinite ==
    ASSUME ContractInv
    PROVE  IsFiniteSet(db.templates) /\ Cardinality(db.templates) \in Nat
  BY FS_CardinalityType DEF ContractInv, MachineInv, RowsOK, TableOK, Tables

\* Each effect of a call is a step of the contract and keeps the invariant.
LEMMA InsertConforms ==
    ASSUME ContractInv, MaxRows["templates"] \in Nat, MaxRows["templates"] <= WalkCap,
           NEW t \in Written, Inserted(t, db'), focus' = focus, adapter' = adapter
    PROVE  ContractInv' /\ Contract!Create(t)
  <1>0. t \in Tables /\ RowsOK(db) /\ DOMAIN db = Tables
    BY DEF Written, Tables, ContractInv, MachineInv, RowsOK
  <1>1. PICK in \in Inputs(t) : /\ focus = "catalogue" => Room(t)
                                /\ Fits(t, created(db, t, in))
                                /\ db' = wrote(db, t, created(db, t, in)).db
    BY DEF Inserted
  <1> DEFINE r == created(db, t, in)
  <1>2. /\ DOMAIN r = Columns(t) /\ r.id \in Nat \ {0} /\ ~has(db, t, r.id)
    BY <1>0, InsertedRow
  <1>3. t = "templates" => r.parent = in.parent /\ in.parent # r.id
    <2> SUFFICES ASSUME t = "templates" PROVE r.parent = in.parent /\ in.parent # r.id
      OBVIOUS
    <2>1. in \in TemplateInputs
      BY DEF Inputs
    <2>2. r.parent = in.parent
      BY <2>1 DEF created, TemplateInputs
    <2>3. in.parent \in Opt(Known("templates"))
      BY <2>1 DEF TemplateInputs
    <2> HIDE DEF r
    <2> QED
      BY <1>2, <2>2, <2>3, NullAssumption DEF Opt, Known, has
  <1> HIDE DEF r
  <1>4. Fits(t, r) /\ db' = wrote(db, t, r).db
    BY <1>1 DEF r
  <1>5. MachineInv'
    BY InsertKeeps DEF ContractInv
  <1>6. RowsApart(db') /\ (adapter # "memory" => RefsThere(db'))
    BY <1>0, <1>4, FitKeeps
  <1>7. /\ db'[t] = {q \in db[t] : q.id # r.id} \cup {r}
        /\ \A u \in Tables : u # t => db'[u] = db[u]
    BY <1>0, <1>4, WroteRows
  <1>8. db'[t] = db[t] \cup {r} /\ r \in db'[t]
    BY <1>2, <1>7 DEF has
  <1>9. Acyclic(db')
    <2>1. CASE t # "templates"
      BY <1>7, <2>1, SameTemplates DEF ContractInv, Tables
    <2>2. CASE t = "templates"
      <3>1. adapter # "memory"
        BY <2>2 DEF ContractInv, Written
      <3>2. r.parent = Null \/ has(db, "templates", r.parent)
        <4> SUFFICES ASSUME r.parent # Null PROVE has(db, "templates", r.parent)
          OBVIOUS
        <4>1. <<"templates", r.parent>> \in Lite!references("templates", r)
          BY DEF Lite!references
        <4> QED
          BY <1>3, <1>4, <2>2, <3>1, <4>1 DEF Fits
      <3> QED
        BY <1>0, <1>2, <1>4, <2>2, <3>1, <3>2, ParentRefs, NewTemplateAcyclic DEF ContractInv
    <2> QED
      BY <2>1, <2>2
  <1>10. Cardinality(db'.templates) <= WalkCap
    <2>1. CASE t # "templates"
      BY <1>7, <2>1 DEF ContractInv, Tables
    <2>2. CASE t = "templates"
      <3>1. Cardinality(db.templates) < MaxRows["templates"]
        BY <1>1, <2>2 DEF Room, Written
      <3>2. Cardinality(db.templates \cup {r}) = Cardinality(db.templates) + 1
        BY <1>2, <2>2, TemplatesFinite, FS_AddElement DEF has
      <3>3. db'.templates = db.templates \cup {r}
        BY <1>8, <2>2
      <3> DEFINE n == Cardinality(db.templates)
      <3>4. n \in Nat /\ n < MaxRows["templates"] /\ Cardinality(db'.templates) = n + 1
        BY <3>1, <3>2, <3>3, TemplatesFinite
      <3> HIDE DEF n
      <3> QED
        BY <3>4, WalkCapAssumption
    <2> QED
      BY <2>1, <2>2
  <1>11. ContractInv'
    BY <1>5, <1>6, <1>9, <1>10 DEF ContractInv, RowsApart, RefsThere, Acyclic
  <1>12. db' = [db EXCEPT ![t] = db[t] \cup {r}]
    <2>1. db' = [db EXCEPT ![t] = {q \in db[t] : q.id # r.id} \cup {r}]
      BY <1>0, <1>4 DEF wrote
    <2>2. {q \in db[t] : q.id # r.id} \cup {r} = db[t] \cup {r}
      BY <1>2 DEF has
    <2> QED
      BY <2>1, <2>2
  <1>13. Contract!Create(t)
    BY <1>0, <1>2, <1>8, <1>12, OneLookup DEF Contract!Create
  <1> QED
    BY <1>11, <1>13

\* No patch names a column of a natural key.
LEMMA PatchKeepsKey ==
    ASSUME RowsOK(db), NEW t \in Tables, NEW id, has(db, t, id), NEW patch \in Patches(t)
    PROVE  Contract!naturalKey(t, patched(db, t, id, patch)) = Contract!naturalKey(t, row(db, t, id))
  <1> DEFINE cur == row(db, t, id)
  <1>0. DOMAIN cur = Columns(t)
    BY ChangedRow
  <1> HIDE DEF cur
  <1>1. CASE t = "scopes"
    <2>1. "slug" \notin DOMAIN patch /\ "slug" \in DOMAIN cur
      BY <1>0, <1>1 DEF Patches, ScopePatches, Columns
    <2>2. patched(db, t, id, patch).slug = cur.slug
      BY <2>1 DEF patched, cur
    <2> QED
      BY <1>1, <2>2 DEF Contract!naturalKey, cur
  <1>2. CASE t = "usages"
    <2>1. "license" \notin DOMAIN patch /\ "fp" \notin DOMAIN patch /\ "license" \in DOMAIN cur /\ "fp" \in DOMAIN cur
      BY <1>0, <1>2 DEF Patches, UsagePatches, Columns
    <2>2. patched(db, t, id, patch).license = cur.license /\ patched(db, t, id, patch).fp = cur.fp
      BY <2>1 DEF patched, cur
    <2> QED
      BY <1>2, <2>2 DEF Contract!naturalKey, cur
  <1>3. CASE t = "keys"
    <2>1. /\ "kid" \notin DOMAIN patch /\ "scope" \notin DOMAIN patch /\ "role" \notin DOMAIN patch
          /\ "kid" \in DOMAIN cur /\ "scope" \in DOMAIN cur /\ "role" \in DOMAIN cur
      BY <1>0, <1>3 DEF Patches, KeyPatches, Columns
    <2>2. /\ patched(db, t, id, patch).kid = cur.kid /\ patched(db, t, id, patch).scope = cur.scope
          /\ patched(db, t, id, patch).role = cur.role
      BY <2>1 DEF patched, cur
    <2> QED
      BY <1>3, <2>2 DEF Contract!naturalKey, cur
  <1>4. CASE t \notin {"scopes", "usages", "keys"}
    BY <1>4 DEF Contract!naturalKey
  <1> QED
    BY <1>1, <1>2, <1>3, <1>4

\* The parent of a template that was changed: the same one, none, or one that
\* the walk found not to be below it.
LEMMA PatchKeepsForest ==
    ASSUME ContractInv, NEW id, has(db, "templates", id), NEW patch \in TemplatePatches, NotBelow(id, patch),
           NEW e, e = wrote(db, "templates", patched(db, "templates", id, patch)).db
    PROVE  Acyclic(e)
  <1> DEFINE r == patched(db, "templates", id, patch)
             cur == row(db, "templates", id)
  <1>0. RowsOK(db) /\ Acyclic(db) /\ Cardinality(db.templates) <= WalkCap
    BY DEF ContractInv, MachineInv
  <1>1. /\ DOMAIN r = Columns("templates") /\ r.id = id /\ id \in Nat \ {0} /\ DOMAIN cur = Columns("templates")
    BY <1>0, ChangedRow DEF Patches, Tables
  <1> HIDE DEF cur
  <1>2. CASE "parent" \notin DOMAIN patch
    <2>1. r.parent = cur.parent
      BY <1>1, <1>2 DEF patched, Columns, cur
    <2> HIDE DEF r
    <2> QED
      BY <1>0, <1>1, <2>1, ChangedTemplateAcyclic DEF cur, r
  <1>3. CASE "parent" \in DOMAIN patch
    <2>1. r.parent = patch.parent
      BY <1>3 DEF patched
    <2>2. \A n \in Nat : ancestor(db, patch.parent, n) # id
      BY <1>0, <1>3, WalkSees DEF NotBelow
    <2> HIDE DEF r
    <2>3. \A n \in Nat : ancestor(db, r.parent, n) # r.id
      BY <1>1, <2>1, <2>2
    <2> QED
      BY <1>0, <1>1, <2>3, ChangedTemplateAcyclic DEF r
  <1> QED
    BY <1>2, <1>3

\* Replacing the row of an id that is there leaves as many rows.
LEMMA ReplaceKeepsCount ==
    ASSUME NEW S, IsFiniteSet(S), NEW a \in S, NEW b, b \notin S \ {a}
    PROVE  Cardinality((S \ {a}) \cup {b}) = Cardinality(S)
  <1>1. IsFiniteSet(S \ {a}) /\ Cardinality(S \ {a}) = Cardinality(S) - 1
    BY FS_RemoveElement
  <1>2. Cardinality((S \ {a}) \cup {b}) = Cardinality(S \ {a}) + 1
    BY <1>1, FS_AddElement
  <1>3. Cardinality(S) \in Nat
    BY FS_CardinalityType
  <1> QED
    BY <1>1, <1>2, <1>3

LEMMA ChangeConforms ==
    ASSUME ContractInv, NEW t \in Written, Changed(t, db'), focus' = focus, adapter' = adapter
    PROVE  ContractInv' /\ Contract!Update(t)
  <1>0. t \in Tables /\ RowsOK(db) /\ DOMAIN db = Tables
    BY DEF Written, Tables, ContractInv, MachineInv, RowsOK
  <1>1. PICK id, patch : /\ has(db, t, id) /\ patch \in Patches(t)
                         /\ t = "templates" => NotBelow(id, patch)
                         /\ Fits(t, patched(db, t, id, patch))
                         /\ db' = wrote(db, t, patched(db, t, id, patch)).db
    BY DEF Changed
  <1> DEFINE r == patched(db, t, id, patch)
             cur == row(db, t, id)
  <1>2. r.id = id /\ cur \in db[t] /\ cur.id = id
    BY <1>0, <1>1, ChangedRow
  <1>3. Contract!naturalKey(t, r) = Contract!naturalKey(t, cur)
    BY <1>0, <1>1, PatchKeepsKey
  <1> HIDE DEF r, cur
  <1>4. Fits(t, r) /\ db' = wrote(db, t, r).db
    BY <1>1 DEF r
  <1>5. MachineInv'
    BY ChangeKeeps DEF ContractInv
  <1>6. RowsApart(db') /\ (adapter # "memory" => RefsThere(db'))
    BY <1>0, <1>4, FitKeeps
  <1>7. /\ db'[t] = {q \in db[t] : q.id # r.id} \cup {r}
        /\ \A u \in Tables : u # t => db'[u] = db[u]
    BY <1>0, <1>4, WroteRows
  <1>8. {q \in db[t] : q.id # r.id} = db[t] \ {cur}
    BY <1>0, <1>2 DEF RowsOK, TableOK
  <1>9. Acyclic(db')
    <2>1. CASE t # "templates"
      BY <1>7, <2>1, SameTemplates DEF ContractInv, Tables
    <2>2. CASE t = "templates"
      BY <1>1, <2>2, PatchKeepsForest DEF Patches
    <2> QED
      BY <2>1, <2>2
  <1>10. Cardinality(db'.templates) <= WalkCap
    <2>1. CASE t # "templates"
      BY <1>7, <2>1 DEF ContractInv, Tables
    <2>2. CASE t = "templates"
      <3>1. r \notin db.templates \ {cur}
        BY <1>8, <2>2
      <3>2. Cardinality((db.templates \ {cur}) \cup {r}) = Cardinality(db.templates)
        BY <1>2, <2>2, <3>1, TemplatesFinite, ReplaceKeepsCount
      <3>3. db'.templates = (db.templates \ {cur}) \cup {r}
        BY <1>7, <1>8, <2>2
      <3> QED
        BY <3>2, <3>3 DEF ContractInv
    <2> QED
      BY <2>1, <2>2
  <1>11. ContractInv'
    BY <1>5, <1>6, <1>9, <1>10 DEF ContractInv, RowsApart, RefsThere, Acyclic
  <1>12. db' = [db EXCEPT ![t] = (db[t] \ {cur}) \cup {r}]
    <2>1. db' = [db EXCEPT ![t] = {q \in db[t] : q.id # r.id} \cup {r}]
      BY <1>0, <1>4 DEF wrote
    <2> QED
      BY <1>8, <2>1
  <1>13. t \notin {"audit", "trials"}
    BY <1>1 DEF Patches
  <1>14. r \in db'[t]
    BY <1>7
  <1>15. Contract!Update(t)
    BY <1>0, <1>2, <1>3, <1>12, <1>13, <1>14 DEF Contract!Update
  <1> QED
    BY <1>11, <1>15

LEMMA DropConforms ==
    ASSUME ContractInv, Dropped(db'), "trials" \in Written, focus' = focus, adapter' = adapter
    PROVE  ContractInv' /\ (Contract!DeleteTrial \/ db' = db)
  <1>1. PICK id : db' = [db EXCEPT !.trials = {r \in @ : r.id # id}]
    BY DEF Dropped
  <1>2. DOMAIN db = Tables /\ TableOK("trials", db.trials)
    BY DEF ContractInv, MachineInv, RowsOK, Tables
  <1>3. /\ db'.trials = {r \in db.trials : r.id # id} /\ \A u \in Tables : u # "trials" => db'[u] = db[u]
    BY <1>1, <1>2 DEF Tables
  <1>4. MachineInv'
    BY DropKeeps DEF ContractInv
  <1>5. RowsApart(db')
    <2> SUFFICES ASSUME NEW u \in Tables, NEW a \in db'[u], NEW b \in db'[u], a # b PROVE Apart(u, a, b)
      BY DEF RowsApart
    <2>1. a \in db[u] /\ b \in db[u]
      BY <1>3
    <2> QED
      BY <2>1 DEF ContractInv, RowsApart
  <1>6. ASSUME adapter # "memory" PROVE RefsThere(db')
    <2> SUFFICES ASSUME NEW u \in Tables, NEW q \in db'[u], NEW x \in Lite!references(u, q)
                 PROVE  has(db', x[1], x[2])
      BY DEF RefsThere
    <2>1. x[1] \in Tables /\ x[1] # "trials"
      BY DEF Lite!references, Tables
    <2>2. q \in db[u]
      BY <1>3
    <2>3. has(db, x[1], x[2])
      BY <1>6, <2>2 DEF ContractInv, RefsThere
    <2> QED
      BY <1>3, <2>1, <2>3 DEF has
  <1>7. db'.templates = db.templates
    BY <1>3 DEF Tables
  <1>8. Acyclic(db')
    BY <1>7, SameTemplates DEF ContractInv
  <1>9. ContractInv'
    BY <1>4, <1>5, <1>6, <1>7, <1>8 DEF ContractInv, RowsApart, RefsThere, Acyclic
  <1>10. Contract!DeleteTrial \/ db' = db
    <2>1. CASE \E q \in db.trials : q.id = id
      <3>1. PICK q \in db.trials : q.id = id
        BY <2>1
      <3>2. {r \in db.trials : r.id # id} = db.trials \ {q}
        BY <1>2, <3>1 DEF TableOK
      <3>3. db' = [db EXCEPT !.trials = db.trials \ {q}]
        BY <1>1, <1>2, <3>2 DEF Tables
      <3> QED
        BY <3>1, <3>3 DEF Contract!DeleteTrial
    <2>2. CASE ~ \E q \in db.trials : q.id = id
      <3>1. {r \in db.trials : r.id # id} = db.trials
        BY <2>2
      <3>2. db' = [db EXCEPT !.trials = db.trials]
        BY <1>1, <3>1
      <3>3. db = [u \in Tables |-> db[u]]
        BY DEF ContractInv, MachineInv, Whole
      <3> QED
        BY <1>2, <3>2, <3>3
    <2> QED
      BY <2>1, <2>2
  <1> QED
    BY <1>9, <1>10

\* Templates without parents close no cycle.
LEMMA OrphansAcyclic ==
    ASSUME NEW d, RowsOK(d), \A r \in d.templates : r.parent = Null
    PROVE  Acyclic(d)
  <1>1. \A x : up(d, x) = Null
    BY RowIsThere DEF up
  <1> SUFFICES ASSUME NEW r \in d.templates, NEW n \in Nat \ {0} PROVE ancestor(d, r.id, n) # r.id
    BY DEF Acyclic
  <1>2. n - 1 \in Nat /\ (n - 1) + 1 = n
    OBVIOUS
  <1>3. ancestor(d, r.id, n) = Null
    BY <1>1, <1>2, AncestorStep
  <1>4. r.id # Null
    BY NullAssumption DEF RowsOK, TableOK, Tables
  <1> QED
    BY <1>3, <1>4

LEMMA SeedConforms ==
    /\ RowsApart(seed) /\ RefsThere(seed) /\ Acyclic(seed) /\ Cardinality(seed.templates) <= WalkCap
    /\ RowsApart(emptyState) /\ RefsThere(emptyState) /\ Acyclic(emptyState)
    /\ Cardinality(emptyState.templates) <= WalkCap
  <1>0. emptyState.templates = {} /\ \A t \in Tables : emptyState[t] = {}
    BY SeedRows DEF Tables
  <1>1. RowsApart(emptyState) /\ RefsThere(emptyState)
    BY <1>0 DEF RowsApart, RefsThere
  <1>2. Acyclic(emptyState)
    BY <1>0, SeedRowsOK, OrphansAcyclic
  <1>3. Cardinality(emptyState.templates) <= WalkCap
    BY <1>0, FS_EmptySet, WalkCapAssumption
  <1>4. \A t \in Tables : \A a, b \in seed[t] : a = b
    <2>1. \A a, b \in seed.scopes : a = b
      BY SeedRows
    <2>2. \A a, b \in seed.templates : a = b
      BY SeedRows
    <2>3. \A a, b \in seed.licenses : a = b
      BY SeedRows
    <2>4. seed.usages = {} /\ seed.keys = {} /\ seed.audit = {} /\ seed.trials = {}
      BY SeedRows
    <2> QED
      BY <2>1, <2>2, <2>3, <2>4 DEF Tables
  <1>5. RowsApart(seed)
    BY <1>4 DEF RowsApart
  <1>6. \A r \in seed.templates : r.parent = Null /\ r.scope = Null
    BY SeedRows
  <1>7. Acyclic(seed)
    BY <1>6, SeedRowsOK, OrphansAcyclic
  <1>8. Cardinality(seed.templates) <= WalkCap
    <2> DEFINE r == [id |-> 1, scope |-> Null, parent |-> Null, name |-> "seed"]
    <2>1. seed.templates = {r}
      BY SeedRows
    <2> HIDE DEF r
    <2>2. Cardinality({r}) = 1
      BY FS_Singleton
    <2> QED
      BY <2>1, <2>2, WalkCapAssumption
  <1>9. RefsThere(seed)
    <2> SUFFICES ASSUME NEW t \in Tables, NEW r \in seed[t], NEW x \in Lite!references(t, r)
                 PROVE  has(seed, x[1], x[2])
      BY DEF RefsThere
    <2>1. CASE t = "licenses"
      <3>1. r.scope = 1 /\ r.template = Null
        BY <2>1, SeedRows
      <3>2. x[1] = "scopes" /\ x[2] = 1
        BY <2>1, <3>1 DEF Lite!references
      <3> DEFINE q == [id |-> 1, slug |-> "seed", name |-> "a"]
      <3>3. q \in seed.scopes /\ q.id = 1
        BY SeedRows
      <3> HIDE DEF q
      <3> QED
        BY <3>2, <3>3 DEF has
    <2>2. CASE t = "templates"
      BY <1>6, <2>2 DEF Lite!references
    <2>3. CASE t = "scopes"
      BY <2>3 DEF Lite!references
    <2>4. CASE t \notin {"licenses", "templates", "scopes"}
      BY <2>4, SeedRows DEF Tables
    <2> QED
      BY <2>1, <2>2, <2>3, <2>4
  <1> QED
    BY <1>1, <1>2, <1>3, <1>5, <1>7, <1>8, <1>9

\* The wirings the refinement is claimed for: the memory adapter's update of a
\* template or of a license checks less than the schema.
ConformingWirings == \A w \in Wirings : w[1] = "memory" => w[2] \notin {"catalogue", "licenses"}

LEMMA ContractStart ==
    ASSUME ConformingWirings, Init
    PROVE  ContractInv
  <1>1. MachineInv
    BY MachineStart
  <1>2. adapter = "memory" => focus \notin {"catalogue", "licenses"}
    BY DEF ConformingWirings, Init
  <1>3. db \in {seed, emptyState}
    BY DEF Init
  <1> QED
    BY <1>1, <1>2, <1>3, SeedConforms DEF ContractInv

LEMMA ContractStep ==
    ASSUME MaxRows["templates"] \in Nat, MaxRows["templates"] <= WalkCap,
           ContractInv, [SessionNext]_sessionVars
    PROVE  ContractInv' /\ (Contract!Next \/ UNCHANGED <<db, adapter # "memory">>)
  <1>1. CASE Next
    <2>1. Effect(db') /\ focus' = focus /\ adapter' = adapter
      BY <1>1, StepEffect DEF ContractInv, MachineInv
    <2>2. CASE db' = db
      BY <2>1, <2>2 DEF ContractInv, MachineInv, has, Whole, RowsApart, RefsThere, Acyclic
    <2>3. \A t \in Written : t \in Tables
      BY DEF Written, Tables
    <2>4. ASSUME ContractInv' PROVE Contract!Consistent(db')
      <3>1. /\ RowsOK(db') /\ RowsApart(db') /\ Acyclic(db')
            /\ adapter' # "memory" => RefsThere(db')
        BY <2>4 DEF ContractInv, MachineInv, RowsApart, RefsThere, Acyclic, has
      <3> QED
        BY <2>1, <3>1, ContractConsistent
    <2>5. CASE \E t \in Written : Inserted(t, db')
      <3>1. PICK t \in Written : Inserted(t, db')
        BY <2>5
      <3>2. ContractInv' /\ Contract!Create(t)
        BY <2>1, <3>1, InsertConforms
      <3> QED
        BY <2>1, <2>3, <2>4, <3>2 DEF Contract!Next, Contract!Tables, Tables
    <2>6. CASE \E t \in Written : Changed(t, db')
      <3>1. PICK t \in Written : Changed(t, db')
        BY <2>6
      <3>2. ContractInv' /\ Contract!Update(t)
        BY <2>1, <3>1, ChangeConforms
      <3> QED
        BY <2>1, <2>3, <2>4, <3>2 DEF Contract!Next, Contract!Tables, Tables
    <2>7. CASE "trials" \in Written /\ Dropped(db') /\ db' # db
      <3>1. ContractInv' /\ Contract!DeleteTrial
        BY <2>1, <2>7, DropConforms
      <3> QED
        BY <2>1, <2>4, <3>1 DEF Contract!Next
    <2> QED
      BY <2>1, <2>2, <2>5, <2>6, <2>7 DEF Effect
  <1>2. CASE UNCHANGED <<db, focus, adapter>>
    BY <1>2 DEF ContractInv, MachineInv, has, Whole, RowsApart, RefsThere, Acyclic
  <1> QED
    BY <1>1, <1>2 DEF SessionNext, Pages, Transactions, sessionVars, vars

\* Refinement: every session of an adapter is a behaviour of the contract of
\* storage/types.ts, whatever is called: unique groups hold, references resolve
\* where the adapter enforces them, template parents form a forest, natural
\* keys never change, audit rows are write-once, only a trial issuance is
\* deleted.  Hypotheses: the memory adapter is not asked to update templates or
\* licenses, which it checks less than the schema, and there are never more
\* templates than the cycle walk visits.
THEOREM AdaptersImplement ==
    ASSUME ConformingWirings, MaxRows["templates"] \in Nat, MaxRows["templates"] <= WalkCap
    PROVE  SessionSpec => ImplementsContract
  <1>1. SessionInit => ContractInv
    BY ContractStart DEF SessionInit
  <1>2. ContractInv => Contract!Init
    BY ContractConsistent DEF Contract!Init, ContractInv, MachineInv
  <1>3. ContractInv /\ [SessionNext]_sessionVars => ContractInv'
    BY ContractStep
  <1>4. ContractInv /\ [SessionNext]_sessionVars => [Contract!Next]_<<db, adapter # "memory">>
    BY ContractStep
  <1> QED
    BY <1>1, <1>2, <1>3, <1>4, PTL DEF SessionSpec, ImplementsContract, Contract!Spec

-----------------------------------------------------------------------------
(* Pages.  Rows with an instant and an id of their own, in the order of the  *)
(* cursor.                                                                   *)

Stamps(S) ==
    /\ IsFiniteSet(S)
    /\ \A r \in S : r.id \in Nat /\ r.at \in Nat
    /\ \A a, b \in S : a.id = b.id => a = b

InDescOrder(s, S) ==
    /\ s \in [1..Cardinality(S) -> S]
    /\ IsInjective(s) /\ \A i, j \in DOMAIN s : i < j => ~compareDesc(s[j], s[i])

\* Of several rows one comes last.
LEMMA LastRow ==
    ASSUME NEW S, Stamps(S), S # {}
    PROVE  \E m \in S : \A r \in S : r # m => isAfter(m, r)
  <1> DEFINE A == {r.at : r \in S}
  <1>1. A \subseteq Nat /\ A # {}
    BY DEF Stamps
  <1>2. PICK a \in A : \A b \in A : a <= b
    BY <1>1, LeastNatural
  <1> DEFINE I == {r.id : r \in {x \in S : x.at = a}}
  <1>3. I \subseteq Nat /\ I # {}
    BY DEF Stamps
  <1>4. PICK i \in I : \A k \in I : i <= k
    BY <1>3, LeastNatural
  <1>5. PICK m \in S : m.at = a /\ m.id = i
    BY <1>4
  <1>6. ASSUME NEW r \in S, r # m PROVE isAfter(m, r)
    <2>1. r.at \in Nat /\ m.at \in Nat /\ r.id \in Nat /\ m.id \in Nat /\ r.id # m.id
      BY <1>6 DEF Stamps
    <2>2. m.at <= r.at
      BY <1>2, <1>5
    <2>3. r.at = m.at => m.id <= r.id
      BY <1>4, <1>5
    <2> QED
      BY <2>1, <2>2, <2>3 DEF isAfter
  <1> QED
    BY <1>6

LEMMA SomeOrder ==
    ASSUME NEW n \in Nat
    PROVE  \A S : Stamps(S) /\ Cardinality(S) = n => \E s : InDescOrder(s, S)
  <1> DEFINE T == {k \in Nat : \A S : Stamps(S) /\ Cardinality(S) = k => \E s : InDescOrder(s, S)}
  <1>1. 0 \in T
    <2> SUFFICES ASSUME NEW S, Stamps(S), Cardinality(S) = 0 PROVE \E s : InDescOrder(s, S)
      OBVIOUS
    <2>1. InDescOrder(<<>>, S)
      BY DEF InDescOrder, IsInjective
    <2> QED
      BY <2>1
  <1>2. ASSUME NEW k \in T PROVE k + 1 \in T
    <2> SUFFICES ASSUME NEW S, Stamps(S), Cardinality(S) = k + 1 PROVE \E s : InDescOrder(s, S)
      OBVIOUS
    <2>0. k \in Nat
      OBVIOUS
    <2>1. S # {}
      BY <2>0, FS_EmptySet
    <2>2. PICK m \in S : \A r \in S : r # m => isAfter(m, r)
      BY <2>1, LastRow
    <2> DEFINE R == S \ {m}
    <2>3. IsFiniteSet(R) /\ Cardinality(R) = k
      <3>1. IsFiniteSet(S)
        BY DEF Stamps
      <3>2. IsFiniteSet(R) /\ Cardinality(R) = Cardinality(S) - 1
        BY <3>1, FS_RemoveElement
      <3> QED
        BY <2>0, <3>2
    <2>4. Stamps(R)
      BY <2>3 DEF Stamps
    <2>5. PICK s : InDescOrder(s, R)
      BY <2>3, <2>4
    <2> HIDE DEF R
    <2> DEFINE z == [i \in 1..(k + 1) |-> IF i <= k THEN s[i] ELSE m]
    <2>6. /\ DOMAIN s = 1..k /\ \A i \in 1..k : s[i] \in S /\ s[i] # m
          /\ \A i, j \in 1..k : (s[i] = s[j] => i = j) /\ (i < j => ~compareDesc(s[j], s[i]))
      BY <2>3, <2>5 DEF InDescOrder, IsInjective, R
    <2>7. /\ DOMAIN z = 1..(k + 1) /\ z[k + 1] = m /\ \A i \in 1..k : z[i] = s[i]
          /\ \A i \in 1..(k + 1) : i \in 1..k \/ i = k + 1
      BY <2>0
    <2> HIDE DEF z
    <2>8. \A i, j \in 1..(k + 1) : z[i] = z[j] => i = j
      BY <2>6, <2>7
    <2>9. ASSUME NEW i \in 1..(k + 1), NEW j \in 1..(k + 1), i < j PROVE ~compareDesc(z[j], z[i])
      <3>1. CASE j \in 1..k
        BY <2>0, <2>6, <2>7, <2>9, <3>1
      <3>2. CASE j = k + 1
        <4>1. i \in 1..k
          BY <2>0, <2>9, <3>2
        <4>2. z[j] = m /\ z[i] = s[i] /\ s[i] \in S /\ s[i] # m
          BY <2>6, <2>7, <3>2, <4>1
        <4>3. isAfter(m, z[i])
          BY <2>2, <4>2
        <4>4. m.at \in Nat /\ m.id \in Nat /\ z[i].at \in Nat /\ z[i].id \in Nat
          BY <4>2 DEF Stamps
        <4> QED
          BY <4>2, <4>3, <4>4 DEF isAfter, compareDesc
      <3> QED
        BY <2>7, <3>1, <3>2
    <2>10. z \in [1..(k + 1) -> S]
      <3>1. \A i \in 1..(k + 1) : z[i] \in S
        BY <2>6, <2>7
      <3>2. z = [i \in 1..(k + 1) |-> z[i]]
        BY DEF z
      <3> QED
        BY <3>1, <3>2
    <2> QED
      BY <2>7, <2>8, <2>9, <2>10 DEF InDescOrder, IsInjective
  <1> HIDE DEF T
  <1>3. T = Nat
    BY <1>1, <1>2, SetInduction DEF T
  <1> QED
    BY <1>3 DEF T

\* The sort: every row once, each after those before it.
Sorts(s, n, S) ==
    /\ n \in Nat /\ s \in [1..n -> S]
    /\ \A i, j \in 1..n : (s[i] = s[j] => i = j) /\ (i < j => isAfter(s[j], s[i]))
    /\ \A r \in S : \E i \in 1..n : s[i] = r

LEMMA SortedRows ==
    ASSUME NEW S, Stamps(S)
    PROVE  Sorts(sortedDesc(S), Cardinality(S), S)
  <1> DEFINE n == Cardinality(S)
             s == sortedDesc(S)
  <1>1. n \in Nat /\ IsFiniteSet(S)
    BY FS_CardinalityType DEF Stamps
  <1>2. \E x \in [1..n -> S] : IsInjective(x) /\ \A i, j \in DOMAIN x : i < j => ~compareDesc(x[j], x[i])
    BY <1>1, SomeOrder DEF InDescOrder
  <1>3. s \in [1..n -> S] /\ IsInjective(s) /\ \A i, j \in DOMAIN s : i < j => ~compareDesc(s[j], s[i])
    BY <1>2 DEF sortedDesc
  <1> HIDE DEF s
  <1>4. \A i, j \in 1..n : s[i] = s[j] => i = j
    BY <1>3 DEF IsInjective
  <1>5. ASSUME NEW i \in 1..n, NEW j \in 1..n, i < j PROVE isAfter(s[j], s[i])
    <2>1. s[i] \in S /\ s[j] \in S /\ s[i] # s[j]
      BY <1>1, <1>3, <1>4, <1>5
    <2>2. ~isAfter(s[i], s[j])
      BY <1>3, <1>5 DEF compareDesc
    <2>3. s[i].id # s[j].id /\ \A r \in {s[i], s[j]} : r.id \in Nat /\ r.at \in Nat
      BY <2>1 DEF Stamps
    <2> QED
      BY <2>2, <2>3 DEF isAfter
  <1>6. ASSUME NEW r \in S, \A i \in 1..n : s[i] # r PROVE FALSE
    <2> DEFINE R == S \ {r}
    <2>1. IsFiniteSet(R) /\ Cardinality(R) = n - 1
      BY <1>1, FS_RemoveElement
    <2>2. s \in [1..n -> R]
      BY <1>3, <1>6
    <2> HIDE DEF R
    <2>3. IsFiniteSet(1..n) /\ Cardinality(1..n) = n
      BY <1>1, FS_Interval
    <2>4. Cardinality(R) < Cardinality(1..n)
      BY <1>1, <2>1, <2>3
    <2>5. \E x, y \in 1..n : x # y /\ s[x] = s[y]
      BY <2>1, <2>2, <2>3, <2>4, FS_PigeonHole, Zenon
    <2> QED
      BY <1>4, <2>5
  <1>7. Sorts(s, n, S)
    BY <1>1, <1>3, <1>4, <1>5, <1>6 DEF Sorts
  <1> QED
    BY <1>7 DEF s

\* What a page is: rows of those left, none twice, and either all of them and
\* no cursor, or all down to some row and that row's cursor.
PageOf(items, c, W) ==
    \E k \in Nat :
        /\ items \in [1..k -> W]
        /\ \A i, j \in 1..k : items[i] = items[j] => i = j
        /\ \/ c = Null /\ \A r \in W : \E i \in 1..k : items[i] = r
           \/ \E z \in W : c = encodeCursor(z) /\ \A r \in W : (\E i \in 1..k : items[i] = r) <=> ~isAfter(r, z)

LEMMA SortedLength ==
    ASSUME NEW s, NEW n, NEW S, Sorts(s, n, S)
    PROVE  s \in Seq(S) /\ Len(s) = n /\ DOMAIN s = 1..n
  BY DEF Sorts

\* A slice of the sorted rows is a page of those from its start on.
LEMMA SliceIsPage ==
    ASSUME NEW s, NEW n, NEW S, Stamps(S), Sorts(s, n, S), NEW lo \in 1..n, NEW hi \in lo..n,
           NEW W, W \subseteq S, \A i \in 1..n : s[i] \in W <=> i >= lo,
           NEW c, c = IF hi < n THEN encodeCursor(s[hi]) ELSE Null
    PROVE  PageOf(SubSeq(s, lo, hi), c, W)
  <1> DEFINE items == SubSeq(s, lo, hi)
             k == (hi - lo) + 1
  <1>0. n \in Nat /\ k \in Nat
    BY DEF Sorts
  <1>1. /\ DOMAIN s = 1..n /\ s \in Seq(S) /\ Len(s) = n
    BY SortedLength
  <1>2. items = [i \in 1..k |-> s[(lo + i) - 1]]
    <2>1. items = [i \in 1..((hi - lo) + 1) |-> s[(lo + i) - 1]]
      BY <1>0, <1>1
    <2> QED
      BY <2>1
  <1>3. \A i \in 1..k : (lo + i) - 1 \in lo..hi /\ (lo + i) - 1 \in 1..n
    BY <1>0
  <1>4. \A m \in lo..hi : (m - lo) + 1 \in 1..k /\ (lo + ((m - lo) + 1)) - 1 = m
    BY <1>0
  <1> HIDE DEF items, k
  <1>5. \A i \in 1..k : items[i] = s[(lo + i) - 1] /\ items[i] \in W
    BY <1>0, <1>2, <1>3
  <1>6. items \in [1..k -> W]
    BY <1>2, <1>5
  <1>7. \A i, j \in 1..k : items[i] = items[j] => i = j
    <2> SUFFICES ASSUME NEW i \in 1..k, NEW j \in 1..k, items[i] = items[j] PROVE i = j
      OBVIOUS
    <2>1. (lo + i) - 1 = (lo + j) - 1
      BY <1>3, <1>5 DEF Sorts
    <2> QED
      BY <1>0, <2>1
  <1>8. \A m \in lo..hi : \E i \in 1..k : items[i] = s[m]
    BY <1>4, <1>5
  <1>9. ASSUME NEW r \in W PROVE \E m \in lo..n : s[m] = r
    BY <1>9 DEF Sorts
  <1>10. CASE hi < n
    <2>1. s[hi] \in W /\ c = encodeCursor(s[hi])
      BY <1>0, <1>10
    <2>2. ASSUME NEW r \in W PROVE (\E i \in 1..k : items[i] = r) <=> ~isAfter(r, s[hi])
      <3>1. PICK m \in lo..n : s[m] = r
        BY <1>9
      <3>2. hi \in 1..n /\ m \in 1..n
        BY <1>0
      <3>3. s[hi] \in S /\ r \in S /\ \A x \in {s[hi], r} : x.at \in Nat /\ x.id \in Nat
        BY <2>1 DEF Stamps
      <3>4. CASE m > hi
        <4>1. isAfter(r, s[hi])
          BY <3>1, <3>2, <3>4 DEF Sorts
        <4>2. ASSUME NEW i \in 1..k, items[i] = r PROVE FALSE
          <5>1. (lo + i) - 1 = m
            BY <1>3, <1>5, <3>1, <3>2, <4>2 DEF Sorts
          <5> QED
            BY <1>3, <3>4, <5>1
        <4> QED
          BY <4>1, <4>2
      <3>5. CASE m <= hi
        <4>1. m \in lo..hi
          BY <3>5
        <4>2. \E i \in 1..k : items[i] = r
          BY <1>8, <3>1, <4>1
        <4>3. m = hi \/ isAfter(s[hi], r)
          BY <3>1, <3>2, <3>5 DEF Sorts
        <4>4. ~isAfter(r, s[hi])
          BY <3>1, <3>3, <4>3 DEF isAfter
        <4> QED
          BY <4>2, <4>4
      <3> QED
        BY <3>2, <3>4, <3>5
    <2>3. PageOf(items, c, W)
      BY <1>0, <1>6, <1>7, <2>1, <2>2 DEF PageOf
    <2> QED
      BY <2>3 DEF items
  <1>11. CASE ~(hi < n)
    <2>1. hi = n /\ c = Null
      BY <1>0, <1>11
    <2>2. \A r \in W : \E i \in 1..k : items[i] = r
      BY <1>8, <1>9, <2>1
    <2>3. PageOf(items, c, W)
      BY <1>0, <1>6, <1>7, <2>1, <2>2 DEF PageOf
    <2> QED
      BY <2>3 DEF items
  <1> QED
    BY <1>10, <1>11

\* The rows after a cursor, or all of them.
Left(rows, cursor) == {r \in rows : cursor = Null \/ isAfter(r, cursor)}

LEMMA LeftStamps ==
    ASSUME NEW rows, Stamps(rows), NEW cursor
    PROVE  Stamps(Left(rows, cursor)) /\ Left(rows, cursor) \subseteq rows
  BY FS_Subset DEF Stamps, Left

\* SQL: the condition, the order, one row more than the limit.
LEMMA BuiltPage ==
    ASSUME NEW rows, Stamps(rows), NEW cursor, NEW limit \in Nat \ {0}
    PROVE  PageOf(buildPage(rows, cursor, limit).items, buildPage(rows, cursor, limit).cursor, Left(rows, cursor))
  <1> DEFINE W == Left(rows, cursor)
             s == sortedDesc(W)
             n == Cardinality(W)
             p == buildPage(rows, cursor, limit)
  <1>1. Stamps(W)
    BY LeftStamps
  <1>2. p = IF Len(s) > limit THEN [items |-> SubSeq(s, 1, limit), cursor |-> encodeCursor(s[limit])]
            ELSE [items |-> s, cursor |-> Null]
    BY Zenon DEF buildPage, Left
  <1> HIDE DEF p, W
  <1>3. Sorts(s, n, W)
    BY <1>1, SortedRows
  <1> HIDE DEF s, n
  <1>4. Len(s) = n /\ n \in Nat /\ \A i \in 1..n : s[i] \in W
    BY <1>3, SortedLength DEF Sorts
  <1>5. CASE n > limit
    <2>1. p.items = SubSeq(s, 1, limit) /\ p.cursor = encodeCursor(s[limit])
      BY <1>2, <1>4, <1>5
    <2>2. 1 \in 1..n /\ limit \in 1..n /\ limit < n /\ \A i \in 1..n : s[i] \in W <=> i >= 1
      BY <1>4, <1>5
    <2>3. PageOf(SubSeq(s, 1, limit), IF limit < n THEN encodeCursor(s[limit]) ELSE Null, W)
      BY <1>1, <1>3, <2>2, SliceIsPage
    <2> QED
      BY <2>1, <2>2, <2>3 DEF W, p
  <1>6. CASE ~(n > limit)
    <2>1. p.items = s /\ p.cursor = Null
      BY <1>2, <1>4, <1>6
    <2>2. PageOf(s, Null, W)
      BY <1>3 DEF Sorts, PageOf
    <2> QED
      BY <2>1, <2>2 DEF W, p
  <1> QED
    BY <1>5, <1>6

\* Memory: sort all rows, slice from the first that is after the cursor.
LEMMA PaginatedPage ==
    ASSUME NEW rows, Stamps(rows), NEW cursor, cursor = Null \/ cursor \in [at : Nat, id : Nat], NEW limit \in Nat \ {0}
    PROVE  PageOf(paginate(rows, cursor, limit).items, paginate(rows, cursor, limit).cursor, Left(rows, cursor))
  <1> DEFINE W == Left(rows, cursor)
             s == sortedDesc(rows)
             n == Cardinality(rows)
             starts == {i \in DOMAIN s : cursor = Null \/ isAfter(s[i], cursor)}
             start == CHOOSE i \in starts : \A k \in starts : i <= k
             end == IF start + limit - 1 < Len(s) THEN start + limit - 1 ELSE Len(s)
             p == paginate(rows, cursor, limit)
  <1>1. p = IF starts = {} THEN [items |-> <<>>, cursor |-> Null]
            ELSE [items |-> SubSeq(s, start, end), cursor |-> IF end < Len(s) THEN encodeCursor(s[end]) ELSE Null]
    BY Zenon DEF paginate
  <1> HIDE DEF p
  <1>2. Sorts(s, n, rows)
    BY SortedRows
  <1> HIDE DEF s, n
  <1>3. Len(s) = n /\ n \in Nat /\ DOMAIN s = 1..n /\ \A i \in 1..n : s[i] \in rows
    BY <1>2, SortedLength DEF Sorts
  <1>4. \A i \in 1..n : s[i] \in W <=> i \in starts
    BY <1>3 DEF Left
  <1>5. W \subseteq rows
    BY DEF Left
  <1>6. CASE starts = {}
    <2>1. p.items = <<>> /\ p.cursor = Null
      BY <1>1, <1>6
    <2>2. W = {}
      BY <1>2, <1>4, <1>5, <1>6 DEF Sorts
    <2>3. <<>> \in [1..0 -> W]
      BY <2>2
    <2>4. PageOf(<<>>, Null, W)
      BY <2>2, <2>3 DEF PageOf
    <2> QED
      BY <2>1, <2>4 DEF W, p
  <1>7. CASE starts # {}
    <2>1. starts \subseteq Nat
      BY <1>3
    <2>2. \E i \in starts : \A k \in starts : i <= k
      BY <1>7, <2>1, LeastNatural
    <2>3. start \in starts /\ \A k \in starts : start <= k
      BY <2>2
    <2>4. start \in 1..n
      BY <1>3, <2>3
    <2> HIDE DEF start
    <2>5. ASSUME NEW i \in 1..n, i > start PROVE i \in starts
      <3>1. isAfter(s[i], s[start])
        BY <1>2, <2>4, <2>5 DEF Sorts
      <3>2. \A r \in {s[i], s[start]} : r.at \in Nat /\ r.id \in Nat
        BY <1>3, <2>4 DEF Stamps
      <3>3. cursor # Null => cursor.at \in Nat /\ cursor.id \in Nat
        OBVIOUS
      <3> QED
        BY <1>3, <2>3, <3>1, <3>2, <3>3 DEF isAfter
    <2>6. \A i \in 1..n : i \in starts <=> i >= start
      BY <2>3, <2>4, <2>5
    <2> HIDE DEF starts
    <2>7. end \in start..n
      BY <1>3, <2>4
    <2> HIDE DEF end
    <2>8. p.items = SubSeq(s, start, end) /\ p.cursor = IF end < n THEN encodeCursor(s[end]) ELSE Null
      BY <1>1, <1>3, <1>7
    <2>9. \A i \in 1..n : s[i] \in W <=> i >= start
      BY <1>4, <2>6
    <2> HIDE DEF W
    <2>10. PageOf(SubSeq(s, start, end), IF end < n THEN encodeCursor(s[end]) ELSE Null, W)
      BY <1>2, <1>5, <2>4, <2>7, <2>9, SliceIsPage
    <2> QED
      BY <2>8, <2>10 DEF W, p
  <1> QED
    BY <1>6, <1>7

LEMMA PageServed ==
    ASSUME NEW rows, Stamps(rows), NEW cursor, cursor = Null \/ cursor \in [at : Nat, id : Nat], NEW limit \in Limits
    PROVE  PageOf(page(rows, cursor, limit).items, page(rows, cursor, limit).cursor, Left(rows, cursor))
  <1>1. pageLimit(limit) \in Nat \ {0}
    BY PagesAssumption DEF pageLimit
  <1>2. CASE adapter = "memory"
    BY <1>1, <1>2, PaginatedPage DEF page
  <1>3. CASE adapter # "memory"
    BY <1>1, <1>3, BuiltPage DEF page
  <1> QED
    BY <1>2, <1>3

\* Truncating to the millisecond is done once.
LEMMA ToIsoTwice ==
    ASSUME NEW n \in Nat
    PROVE  toIso(n) \in Nat /\ toIso(toIso(n)) = toIso(n)
  <1> DEFINE T == TicksPerMs
             q == n \div T
             m == n - (n % T)
  <1>1. T \in Nat /\ T > 0
    BY TicksAssumption
  <1>2. q \in Nat /\ n % T \in 0..(T - 1) /\ n = T * q + (n % T)
    BY <1>1
  <1>3. m = T * q /\ m \in Nat
    BY <1>1, <1>2
  <1>4. m % T = 0
    <2> DEFINE u == m \div T
    <2>1. u \in Nat /\ m % T \in 0..(T - 1) /\ m = T * u + (m % T)
      BY <1>1, <1>3
    <2> HIDE DEF u, q, m, T
    <2>2. T * q = T * u + (m % T)
      BY <1>3, <2>1
    <2>3. u = q
      <3>1. ASSUME u < q PROVE FALSE
        <4>1. T * (u + 1) <= T * q
          BY <1>1, <1>2, <2>1, <3>1
        <4>2. T * (u + 1) = T * u + T
          BY <1>1, <2>1
        <4>3. T * u \in Nat /\ T * q \in Nat
          BY <1>1, <1>2, <2>1
        <4> QED
          BY <1>1, <2>1, <2>2, <4>1, <4>2, <4>3
      <3>2. ASSUME q < u PROVE FALSE
        <4>1. T * (q + 1) <= T * u
          BY <1>1, <1>2, <2>1, <3>2
        <4>2. T * (q + 1) = T * q + T
          BY <1>1, <1>2
        <4>3. T * u \in Nat /\ T * q \in Nat
          BY <1>1, <1>2, <2>1
        <4> QED
          BY <1>1, <2>1, <2>2, <4>1, <4>2, <4>3
      <3> QED
        BY <1>2, <2>1, <3>1, <3>2
    <2> QED
      BY <1>1, <1>2, <2>1, <2>2, <2>3
  <1> QED
    BY <1>3, <1>4 DEF toIso

\* Where pages are claimed to be exact: a cursor keeps milliseconds, and so
\* does every clock but the Postgres server's.
MsPages == \A w \in Wirings : w[2] = "pages" /\ w[1] = "postgres" => TicksPerMs = 1

Cursor == [at : Nat, id : Nat]
idsOf(rows) == {r.id : r \in rows}

\* A walk in progress has returned nothing after its cursor, and what it still
\* owes is after it.
WalkRecords ==
    [rows : SUBSET Cursor, now : Nat, reading : BOOLEAN, cursor : Cursor \cup {Null}, seen : Seq(Nat), due : SUBSET Nat]

WalkShape(w) ==
    /\ w \in WalkRecords /\ Stamps(w.rows) /\ \A r \in w.rows : toIso(r.at) = r.at

WalkBooks(w) ==
    /\ IsInjective(w.seen) /\ ToSet(w.seen) \subseteq idsOf(w.rows) /\ w.due \subseteq idsOf(w.rows)
    /\ ~w.reading => w.due \subseteq ToSet(w.seen)
    /\ w.reading => /\ w.cursor \in Cursor
                    /\ \A r \in w.rows : IF r.id \in ToSet(w.seen) THEN ~isAfter(r, w.cursor)
                                         ELSE r.id \in w.due => isAfter(r, w.cursor)

WalkInv ==
    /\ focus = "pages" /\ adapter = "postgres" => TicksPerMs = 1
    /\ WalkShape(walk) /\ WalkBooks(walk)

LEMMA SeenIs ==
    ASSUME NEW s \in Seq(Nat)
    PROVE  ToSet(s) = {s[i] : i \in 1..Len(s)} /\ (IsInjective(s) <=> \A i, j \in 1..Len(s) : s[i] = s[j] => i = j)
  BY DEF ToSet, IsInjective

\* A row with a new id keeps the books in order.
LEMMA InsertedLater ==
    ASSUME WalkInv, InsertRow, focus = "pages"
    PROVE  WalkShape(walk') /\ WalkBooks(walk')
  <1> DEFINE N == (1..MaxRows["licenses"]) \ {r.id : r \in walk.rows}
             new(n) == [id |-> n, at |-> createdAt(walk.now)]
  <1>0. \E id \in N : walk' = [walk EXCEPT !.rows = @ \cup {new(id)}]
    BY DEF InsertRow
  <1>1. PICK id \in N : walk' = [walk EXCEPT !.rows = @ \cup {new(id)}]
    BY <1>0
  <1> DEFINE x == new(id)
  <1>2. id \in Nat /\ id \notin idsOf(walk.rows)
    BY <1>1 DEF idsOf
  <1>3. walk \in WalkRecords
    BY DEF WalkInv, WalkShape
  <1>11. walk.now \in Nat
    BY <1>3 DEF WalkRecords
  <1>4. createdAt(walk.now) \in Nat /\ toIso(createdAt(walk.now)) = createdAt(walk.now)
    <2>1. CASE adapter = "postgres"
      <3>1. TicksPerMs = 1
        BY <2>1 DEF WalkInv
      <3>2. \A n \in Nat : n % 1 = 0
        OBVIOUS
      <3> QED
        BY <1>11, <2>1, <3>1, <3>2 DEF createdAt, toIso
    <2>2. CASE adapter # "postgres"
      BY <1>11, <2>2, ToIsoTwice DEF createdAt
    <2> QED
      BY <2>1, <2>2
  <1>5. x.id = id /\ x.at \in Nat /\ toIso(x.at) = x.at /\ x \in Cursor
    BY <1>2, <1>4 DEF Cursor
  <1>6. /\ walk' \in WalkRecords /\ walk'.rows = walk.rows \cup {x} /\ walk'.reading = walk.reading
        /\ walk'.cursor = walk.cursor /\ walk'.seen = walk.seen /\ walk'.due = walk.due
    BY <1>1, <1>3, <1>5 DEF WalkRecords
  <1> HIDE DEF x
  <1>7. Stamps(walk'.rows)
    <2>1. IsFiniteSet(walk.rows \cup {x})
      BY FS_AddElement DEF WalkInv, WalkShape, Stamps
    <2> QED
      BY <1>2, <1>5, <1>6, <2>1 DEF WalkInv, WalkShape, Stamps, idsOf
  <1>8. WalkShape(walk')
    BY <1>5, <1>6, <1>7 DEF WalkInv, WalkShape
  <1>9. idsOf(walk'.rows) = idsOf(walk.rows) \cup {id}
    BY <1>5, <1>6 DEF idsOf
  <1>10. x.id \notin ToSet(walk.seen) /\ x.id \notin walk.due
    BY <1>2, <1>5 DEF WalkInv, WalkBooks
  <1> QED
    BY <1>6, <1>8, <1>9, <1>10 DEF WalkInv, WalkBooks

\* The ids of a page.
IdsOf(ids, c, W) ==
    /\ ids \in Seq(Nat) /\ IsInjective(ids) /\ ToSet(ids) \subseteq idsOf(W)
    /\ c = Null => ToSet(ids) = idsOf(W)
    /\ c # Null => c \in Cursor /\ \A r \in W : r.id \in ToSet(ids) <=> ~isAfter(r, c)

LEMMA PageIds ==
    ASSUME NEW items, NEW c, NEW W, Stamps(W), PageOf(items, c, W), \A r \in W : toIso(r.at) = r.at
    PROVE  IdsOf([i \in DOMAIN items |-> items[i].id], c, W)
  <1>1. PICK k \in Nat :
        /\ items \in [1..k -> W]
        /\ \A i, j \in 1..k : items[i] = items[j] => i = j
        /\ \/ c = Null /\ \A r \in W : \E i \in 1..k : items[i] = r
           \/ \E z \in W : c = encodeCursor(z) /\ \A r \in W : (\E i \in 1..k : items[i] = r) <=> ~isAfter(r, z)
    BY DEF PageOf
  <1> DEFINE ids == [i \in DOMAIN items |-> items[i].id]
  <1>2. DOMAIN items = 1..k /\ \A i \in 1..k : items[i] \in W
    BY <1>1
  <1>3. ids = [i \in 1..k |-> items[i].id]
    BY <1>2
  <1>4. \A i \in 1..k : ids[i] = items[i].id /\ ids[i] \in Nat
    BY <1>2, <1>3 DEF Stamps
  <1>5. ids \in Seq(Nat) /\ Len(ids) = k /\ DOMAIN ids = 1..k
    BY <1>3, <1>4
  <1> HIDE DEF ids
  <1>6. ToSet(ids) = {ids[i] : i \in 1..k}
    BY <1>5, SeenIs
  <1>7. IsInjective(ids)
    <2>1. ASSUME NEW i \in 1..k, NEW j \in 1..k, ids[i] = ids[j] PROVE i = j
      <3>1. items[i] = items[j]
        BY <1>2, <1>4, <2>1 DEF Stamps
      <3> QED
        BY <1>1, <3>1
    <2> QED
      BY <1>5, <2>1 DEF IsInjective
  <1>8. \A r \in W : r.id \in ToSet(ids) <=> \E i \in 1..k : items[i] = r
    <2> SUFFICES ASSUME NEW r \in W PROVE r.id \in ToSet(ids) <=> \E i \in 1..k : items[i] = r
      OBVIOUS
    <2>1. \A i \in 1..k : ids[i] = r.id <=> items[i] = r
      BY <1>2, <1>4 DEF Stamps
    <2> QED
      BY <1>6, <2>1
  <1>9. ToSet(ids) \subseteq idsOf(W)
    BY <1>2, <1>4, <1>6 DEF idsOf
  <1>10. c = Null => ToSet(ids) = idsOf(W)
    <2> SUFFICES ASSUME c = Null PROVE idsOf(W) \subseteq ToSet(ids)
      BY <1>9
    <2>1. \A z \in W : encodeCursor(z) # Null
      BY PagesAssumption DEF encodeCursor, Stamps
    <2>2. \A r \in W : \E i \in 1..k : items[i] = r
      BY <1>1, <2>1
    <2> QED
      BY <1>8, <2>2 DEF idsOf
  <1>11. ASSUME c # Null PROVE c \in Cursor /\ \A r \in W : r.id \in ToSet(ids) <=> ~isAfter(r, c)
    <2>1. PICK z \in W : c = encodeCursor(z) /\ \A r \in W : (\E i \in 1..k : items[i] = r) <=> ~isAfter(r, z)
      BY <1>1, <1>11
    <2>2. c.at = z.at /\ c.id = z.id /\ c \in Cursor
      BY <2>1 DEF encodeCursor, Stamps, Cursor
    <2>3. \A r \in W : isAfter(r, c) <=> isAfter(r, z)
      BY <2>2 DEF isAfter
    <2> QED
      BY <1>8, <2>1, <2>2, <2>3
  <1>12. IdsOf(ids, c, W)
    BY <1>5, <1>7, <1>9, <1>10, <1>11 DEF IdsOf
  <1> QED
    BY <1>12 DEF ids

\* A first page begins the books anew.
LEMMA FirstPageKeeps ==
    ASSUME WalkInv, FirstPage
    PROVE  WalkShape(walk') /\ WalkBooks(walk')
  <1> DEFINE all == {r.id : r \in walk.rows}
             ids(p) == [i \in DOMAIN p.items |-> p.items[i].id]
  <1>1. \E limit \in Limits :
            walk' = [walk EXCEPT !.reading = (page(walk.rows, Null, limit).cursor # Null),
                                 !.cursor = page(walk.rows, Null, limit).cursor,
                                 !.seen = ids(page(walk.rows, Null, limit)), !.due = all]
    BY DEF FirstPage
  <1>2. PICK limit \in Limits :
            walk' = [walk EXCEPT !.reading = (page(walk.rows, Null, limit).cursor # Null),
                                 !.cursor = page(walk.rows, Null, limit).cursor,
                                 !.seen = ids(page(walk.rows, Null, limit)), !.due = all]
    BY <1>1
  <1> DEFINE p == page(walk.rows, Null, limit)
             s == ids(p)
  <1>3. Stamps(walk.rows) /\ \A r \in walk.rows : toIso(r.at) = r.at
    BY DEF WalkInv, WalkShape
  <1>4. Left(walk.rows, Null) = walk.rows
    BY DEF Left
  <1>5. PageOf(p.items, p.cursor, walk.rows)
    BY <1>3, <1>4, PageServed
  <1> HIDE DEF p
  <1>6. IdsOf(s, p.cursor, walk.rows)
    BY <1>3, <1>5, PageIds
  <1>7. all \subseteq Nat /\ all = idsOf(walk.rows)
    BY <1>3 DEF Stamps, idsOf
  <1> HIDE DEF s, all
  <1>8. walk \in WalkRecords
    BY DEF WalkInv, WalkShape
  <1>9. s \in Seq(Nat) /\ p.cursor \in Cursor \cup {Null}
    BY <1>6 DEF IdsOf
  <1>10. walk' = [walk EXCEPT !.reading = (p.cursor # Null), !.cursor = p.cursor, !.seen = s, !.due = all]
    BY <1>2 DEF p, s
  <1>11. /\ walk' \in WalkRecords /\ walk'.rows = walk.rows /\ walk'.reading = (p.cursor # Null)
         /\ walk'.cursor = p.cursor /\ walk'.seen = s /\ walk'.due = all
    BY <1>7, <1>8, <1>9, <1>10 DEF WalkRecords
  <1>12. WalkShape(walk')
    BY <1>3, <1>11 DEF WalkShape
  <1>13. WalkBooks(walk')
    <2>1. CASE p.cursor = Null
      BY <1>6, <1>7, <1>11, <2>1 DEF WalkBooks, IdsOf
    <2>2. CASE p.cursor # Null
      <3>1. ASSUME NEW r \in walk.rows
            PROVE  IF r.id \in ToSet(s) THEN ~isAfter(r, p.cursor) ELSE r.id \in all => isAfter(r, p.cursor)
        BY <1>6, <2>2 DEF IdsOf
      <3> QED
        BY <1>6, <1>7, <1>11, <2>2, <3>1 DEF WalkBooks, IdsOf
    <2> QED
      BY <2>1, <2>2
  <1> QED
    BY <1>12, <1>13

\* Two sequences without repetition and without a common element.
LEMMA JoinedInjective ==
    ASSUME NEW s \in Seq(Nat), NEW u \in Seq(Nat), IsInjective(s), IsInjective(u), ToSet(s) \cap ToSet(u) = {}
    PROVE  s \o u \in Seq(Nat) /\ IsInjective(s \o u) /\ ToSet(s \o u) = ToSet(s) \cup ToSet(u)
  <1> DEFINE z == s \o u
             m == Len(s)
             n == Len(u)
  <1>1. /\ m \in Nat /\ n \in Nat /\ z \in Seq(Nat) /\ Len(z) = m + n
        /\ \A i \in 1..(m + n) : z[i] = IF i <= m THEN s[i] ELSE u[i - m]
    OBVIOUS
  <1> HIDE DEF z, m, n
  <1>2. /\ ToSet(s) = {s[i] : i \in 1..m} /\ ToSet(u) = {u[i] : i \in 1..n}
        /\ \A i, j \in 1..m : s[i] = s[j] => i = j
        /\ \A i, j \in 1..n : u[i] = u[j] => i = j
    BY SeenIs DEF m, n
  <1>3. ToSet(z) = {z[i] : i \in 1..(m + n)}
    BY <1>1, SeenIs
  <1>4. \A i \in 1..m : i \in 1..(m + n) /\ z[i] = s[i] /\ z[i] \in ToSet(s)
    BY <1>1, <1>2
  <1>5. \A i \in 1..n : m + i \in 1..(m + n) /\ z[m + i] = u[i] /\ z[m + i] \in ToSet(u)
    BY <1>1, <1>2
  <1>6. \A i \in 1..(m + n) : i \in 1..m \/ (i - m \in 1..n /\ m + (i - m) = i)
    BY <1>1
  <1>7. ToSet(z) = ToSet(s) \cup ToSet(u)
    <2>1. ToSet(s) \subseteq ToSet(z)
      <3>1. \A i \in 1..m : s[i] \in ToSet(z)
        BY <1>3, <1>4
      <3> QED
        BY <1>2, <3>1
    <2>3. ToSet(u) \subseteq ToSet(z)
      <3>1. \A i \in 1..n : u[i] \in ToSet(z)
        BY <1>3, <1>5
      <3> QED
        BY <1>2, <3>1
    <2>2. ASSUME NEW i \in 1..(m + n) PROVE z[i] \in ToSet(s) \cup ToSet(u)
      BY <1>4, <1>5, <1>6
    <2> QED
      BY <1>3, <2>1, <2>2, <2>3
  <1>8. ASSUME NEW i \in 1..(m + n), NEW j \in 1..(m + n), z[i] = z[j] PROVE i = j
    <2>1. CASE i \in 1..m /\ j \in 1..m
      BY <1>2, <1>4, <1>8, <2>1
    <2>2. CASE i \in 1..m /\ j \notin 1..m
      <3>1. z[i] \in ToSet(s) /\ z[j] \in ToSet(u)
        BY <1>4, <1>5, <1>6, <2>2
      <3> QED
        BY <1>8, <3>1
    <2>3. CASE i \notin 1..m /\ j \in 1..m
      <3>1. z[j] \in ToSet(s) /\ z[i] \in ToSet(u)
        BY <1>4, <1>5, <1>6, <2>3
      <3> QED
        BY <1>8, <3>1
    <2>4. CASE i \notin 1..m /\ j \notin 1..m
      <3>1. i - m \in 1..n /\ m + (i - m) = i /\ j - m \in 1..n /\ m + (j - m) = j
        BY <1>6, <2>4
      <3>2. z[i] = u[i - m] /\ z[j] = u[j - m]
        BY <1>5, <3>1
      <3>3. i - m = j - m
        BY <1>2, <1>8, <3>1, <3>2
      <3> QED
        BY <3>1, <3>3
    <2> QED
      BY <2>1, <2>2, <2>3, <2>4
  <1>9. IsInjective(z)
    BY <1>1, <1>8 DEF IsInjective
  <1> QED
    BY <1>1, <1>7, <1>9 DEF z

\* A further page goes on where the last one ended.
LEMMA NextPageKeeps ==
    ASSUME WalkInv, NextPage
    PROVE  WalkShape(walk') /\ WalkBooks(walk')
  <1> DEFINE ids(p) == [i \in DOMAIN p.items |-> p.items[i].id]
             c == walk.cursor
             W == Left(walk.rows, c)
             old == ToSet(walk.seen)
  <1>1. walk.reading /\ \E limit \in Limits :
            walk' = [walk EXCEPT !.reading = (page(walk.rows, c, limit).cursor # Null),
                                 !.cursor = page(walk.rows, c, limit).cursor,
                                 !.seen = @ \o ids(page(walk.rows, c, limit))]
    BY DEF NextPage
  <1>2. PICK limit \in Limits :
            walk' = [walk EXCEPT !.reading = (page(walk.rows, c, limit).cursor # Null),
                                 !.cursor = page(walk.rows, c, limit).cursor,
                                 !.seen = @ \o ids(page(walk.rows, c, limit))]
    BY <1>1
  <1> DEFINE p == page(walk.rows, c, limit)
             s == ids(p)
  <1>3. Stamps(walk.rows) /\ \A r \in walk.rows : toIso(r.at) = r.at
    BY DEF WalkInv, WalkShape
  <1>4. c \in Cursor /\ c # Null
    BY <1>1, PagesAssumption DEF WalkInv, WalkBooks, Cursor
  <1>5. Stamps(W) /\ W \subseteq walk.rows /\ \A r \in W : toIso(r.at) = r.at
    BY <1>3, LeftStamps
  <1>6. W = {r \in walk.rows : isAfter(r, c)}
    BY <1>4 DEF Left
  <1>7. PageOf(p.items, p.cursor, W)
    BY <1>3, <1>4, PageServed DEF Cursor
  <1> HIDE DEF p, W
  <1>8. IdsOf(s, p.cursor, W)
    BY <1>5, <1>7, PageIds
  <1> HIDE DEF s
  <1>9. walk \in WalkRecords /\ walk.seen \in Seq(Nat) /\ IsInjective(walk.seen)
    BY DEF WalkInv, WalkShape, WalkRecords, WalkBooks
  <1>10. old \cap idsOf(W) = {}
    <2> SUFFICES ASSUME NEW r \in W, r.id \in old PROVE FALSE
      BY DEF idsOf
    <2>1. r \in walk.rows /\ isAfter(r, c)
      BY <1>6
    <2> QED
      BY <1>1, <2>1 DEF WalkInv, WalkBooks
  <1>11. /\ s \in Seq(Nat) /\ IsInjective(s) /\ ToSet(s) \subseteq idsOf(W) /\ p.cursor \in Cursor \cup {Null}
    BY <1>8 DEF IdsOf
  <1> DEFINE z == walk.seen \o s
  <1>12. z \in Seq(Nat) /\ IsInjective(z) /\ ToSet(z) = old \cup ToSet(s)
    <2>1. old \cap ToSet(s) = {}
      BY <1>10, <1>11
    <2> QED
      BY <1>9, <1>11, <2>1, JoinedInjective
  <1>13. walk' = [walk EXCEPT !.reading = (p.cursor # Null), !.cursor = p.cursor, !.seen = z]
    BY <1>2 DEF p, s
  <1> HIDE DEF z
  <1>14. /\ walk' \in WalkRecords /\ walk'.rows = walk.rows /\ walk'.reading = (p.cursor # Null)
         /\ walk'.cursor = p.cursor /\ walk'.seen = z /\ walk'.due = walk.due
    BY <1>9, <1>11, <1>12, <1>13 DEF WalkRecords
  <1>15. WalkShape(walk')
    BY <1>3, <1>14 DEF WalkShape
  <1>16. old \subseteq idsOf(walk.rows) /\ walk.due \subseteq idsOf(walk.rows)
    BY DEF WalkInv, WalkBooks
  <1>17. idsOf(W) \subseteq idsOf(walk.rows) /\ \A r \in walk.rows : r.id \in idsOf(W) <=> r \in W
    BY <1>3, <1>5 DEF idsOf, Stamps
  <1>18. walk.due \subseteq old \cup idsOf(W)
    <2> SUFFICES ASSUME NEW r \in walk.rows, r.id \in walk.due, r.id \notin old PROVE r.id \in idsOf(W)
      BY <1>16 DEF idsOf
    <2>1. isAfter(r, c)
      BY <1>1 DEF WalkInv, WalkBooks
    <2> QED
      BY <1>6, <1>17, <2>1
  <1>19. WalkBooks(walk')
    <2>1. CASE p.cursor = Null
      <3>1. ToSet(s) = idsOf(W)
        BY <1>8, <2>1 DEF IdsOf
      <3> QED
        BY <1>12, <1>14, <1>16, <1>17, <1>18, <2>1, <3>1 DEF WalkBooks
    <2>2. CASE p.cursor # Null
      <3>0. p.cursor \in Cursor /\ \A r \in W : r.id \in ToSet(s) <=> ~isAfter(r, p.cursor)
        BY <1>8, <2>2 DEF IdsOf
      <3>1. ASSUME NEW r \in walk.rows, r.id \in ToSet(z) PROVE ~isAfter(r, p.cursor)
        <4>1. CASE r.id \in ToSet(s)
          BY <1>11, <1>17, <3>0, <4>1
        <4>2. CASE r.id \in old
          <5>1. ~isAfter(r, c)
            BY <1>1, <4>2 DEF WalkInv, WalkBooks
          <5>2. \E x \in W : p.cursor = encodeCursor(x)
            BY <1>7, <2>2 DEF PageOf
          <5>3. PICK x \in W : p.cursor = encodeCursor(x)
            BY <5>2
          <5>4. isAfter(x, c) /\ x \in walk.rows /\ p.cursor.at = x.at /\ p.cursor.id = x.id
            BY <1>3, <1>6, <5>3 DEF encodeCursor
          <5>5. \A y \in {r, x, c} : y.at \in Nat /\ y.id \in Nat
            BY <1>3, <1>4, <5>4 DEF Stamps, Cursor
          <5> QED
            BY <5>1, <5>4, <5>5 DEF isAfter
        <4> QED
          BY <1>12, <3>1, <4>1, <4>2
      <3>2. ASSUME NEW r \in walk.rows, r.id \notin ToSet(z), r.id \in walk.due PROVE isAfter(r, p.cursor)
        <4>1. r \in W
          BY <1>12, <1>17, <1>18, <3>2
        <4> QED
          BY <1>12, <3>0, <3>2, <4>1
      <3>3. ToSet(z) \subseteq idsOf(walk.rows)
        BY <1>11, <1>12, <1>16, <1>17
      <3> QED
        BY <1>12, <1>14, <1>16, <2>2, <3>0, <3>1, <3>2, <3>3 DEF WalkBooks
    <2> QED
      BY <2>1, <2>2
  <1> QED
    BY <1>15, <1>19

LEMMA WalkStep ==
    ASSUME MachineInv, WalkInv, [SessionNext]_sessionVars
    PROVE  WalkInv'
  <1>1. CASE UNCHANGED walk /\ adapter' = adapter /\ focus' = focus
    BY <1>1 DEF WalkInv
  <1>2. CASE Pages
    <2>1. focus = "pages" /\ adapter' = adapter /\ focus' = focus
      BY <1>2 DEF Pages, vars
    <2>2. WalkShape(walk') /\ WalkBooks(walk')
      <3>1. CASE InsertRow
        BY <2>1, <3>1, InsertedLater
      <3>2. CASE Tick
        <4>1. /\ walk' \in WalkRecords /\ walk'.rows = walk.rows /\ walk'.reading = walk.reading
              /\ walk'.cursor = walk.cursor /\ walk'.seen = walk.seen /\ walk'.due = walk.due
          BY <3>2 DEF WalkInv, WalkShape, WalkRecords, Tick
        <4> QED
          BY <4>1 DEF WalkInv, WalkShape, WalkBooks
      <3>3. CASE FirstPage
        BY <3>3, FirstPageKeeps
      <3>4. CASE NextPage
        BY <3>4, NextPageKeeps
      <3> QED
        BY <1>2, <3>1, <3>2, <3>3, <3>4 DEF Pages
    <2> QED
      BY <2>1, <2>2 DEF WalkInv
  <1>3. Next => adapter' = adapter /\ focus' = focus
    BY StepEffect DEF MachineInv
  <1> QED
    BY <1>1, <1>2, <1>3 DEF SessionNext, Transactions, sessionVars, vars

\* A walk through the pages returns every row that was there when it began,
\* and none twice, whatever is inserted between its pages (PagesExact), for any
\* rows, limits and clock.  Hypothesis: where Postgres serves the pages its
\* clock is no finer than the millisecond a cursor keeps.
THEOREM PagesAreExact ==
    ASSUME MsPages
    PROVE  SessionSpec => []PagesExact
  <1>1. SessionInit => WalkInv
    <2> SUFFICES ASSUME SessionInit PROVE WalkInv
      OBVIOUS
    <2>1. focus = "pages" /\ adapter = "postgres" => TicksPerMs = 1
      BY DEF SessionInit, Init, MsPages
    <2>2. walk.rows = {} /\ walk.reading = FALSE /\ walk.seen = <<>> /\ walk.due = {} /\ walk \in WalkRecords
      BY DEF SessionInit, noWalk, WalkRecords
    <2>3. Stamps({})
      BY FS_EmptySet DEF Stamps
    <2>4. ToSet(<<>>) = {} /\ IsInjective(<<>>)
      BY DEF ToSet, IsInjective
    <2> QED
      BY <2>1, <2>2, <2>3, <2>4 DEF WalkInv, WalkShape, WalkBooks
  <1>2. MachineInv /\ WalkInv /\ [SessionNext]_sessionVars => WalkInv'
    BY WalkStep
  <1>3. WalkInv => PagesExact
    BY DEF WalkInv, WalkBooks, PagesExact
  <1> QED
    BY <1>1, <1>2, <1>3, MachineKept, PTL DEF SessionSpec
=============================================================================
