--------------------------- MODULE StorageMachine ---------------------------
(* One client calling one adapter: every write of the Storage interface, with*)
(* the inputs its types allow, the ones a constraint must refuse included.   *)
(* `adapter` and `focus` (the tables the client works on) are fixed at Init. *)
(* In every state reached, the three adapters are also compared on every     *)
(* call the client could make next and on every list and statistic.          *)
EXTENDS StorageRows

CONSTANTS Wirings,      \* pairs: the adapter, and the tables the client works on
          Slugs, Names, Owners, Keys, Devices,
          StatusLists,  \* status lists a caller filters by
          MaxRows       \* how many rows each table may hold

VARIABLES adapter, focus, db

vars == <<adapter, focus, db>>

Mem  == INSTANCE MemoryStorage
Lite == INSTANCE SqliteStorage
Pg   == INSTANCE PostgresStorage

-----------------------------------------------------------------------------
(* Inputs, patches and filters of storage/types.ts; 0 is an id no row has.   *)

Opt(S) == S \cup {Null}
Ids(t) == 0..MaxRows[t]
ScopeRefs == {Null, 1}

\* Ids a caller can name: rows it has seen, and 0.
Known(t) == {0} \cup {r.id : r \in db[t]}

ScopeInputs    == [slug : Slugs, name : {"a"}]
TemplateInputs == [scope : ScopeRefs, parent : Opt(Known("templates")), name : Names]
LicenseInputs  == [scope : ScopeRefs, template : {Null, 0}, who : Owners, key : Keys,
                   status : {"pending"}, ordered : BOOLEAN, exp : {"later"}, max : {1}]
UsageInputs    == [license : Known("licenses"), fp : Devices, status : {"active"}]
KeyInputs      == [scope : ScopeRefs, kid : Keys, role : {"root", "signing"},
                   state : {"active"}, from : Opt(Known("keys") \cap {0, 1}), ordered : {TRUE}]
TrialInputs    == [template : {Null, 0, 1}, fp : Devices]

ScopePatches    == [name : {"b"}]
TemplatePatches == [name : Names] \cup [parent : Opt(Known("templates"))]
LicensePatches  == [status : {"active", "revoked"}] \cup [key : Keys]
                   \cup [scope : ScopeRefs] \cup [ordered : {FALSE}]
UsagePatches    == [status : {"active", "revoked"}]
KeyPatches      == [state : {"active", "retiring"}]

\* deriveActorKind reads the label up to its colon; that part is the label here.
deriveActorKind(actor) == IF actor \in {"system", "admin", "client"} THEN actor ELSE "unknown"

resolveActorKind(actor, kind) == IF kind = Null THEN deriveActorKind(actor) ELSE kind

AuditInputs ==
    {[license |-> l, scope |-> s, event |-> e, actor |-> a, kind |-> resolveActorKind(a, Null)] :
        l \in {Null, 0, 1}, s \in ScopeRefs, e \in {"license.created", "usage.registered"},
        a \in {"system"}}

Call(op, args) == {[op |-> op, id |-> 0, arg |-> a] : a \in args}
CallOn(op, t, args) == {[op |-> op, id |-> i, arg |-> a] : i \in Known(t), a \in args}

Room(t) == Cardinality(db[t]) < MaxRows[t]

Calls ==
    CASE focus = "catalogue" ->
           (IF Room("scopes") THEN Call("createScope", ScopeInputs) ELSE {}) \cup
           (IF Room("templates") THEN Call("createTemplate", TemplateInputs) ELSE {}) \cup
           CallOn("updateScope", "scopes", ScopePatches) \cup CallOn("updateTemplate", "templates", TemplatePatches)
      [] focus = "licenses" ->
           (IF Room("licenses") THEN Call("createLicense", LicenseInputs) ELSE {}) \cup
           CallOn("updateLicense", "licenses", LicensePatches)
      [] focus = "seats" ->
           (IF Room("usages") THEN Call("createUsage", UsageInputs) ELSE {}) \cup
           (IF Room("audit") THEN Call("appendAudit", AuditInputs) ELSE {}) \cup
           CallOn("updateUsage", "usages", UsagePatches) \cup CallOn("updateLicense", "licenses", [status : {"active"}])
      [] focus = "keys" ->
           (IF Room("keys") THEN Call("createKey", KeyInputs) ELSE {}) \cup
           CallOn("updateKey", "keys", KeyPatches)
      [] focus = "trials" ->
           (IF Room("trials") THEN Call("recordTrialIssuance", TrialInputs) ELSE {}) \cup
           CallOn("deleteTrialIssuance", "trials", {<<>>})
      [] OTHER -> {}

MemOutcomes(c) ==
    CASE c.op = "createScope"    -> Mem!createScope(db, c.arg)
      [] c.op = "updateScope"    -> Mem!updateScope(db, c.id, c.arg)
      [] c.op = "createTemplate" -> Mem!createTemplate(db, c.arg)
      [] c.op = "updateTemplate" -> Mem!updateTemplate(db, c.id, c.arg)
      [] c.op = "createLicense"  -> Mem!createLicense(db, c.arg)
      [] c.op = "updateLicense"  -> Mem!updateLicense(db, c.id, c.arg)
      [] c.op = "createUsage"    -> Mem!createUsage(db, c.arg)
      [] c.op = "updateUsage"    -> Mem!updateUsage(db, c.id, c.arg)
      [] c.op = "createKey"      -> Mem!createKey(db, c.arg)
      [] c.op = "updateKey"      -> Mem!updateKey(db, c.id, c.arg)
      [] c.op = "appendAudit"    -> Mem!appendAudit(db, c.arg)
      [] c.op = "recordTrialIssuance" -> Mem!recordTrialIssuance(db, c.arg)
      [] c.op = "deleteTrialIssuance" -> Mem!deleteTrialIssuance(db, c.id)

LiteOutcomes(c) ==
    CASE c.op = "createScope"    -> Lite!createScope(db, c.arg)
      [] c.op = "updateScope"    -> Lite!updateScope(db, c.id, c.arg)
      [] c.op = "createTemplate" -> Lite!createTemplate(db, c.arg)
      [] c.op = "updateTemplate" -> Lite!updateTemplate(db, c.id, c.arg)
      [] c.op = "createLicense"  -> Lite!createLicense(db, c.arg)
      [] c.op = "updateLicense"  -> Lite!updateLicense(db, c.id, c.arg)
      [] c.op = "createUsage"    -> Lite!createUsage(db, c.arg)
      [] c.op = "updateUsage"    -> Lite!updateUsage(db, c.id, c.arg)
      [] c.op = "createKey"      -> Lite!createKey(db, c.arg)
      [] c.op = "updateKey"      -> Lite!updateKey(db, c.id, c.arg)
      [] c.op = "appendAudit"    -> Lite!appendAudit(db, c.arg)
      [] c.op = "recordTrialIssuance" -> Lite!recordTrialIssuance(db, c.arg)
      [] c.op = "deleteTrialIssuance" -> Lite!deleteTrialIssuance(db, c.id)

PgOutcomes(c) ==
    CASE c.op = "createScope"    -> Pg!createScope(db, c.arg)
      [] c.op = "updateScope"    -> Pg!updateScope(db, c.id, c.arg)
      [] c.op = "createTemplate" -> Pg!createTemplate(db, c.arg)
      [] c.op = "updateTemplate" -> Pg!updateTemplate(db, c.id, c.arg)
      [] c.op = "createLicense"  -> Pg!createLicense(db, c.arg)
      [] c.op = "updateLicense"  -> Pg!updateLicense(db, c.id, c.arg)
      [] c.op = "createUsage"    -> Pg!createUsage(db, c.arg)
      [] c.op = "updateUsage"    -> Pg!updateUsage(db, c.id, c.arg)
      [] c.op = "createKey"      -> Pg!createKey(db, c.arg)
      [] c.op = "updateKey"      -> Pg!updateKey(db, c.id, c.arg)
      [] c.op = "appendAudit"    -> Pg!appendAudit(db, c.arg)
      [] c.op = "recordTrialIssuance" -> Pg!recordTrialIssuance(db, c.arg)
      [] c.op = "deleteTrialIssuance" -> Pg!deleteTrialIssuance(db, c.id)

-----------------------------------------------------------------------------
\* One scope, one template and one license exist where the focus is elsewhere.
seed ==
    [emptyState EXCEPT
        !.scopes    = {[id |-> 1, slug |-> "seed", name |-> "a"]},
        !.templates = {[id |-> 1, scope |-> Null, parent |-> Null, name |-> "seed"]},
        !.licenses  = {[id |-> 1, scope |-> 1, template |-> Null, who |-> "seed", key |-> "seed",
                        status |-> "pending", ordered |-> TRUE, exp |-> "soon", max |-> 2]}]

Init ==
    /\ \E w \in Wirings : adapter = w[1] /\ focus = w[2]
    /\ db = IF focus = "catalogue" THEN emptyState ELSE seed

Take(outcomes) == \E o \in outcomes : db' = o.db /\ UNCHANGED <<adapter, focus>>

OnMemory   == adapter = "memory"   /\ \E c \in Calls : Take(MemOutcomes(c))
OnSqlite   == adapter = "sqlite"   /\ \E c \in Calls : Take(LiteOutcomes(c))
OnPostgres == adapter = "postgres" /\ \E c \in Calls : Take(PgOutcomes(c))

Next == OnMemory \/ OnSqlite \/ OnPostgres

Spec == Init /\ [][Next]_vars

-----------------------------------------------------------------------------
(* Properties *)

Contract == INSTANCE StorageContract WITH enforcesReferences <- adapter # "memory"

\* Refinement: every step of an adapter is a step of the contract of
\* storage/types.ts or leaves the rows alone (unique groups, references,
\* acyclic parents, immutable natural keys, write-once audit rows).
ImplementsContract == Contract!Spec

\* The codes that only differ in the constraint label they carry.
code(e) == IF e \in {"unnamed_unique", "trial_issuances_template_fp_key",
                     "trial_issuances_global_fp_key"} THEN "template_fingerprint" ELSE e

\* SQLite and Postgres answer every call alike: the same rows afterwards and
\* the same error codes, although one engine names columns and the other the
\* constraint (nameConstraint, mapSqliteError, mapPgError).
SqlAdaptersAgree ==
    \A c \in Calls :
        {[o EXCEPT !.out = code(@)] : o \in LiteOutcomes(c)} =
        {[o EXCEPT !.out = code(@)] : o \in PgOutcomes(c)}

\* Whatever SQLite accepts the memory adapter accepts, with the same rows: its
\* hand-written scans never refuse more than the indexes and CHECKs do.
MemoryMirrorsSql ==
    \A c \in Calls : (\E o \in LiteOutcomes(c) : o.out = "ok") => MemOutcomes(c) = LiteOutcomes(c)

LicenseFilters  == [scope : ScopeRefs] \cup [who : Owners, status : StatusLists]
TemplateFilters == [scope : {1}] \cup [parent : Opt(Ids("templates"))] \cup [scope : {1}, parent : Opt(Ids("templates"))]
UsageFilters    == [license : Ids("licenses"), fp : Devices, status : StatusLists]
KeyFilters      == [scope : ScopeRefs, role : {"root", "signing"}, state : {"active"}]
AuditFilters    == [license : Opt(Ids("licenses")), scope : ScopeRefs] \cup [event : {{}, {"license.created"}}]
Owning          == {{}} \cup {{w} : w \in Owners \cup {"seed"}}

Alike(a, b, c) == a = b /\ b = c

\* The rows a list or a lookup selects are the same on every adapter:
\* JavaScript's === on null, SQL's three-valued logic and the IS NULL rewriting
\* agree, and so do the audit log's collected license ids and its INNER JOIN.
ListsAgree ==
    /\ \A f \in LicenseFilters : Alike(Mem!listLicenses(db, f), Lite!listLicenses(db, f), Pg!listLicenses(db, f))
    /\ \A f \in [slug : Slugs] : Alike(Mem!listScopes(db, f), Lite!listScopes(db, f), Pg!listScopes(db, f))
    /\ \A f \in TemplateFilters : Alike(Mem!listTemplates(db, f), Lite!listTemplates(db, f), Pg!listTemplates(db, f))
    /\ \A f \in UsageFilters : Alike(Mem!listUsages(db, f), Lite!listUsages(db, f), Pg!listUsages(db, f))
    /\ \A f \in KeyFilters : Alike(Mem!listKeys(db, f), Lite!listKeys(db, f), Pg!listKeys(db, f))
    /\ \A f \in AuditFilters, o \in Owning : Alike(Mem!listAudit(db, f, o), Lite!listAudit(db, f, o), Pg!listAudit(db, f, o))
    /\ \A w \in Owners, s \in {{}, {Null}, {1}} :
          Alike(Mem!findLicensesByLicensable(db, w, s), Lite!findLicensesByLicensable(db, w, s),
                Pg!findLicensesByLicensable(db, w, s))
    /\ \A t \in {Null, 0, 1}, d \in Devices :
          Alike(Mem!findTrialIssuance(db, t, d), Lite!findTrialIssuance(db, t, d), Pg!findTrialIssuance(db, t, d))

\* The templates of the global scope can be listed; Postgres refuses the query.
GlobalTemplatesListed ==
    LET f == [scope |-> Null]
    IN  Alike(Mem!listTemplates(db, f), Lite!listTemplates(db, f), Pg!listTemplates(db, f))

StatsFilters == {{}} \cup {{s} : s \in Opt({r.id : r \in db.scopes})}

\* The dashboard's numbers do not depend on the adapter (but for the licenses
\* about to expire, ExpiringAgrees), and the global scope and the other scopes
\* partition them: no seat and no event is counted in two scopes or in none.
StatsAgreeAndAddUp ==
    /\ \A f \in StatsFilters :
          LET stats == Lite!getLicenseStats(db, f)
          IN  /\ Mem!getLicenseStats(db, f) = stats
              /\ \A c \in DOMAIN stats \ {"expiring"} : Pg!getLicenseStats(db, f)[c] = stats[c]
    /\ LET whole == Lite!getLicenseStats(db, {})
           parts == [s \in Opt({r.id : r \in db.scopes}) |-> Lite!getLicenseStats(db, {s})]
       IN  /\ whole.perLicense = UNION {parts[s].perLicense : s \in DOMAIN parts}
           /\ \A s, q \in DOMAIN parts : s # q => parts[s].perLicense \cap parts[q].perLicense = {}
           /\ Cardinality(DOMAIN parts) = 2 =>
                whole.added = parts[Null].added + parts[1].added

\* stats.ts: "the three adapters can't drift".  expiring_within_30d does:
\* Postgres compares a Date with a string and counts none.
ExpiringAgrees ==
    \A f \in StatsFilters : Pg!getLicenseStats(db, f).expiring = Lite!getLicenseStats(db, f).expiring

\* One contract, three adapters: on the same rows every write is accepted or
\* refused alike, and every list, lookup and statistic but one reads alike.
AdaptersAgree == SqlAdaptersAgree /\ MemoryMirrorsSql /\ ListsAgree /\ StatsAgreeAndAddUp

\* Type: the rows stay within the bounds and every outcome is a known one.
StorageTypeOK ==
    /\ <<adapter, focus>> \in Wirings /\ DOMAIN db = Tables
    /\ \A t \in Tables : Cardinality(db[t]) <= MaxRows[t]
    /\ \A c \in Calls : \A o \in MemOutcomes(c) \cup LiteOutcomes(c) \cup PgOutcomes(c) :
          o.out \in {"ok", "driver", "pk", "LicenseNotFound", "LicenseKeyConflict", "license_key",
                "licensable_scope", "slug", "scope_name", "parent_id", "TemplateCycle",
                "license_fingerprint_active", "kid", "scope_active_signing", "template_fingerprint",
                "unnamed_unique", "trial_issuances_template_fp_key", "trial_issuances_global_fp_key"}
=============================================================================
