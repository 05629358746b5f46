--------------------------- MODULE SqliteStorage ---------------------------
(* storage/sqlite/adapter.ts: one statement per write, then the row is read  *)
(* back; the engine's constraints decide and mapSqliteError names the error. *)
EXTENDS SqlSchema, LicenseStats

\* Mistake: (scope_id, name) of templates taken for the licensable columns.
nameConstraint_Confuses(e) ==
    IF e = "license_templates_scope_name_key" THEN "licenses_scoped_triple_key" ELSE e

\* SQLite names the columns of the index it found violated, and the adapter
\* names the constraint again from them; the trial indexes have no name.
nameConstraint(e) ==
    IF e \in {"trial_issuances_template_fp_key", "trial_issuances_global_fp_key"} THEN "unnamed" ELSE e

mapSqliteError(e) ==
    LET c == nameConstraint(e)
    IN  CASE c = "licenses_license_key_key" -> "LicenseKeyConflict"
          [] c \in {"licenses_scoped_triple_key", "licenses_global_pair_key"} -> "licensable_scope"
          [] c = "license_scopes_slug_key" -> "slug"
          [] c \in {"license_templates_scope_name_key", "license_templates_global_name_key"} -> "scope_name"
          [] c = "license_usages_active_fp_key" -> "license_fingerprint_active"
          [] c = "license_keys_kid_key" -> "kid"
          [] c \in {"license_keys_active_signing_scoped_key",
                    "license_keys_active_signing_global_key"} -> "scope_active_signing"
          [] c = "unnamed" -> "unnamed_unique"
          [] OTHER -> "driver"

write(db, t, r) ==
    LET errs == raised(db, t, r)
    IN  IF errs = {} THEN {wrote(db, t, r)} ELSE {refused(db, mapSqliteError(e)) : e \in errs}

\* UPDATE ... WHERE id matches nothing, and the read back finds no row.
update(db, t, id, patch, missing) ==
    IF has(db, t, id) THEN write(db, t, patched(db, t, id, patch)) ELSE {refused(db, missing)}

\* Mistake: the walk starts at the new parent's parent.
walkSqliteParentChain_SkipsParent(db, start, forbidden) ==
    \E n \in 1..(WalkCap - 1) : ancestor(db, start, n) = forbidden

walkSqliteParentChain(db, start, forbidden) ==
    \E n \in 0..(WalkCap - 1) : ancestor(db, start, n) = forbidden

\* The INSERT has no is_trial column: the default, 0, is stored.
createLicense(db, in) == write(db, "licenses", created(db, "licenses", in))

updateLicense(db, id, patch) == update(db, "licenses", id, patch, "LicenseNotFound")

createScope(db, in) == write(db, "scopes", created(db, "scopes", in))

updateScope(db, id, patch) == update(db, "scopes", id, patch, "pk")

createTemplate(db, in) == write(db, "templates", created(db, "templates", in))

updateTemplate(db, id, patch) ==
    IF /\ "parent" \in DOMAIN patch /\ patch.parent # Null
       /\ walkSqliteParentChain(db, patch.parent, id)
    THEN {refused(db, "TemplateCycle")}
    ELSE update(db, "templates", id, patch, "pk")

createUsage(db, in) == write(db, "usages", created(db, "usages", in))

updateUsage(db, id, patch) == update(db, "usages", id, patch, "pk")

createKey(db, in) == write(db, "keys", created(db, "keys", in))

updateKey(db, id, patch) == update(db, "keys", id, patch, "pk")

appendAudit(db, in) == write(db, "audit", created(db, "audit", in))

recordTrialIssuance(db, in) == write(db, "trials", created(db, "trials", in))

deleteTrialIssuance(db, id) ==
    { [db |-> [db EXCEPT !.trials = {r \in @ : r.id # id}], out |-> "ok"] }

listLicenses(db, filter)  == selected(db.licenses, filter, "status")
listScopes(db, filter)    == selected(db.scopes, filter, Null)
listTemplates(db, filter) == selected(db.templates, filter, Null)
listUsages(db, filter)    == selected(db.usages, filter, "status")
listKeys(db, filter)      == selected(db.keys, filter, Null)

\* `owners` holds the licensable when one is given: INNER JOIN licenses.
listAudit(db, filter, owners) ==
    LET joined(a) == owners = {} \/ \E l \in db.licenses : l.id = a.license /\ l.who \in owners
    IN  selected({a \in db.audit : joined(a)}, filter, "event")

findLicensesByLicensable(db, who, scopes) ==
    {l.id : l \in {q \in db.licenses : q.who = who /\ \A s \in scopes : clause(q, "scope", s)}}

findTrialIssuance(db, template, fp) ==
    {r.id : r \in {q \in db.trials : clause(q, "template", template) /\ q.fp = fp}}

\* No clause without a scope_id; IS NULL or equality with it.
scopeWhere(r, filter) == \A s \in filter : clause(r, "scope", s)

\* Active usages JOIN licenses, and the audit rows of the five events.
getLicenseStats(db, filter) ==
    LET lics == {l \in db.licenses : scopeWhere(l, filter)}
    IN  computeLicenseStats(lics, [l \in lics |-> l.exp],
        {u \in db.usages : u.status = "active" /\
            \E l \in db.licenses : l.id = u.license /\ scopeWhere(l, filter)},
        {a \in db.audit : a.event \in AddedEvents \cup RemovedEvents /\ scopeWhere(a, filter)})
=============================================================================
