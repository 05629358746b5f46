-------------------------- MODULE PostgresStorage --------------------------
(* storage/postgres/adapter.ts: INSERT/UPDATE ... RETURNING *, the violated  *)
(* constraint named by the server and mapped by mapPgError.  One call is one *)
(* statement here; transactions that interleave are PostgresTx.              *)
EXTENDS SqlSchema, LicenseStats

mapPgError(e) ==
    CASE e = "licenses_license_key_key" -> "LicenseKeyConflict"
      [] e \in {"licenses_scoped_triple_key", "licenses_global_pair_key"} -> "licensable_scope"
      [] e = "license_scopes_slug_key" -> "slug"
      [] e \in {"license_templates_scope_name_key", "license_templates_global_name_key"} -> "scope_name"
      [] e = "license_usages_active_fp_key" -> "license_fingerprint_active"
      [] e = "license_keys_kid_key" -> "kid"
      [] e \in {"license_keys_active_signing_scoped_key",
                "license_keys_active_signing_global_key"} -> "scope_active_signing"
      [] e \in {"check", "foreign_key"} -> "driver"
      [] OTHER -> e

insert(db, t, r) ==
    LET errs == raised(db, t, r)
    IN  IF errs = {} THEN {wrote(db, t, r)} ELSE {refused(db, mapPgError(e)) : e \in errs}

\* RETURNING * yields no row when the id matches nothing.
updateReturning(db, t, id, patch, missing) ==
    IF ~has(db, t, id) THEN {refused(db, missing)} ELSE insert(db, t, patched(db, t, id, patch))

walkPgParentChain(db, start, forbidden) ==
    \E n \in 0..(WalkCap - 1) : ancestor(db, start, n) = forbidden

createLicense(db, in) == insert(db, "licenses", created(db, "licenses", in))

updateLicense(db, id, patch) == updateReturning(db, "licenses", id, patch, "LicenseNotFound")

createScope(db, in) == insert(db, "scopes", created(db, "scopes", in))

updateScope(db, id, patch) == updateReturning(db, "scopes", id, patch, "pk")

createTemplate(db, in) == insert(db, "templates", created(db, "templates", in))

updateTemplate(db, id, patch) ==
    IF /\ "parent" \in DOMAIN patch /\ patch.parent # Null
       /\ walkPgParentChain(db, patch.parent, id)
    THEN {refused(db, "TemplateCycle")}
    ELSE updateReturning(db, "templates", id, patch, "pk")

createUsage(db, in) == insert(db, "usages", created(db, "usages", in))

updateUsage(db, id, patch) == updateReturning(db, "usages", id, patch, "pk")

createKey(db, in) == insert(db, "keys", created(db, "keys", in))

updateKey(db, id, patch) == updateReturning(db, "keys", id, patch, "pk")

appendAudit(db, in) == insert(db, "audit", created(db, "audit", in))

recordTrialIssuance(db, in) == insert(db, "trials", created(db, "trials", in))

deleteTrialIssuance(db, id) ==
    { [db |-> [db EXCEPT !.trials = {r \in @ : r.id # id}], out |-> "ok"] }

\* The parameters pushed must be the ones the text refers to, or the server
\* refuses the statement.  listTemplates pushes a null scope_id that its
\* IS NULL clause never mentions.
pushed(filter) == {f \in DOMAIN filter : filter[f] # Null \/ f = "scope"}

mentioned(filter) == {f \in DOMAIN filter : filter[f] # Null}

listLicenses(db, filter)  == selected(db.licenses, filter, "status")
listScopes(db, filter)    == selected(db.scopes, filter, Null)
listTemplates(db, filter) ==
    IF pushed(filter) # mentioned(filter) THEN {"driver"} ELSE selected(db.templates, filter, Null)
listUsages(db, filter)    == selected(db.usages, filter, "status")
listKeys(db, filter)      == selected(db.keys, filter, Null)

\* `owners` holds the licensable when one is given: INNER JOIN licenses.
listAudit(db, filter, owners) ==
    LET joined(a) == owners = {} \/ \E l \in db.licenses : l.id = a.license /\ l.who \in owners
    IN  selected({a \in db.audit : joined(a)}, filter, "event")

findLicensesByLicensable(db, who, scopes) ==
    {l.id : l \in {q \in db.licenses : q.who = who /\ \A s \in scopes : clause(q, "scope", s)}}

findTrialIssuance(db, template, fp) ==
    {r.id : r \in {q \in db.trials : clause(q, "template", template) /\ q.fp = fp}}

\* Mistake: a null scope_id taken for no filter.
scopePredicate_NullIsAll(r, filter) == \A s \in filter \ {Null} : clause(r, "scope", s)

\* No clause without a scope_id; IS NULL or equality with it.
scopePredicate(r, filter) == \A s \in filter : clause(r, "scope", s)

\* node-postgres turns a timestamptz into a Date; these rows pass no mapper
\* that would write it as a string again.
timestamptz(at) == IF at = Null THEN Null ELSE "Date"

\* Active usages JOIN licenses, and the audit rows of the five events.
getLicenseStats(db, filter) ==
    LET lics == {l \in db.licenses : scopePredicate(l, filter)}
    IN  computeLicenseStats(lics, [l \in lics |-> timestamptz(l.exp)],
        {u \in db.usages : u.status = "active" /\
            \E l \in db.licenses : l.id = u.license /\ scopePredicate(l, filter)},
        {a \in db.audit : a.event \in AddedEvents \cup RemovedEvents /\ scopePredicate(a, filter)})
=============================================================================
