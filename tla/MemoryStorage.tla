--------------------------- MODULE MemoryStorage ---------------------------
(* storage/memory/adapter.ts: Maps scanned by hand.  Every operation yields  *)
(* the single outcome of the code, as a set for uniformity with the SQL      *)
(* adapters.                                                                 *)
EXTENDS LicenseStats

walkParentChain(db, start, forbidden) ==
    \E n \in 0..(WalkCap - 1) : ancestor(db, start, n) = forbidden

createLicense(db, in) ==
    LET hits == {r \in db.licenses : r.key = in.key \/ (r.who = in.who /\ r.scope = in.scope)}
    IN  { IF hits = {} THEN wrote(db, "licenses", created(db, "licenses", in))
          ELSE IF first(hits).key = in.key THEN refused(db, "LicenseKeyConflict")
          ELSE refused(db, "licensable_scope") }

updateLicense(db, id, patch) ==
    { IF ~has(db, "licenses", id) THEN refused(db, "LicenseNotFound")
      ELSE IF "key" \in DOMAIN patch /\ \E r \in db.licenses : r.id # id /\ r.key = patch.key THEN
           refused(db, "license_key")
      ELSE wrote(db, "licenses", patched(db, "licenses", id, patch)) }

createScope(db, in) ==
    { IF \E r \in db.scopes : r.slug = in.slug THEN refused(db, "slug")
      ELSE wrote(db, "scopes", created(db, "scopes", in)) }

updateScope(db, id, patch) ==
    { IF ~has(db, "scopes", id) THEN refused(db, "pk")
      ELSE wrote(db, "scopes", patched(db, "scopes", id, patch)) }

createTemplate(db, in) ==
    { IF \E r \in db.templates : r.scope = in.scope /\ r.name = in.name THEN refused(db, "scope_name")
      ELSE IF in.parent # Null /\ ~has(db, "templates", in.parent) THEN refused(db, "parent_id")
      ELSE wrote(db, "templates", created(db, "templates", in)) }

\* The (scope, name) uniqueness that createTemplate scans for is not checked
\* again when a patch renames the template.
updateTemplate(db, id, patch) ==
    LET moves == "parent" \in DOMAIN patch /\ patch.parent # Null
    IN  { IF ~has(db, "templates", id) THEN refused(db, "pk")
          ELSE IF moves /\ ~has(db, "templates", patch.parent) THEN refused(db, "parent_id")
          ELSE IF moves /\ walkParentChain(db, patch.parent, id) THEN refused(db, "TemplateCycle")
          ELSE wrote(db, "templates", patched(db, "templates", id, patch)) }

\* Mistake: revoked usages hold their seat for ever.
seatTaken_AnyStatus(db, license, fp, id) ==
    \E r \in db.usages : r.id # id /\ r.license = license /\ r.fp = fp

seatTaken(db, license, fp, id) ==
    \E r \in db.usages : r.id # id /\ r.license = license /\ r.fp = fp /\ r.status = "active"

createUsage(db, in) ==
    { IF in.status = "active" /\ seatTaken(db, in.license, in.fp, Null)
      THEN refused(db, "license_fingerprint_active")
      ELSE wrote(db, "usages", created(db, "usages", in)) }

updateUsage(db, id, patch) ==
    { IF ~has(db, "usages", id) THEN refused(db, "pk")
      ELSE LET cur == row(db, "usages", id)
               wakes == "status" \in DOMAIN patch /\ patch.status = "active" /\ cur.status # "active"
           IN  IF wakes /\ seatTaken(db, cur.license, cur.fp, id)
               THEN refused(db, "license_fingerprint_active")
               ELSE wrote(db, "usages", patched(db, "usages", id, patch)) }

signerTaken(db, scope, id) ==
    \E r \in db.keys : r.id # id /\ r.role = "signing" /\ r.state = "active" /\ r.scope = scope

createKey(db, in) ==
    { IF \E r \in db.keys : r.kid = in.kid THEN refused(db, "kid")
      ELSE IF in.role = "signing" /\ in.state = "active" /\ signerTaken(db, in.scope, Null) THEN
           refused(db, "scope_active_signing")
      ELSE wrote(db, "keys", created(db, "keys", in)) }

updateKey(db, id, patch) ==
    { IF ~has(db, "keys", id) THEN refused(db, "pk")
      ELSE LET cur == row(db, "keys", id)
               wakes == /\ "state" \in DOMAIN patch /\ patch.state = "active"
                        /\ cur.state # "active" /\ cur.role = "signing"
           IN  IF wakes /\ signerTaken(db, cur.scope, id)
               THEN refused(db, "scope_active_signing")
               ELSE wrote(db, "keys", patched(db, "keys", id, patch)) }

appendAudit(db, in) == { wrote(db, "audit", created(db, "audit", in)) }

recordTrialIssuance(db, in) ==
    { IF \E r \in db.trials : r.template = in.template /\ r.fp = in.fp
      THEN refused(db, "template_fingerprint")
      ELSE wrote(db, "trials", created(db, "trials", in)) }

deleteTrialIssuance(db, id) ==
    { [db |-> [db EXCEPT !.trials = {r \in @ : r.id # id}], out |-> "ok"] }

\* A filter is a record of the columns it names: `===` on each, `includes` on
\* the column `many` that takes a list.
selected(rows, filter, many) ==
    {r.id : r \in {q \in rows : \A f \in DOMAIN filter :
                     IF f = many THEN q[f] \in filter[f] ELSE q[f] = filter[f]}}

listLicenses(db, filter)  == selected(db.licenses, filter, "status")
listScopes(db, filter)    == selected(db.scopes, filter, Null)
listTemplates(db, filter) == selected(db.templates, filter, Null)
listUsages(db, filter)    == selected(db.usages, filter, "status")
listKeys(db, filter)      == selected(db.keys, filter, Null)

\* `owners` holds the licensable when one is given; its licenses come first.
listAudit(db, filter, owners) ==
    LET ids == {l.id : l \in {q \in db.licenses : q.who \in owners}}
        of(a) == owners = {} \/ (a.license # Null /\ a.license \in ids)
    IN  selected({a \in db.audit : of(a)}, filter, "event")

findLicensesByLicensable(db, who, scopes) ==
    {l.id : l \in {q \in db.licenses : q.who = who /\ \A s \in scopes : q.scope = s}}

findTrialIssuance(db, template, fp) ==
    {r.id : r \in {q \in db.trials : q.template = template /\ q.fp = fp}}

\* getLicenseStats: `filter` holds the scope_id when one is given; `===` on it.
getLicenseStats(db, filter) ==
    LET matches(r) == \A s \in filter : r.scope = s
        lics == {l \in db.licenses : matches(l)}
    IN  computeLicenseStats(lics, [l \in lics |-> l.exp],
            {u \in db.usages : u.status = "active" /\ \E l \in lics : l.id = u.license},
            {a \in db.audit : matches(a)})
=============================================================================
