----------------------------- MODULE SqlSchema -----------------------------
(* The schema the migrations of migrations/sqlite and migrations/postgres    *)
(* create (0001_initial, 0002_templates_trials): unique indexes, most of     *)
(* them partial, foreign keys and CHECKs, and how a statement meets them.    *)
(* `NULLS NOT DISTINCT` is emulated by a pair of split partial indexes.      *)
EXTENDS StorageRows

split(scoped, global, column, key) ==
    IF column = Null THEN {<<global, key>>} ELSE {<<scoped, <<column, key>>>>}

\* The entries a row has in the unique indexes of its table.
indexEntries(t, r) ==
    CASE t = "scopes"    -> {<<"license_scopes_slug_key", r.slug>>}
      [] t = "templates" -> split("license_templates_scope_name_key",
                                  "license_templates_global_name_key", r.scope, r.name)
      [] t = "licenses"  -> {<<"licenses_license_key_key", r.key>>} \cup
                            split("licenses_scoped_triple_key", "licenses_global_pair_key", r.scope, r.who)
      [] t = "usages"    -> IF r.status = "active"
                            THEN {<<"license_usages_active_fp_key", <<r.license, r.fp>>>>} ELSE {}
      [] t = "keys"      -> {<<"license_keys_kid_key", r.kid>>} \cup
                            (IF r.state = "active" /\ r.role = "signing"
                             THEN split("license_keys_active_signing_scoped_key",
                                        "license_keys_active_signing_global_key", r.scope, "signing")
                             ELSE {})
      [] t = "trials"    -> split("trial_issuances_template_fp_key",
                                  "trial_issuances_global_fp_key", r.template, r.fp)
      [] OTHER           -> {}

\* REFERENCES columns that are not NULL.
references(t, r) ==
    LET all == CASE t = "templates" -> {<<"scopes", r.scope>>, <<"templates", r.parent>>}
                 [] t = "licenses"  -> {<<"scopes", r.scope>>, <<"templates", r.template>>}
                 [] t = "usages"    -> {<<"licenses", r.license>>}
                 [] t = "keys"      -> {<<"scopes", r.scope>>, <<"keys", r.from>>}
                 [] t = "audit"     -> {<<"licenses", r.license>>, <<"scopes", r.scope>>}
                 [] t = "trials"    -> {<<"templates", r.template>>}
                 [] OTHER           -> {}
    IN  {x \in all : x[2] # Null}

\* licenses_grace_after_expiry and license_keys_not_after_after_nbf.
checks(t, r) == t \in {"licenses", "keys"} => r.ordered

\* The driver errors an INSERT or UPDATE that leaves row r in table t can
\* raise.  CHECKs come before the indexes, foreign keys at statement end;
\* which of several violated indexes is reported is the engine's choice.
raised(db, t, r) ==
    LET others == {q \in db[t] : q.id # r.id}
        hit    == {e \in indexEntries(t, r) : \E q \in others : e \in indexEntries(t, q)}
    IN  IF ~checks(t, r) THEN {"check"}
        ELSE IF hit # {} THEN {e[1] : e \in hit}
        ELSE IF \E x \in references(t, r) :
             ~(has(db, x[1], x[2]) \/ (x[1] = t /\ x[2] = r.id)) THEN {"foreign_key"}
        ELSE {}

\* Mistake: no IS NULL rewriting.
clause_EqualsNull(r, column, value) == r[column] # Null /\ value # Null /\ r[column] = value

\* `column = ?` is not true of NULL; the adapters emit IS NULL for a null filter.
clause(r, column, value) ==
    IF value = Null THEN r[column] = Null ELSE r[column] # Null /\ r[column] = value

\* WHERE 1=1 AND one clause per column the filter names; the column `many`
\* takes a list, and an empty list of statuses is no clause.
selected(rows, filter, many) ==
    {r.id : r \in {q \in rows : \A f \in DOMAIN filter :
                     IF f = many THEN q[f] \in filter[f] \/ (f = "status" /\ filter[f] = {})
                     ELSE clause(q, f, filter[f])}}
=============================================================================
