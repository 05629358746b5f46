--------------------------- MODULE IssuanceProofs ---------------------------
(***************************************************************************)
(* Theorems about Issuance, for any processes, devices, scopes, cooldowns  *)
(* and bounds: trials are spaced, trial rows have licenses, the startup    *)
(* race leaves one signer and licenses carry what their templates imply.   *)
(***************************************************************************)
EXTENDS Issuance, FiniteSetTheorems, WellFoundedInduction, TLAPS

Fields == {"pc", "op", "fp", "tpl", "leaf", "chain", "cursor", "found", "edits"}

\* issue() in the "trials" focus, over templates T and licenses L at time n: a
\* row it is about to delete is past its cooldown, and a trial it is about to
\* record has its license.
TrialCall(c, T, L, n) ==
    /\ DOMAIN c = Fields /\ c.op = "issue"
    /\ c.pc \in {"walk", "trial", "purge", "create", "record"}
    /\ c.tpl \in {Null} \cup DOMAIN T
    /\ cooldownOf(c) \in Nat /\ lowest(T, c.tpl) <= cooldownOf(c)
    /\ c.pc = "purge" => /\ c.found.tpl = c.tpl /\ c.found.fp = c.fp
                         /\ c.found.at \in Nat
                         /\ c.found.at + lowest(T, c.tpl) <= n
    /\ c.pc = "record" =>
         \E l \in L : l.tpl = c.tpl /\ l.fp = c.fp /\ l.at \in Nat /\ l.at <= n

\* The calls of the other focuses; none gets to the trial's steps.
OtherCall(c) ==
    /\ c.pc \in {"idle", "walk", "create", "root", "signing"}
    /\ c.pc = "walk" => DOMAIN c = Fields /\ c.op = "issue" /\ c.fp = Null
    /\ c.pc = "create" => \/ DOMAIN c = Fields /\ c.op = "issue" /\ c.fp = Null
                          \/ DOMAIN c = {"pc", "op", "leaf", "tpl", "edits"} /\ c.op = "template"
    /\ c.pc \in {"root", "signing"} => DOMAIN c = {"pc", "scope", "alg"}
                                   /\ c.scope \in Scopes /\ c.alg \in Algs

CallOK(c, F, T, L, n) ==
    IF F = "trials" THEN c.pc = "idle" \/ TrialCall(c, T, L, n) ELSE OtherCall(c)

TemplatesOK(F, T) ==
    F = "trials" => \A t \in DOMAIN T :
        /\ {"low", "cooldown"} \subseteq DOMAIN T[t]
        /\ T[t].low \in Nat /\ effective(T[t].cooldown) \in Nat /\ T[t].low <= effective(T[t].cooldown)

\* Templates come, and cooldowns that were shorter than any before.
Lower(F, T, U) ==
    F = "trials" => \A t \in DOMAIN T : t \in DOMAIN U /\ U[t].low <= T[t].low

CallsOK == /\ now \in Nat /\ DOMAIN call = Procs
           /\ TemplatesOK(focus, templates)
           /\ \A p \in Procs : CallOK(call[p], focus, templates, licenses, now)

\* A grant's row is still there, or a later one is, or its cooldown is over.
GrantOK(g, T, R, n) ==
    /\ g.at \in Nat /\ g.at <= n
    /\ g.tpl \in {Null} \cup DOMAIN T
    /\ \/ \E r \in R : r.tpl = g.tpl /\ r.fp = g.fp /\ g.at <= r.at
       \/ g.at + lowest(T, g.tpl) <= n

TrialsOK ==
    /\ focus # "trials" => trials = {} /\ granted = {}
    /\ \A r \in trials : r.at \in Nat /\ r.at <= now
    /\ \A g \in granted : GrantOK(g, templates, trials, now)
    /\ GrantedTrialsSpaced
    /\ TrialRowsHaveLicense

TrialInv == CallsOK /\ TrialsOK

----------------------------------------------------------------------------
LEMMA CooldownType ==
    ASSUME NEW T, TemplatesOK("trials", T), NEW t \in {Null} \cup DOMAIN T
    PROVE  lowest(T, t) \in Nat
BY CooldownAssumption DEF TemplatesOK, lowest

LEMMA LowestLater ==
    ASSUME NEW T, NEW U, TemplatesOK("trials", T), TemplatesOK("trials", U), Lower("trials", T, U),
           NEW t \in {Null} \cup DOMAIN T
    PROVE  /\ lowest(T, t) \in Nat /\ lowest(U, t) \in Nat /\ lowest(U, t) <= lowest(T, t)
           /\ t \in {Null} \cup DOMAIN U
<1>1. t \in {Null} \cup DOMAIN U
  BY DEF Lower
<1>2. lowest(T, t) \in Nat /\ lowest(U, t) \in Nat
  BY <1>1, CooldownType
<1> QED
  BY <1>1, <1>2 DEF Lower, lowest

\* T only grows or shortens its cooldowns, L only grows, and so does n.
LEMMA CallLater ==
    ASSUME NEW T, NEW U, NEW L, NEW M, NEW n \in Nat, NEW m \in Nat, NEW F, NEW c,
           TemplatesOK(F, T), TemplatesOK(F, U), Lower(F, T, U), L \subseteq M, n <= m,
           CallOK(c, F, T, L, n)
    PROVE  CallOK(c, F, U, M, m)
<1>1. CASE F = "trials" /\ TrialCall(c, T, L, n)
  <2>1. /\ lowest(T, c.tpl) \in Nat /\ lowest(U, c.tpl) \in Nat
        /\ lowest(U, c.tpl) <= lowest(T, c.tpl) /\ c.tpl \in {Null} \cup DOMAIN U
    BY <1>1, LowestLater DEF TrialCall
  <2>2. cooldownOf(c) \in Nat /\ lowest(U, c.tpl) <= cooldownOf(c)
    BY <1>1, <2>1 DEF TrialCall
  <2>3. c.pc = "purge" => c.found.at + lowest(U, c.tpl) <= m
    BY <1>1, <2>1 DEF TrialCall
  <2>4. c.pc = "record" =>
          \E l \in M : l.tpl = c.tpl /\ l.fp = c.fp /\ l.at \in Nat /\ l.at <= m
    BY <1>1 DEF TrialCall
  <2>5. TrialCall(c, U, M, m)
    BY <1>1, <2>1, <2>2, <2>3, <2>4 DEF TrialCall
  <2> QED
    BY <1>1, <2>5 DEF CallOK
<1> QED
  BY <1>1 DEF CallOK

LEMMA SameTemplates == ASSUME NEW F, NEW T, TemplatesOK(F, T) PROVE Lower(F, T, T)
BY DEF Lower, TemplatesOK

LEMMA EndedIdle == ASSUME NEW r PROVE ended(r).pc = "idle"
BY DEF ended, idle

LEMMA StepCall ==
    ASSUME DOMAIN call = Procs, NEW p \in Procs, NEW rec, step(p, rec)
    PROVE  /\ DOMAIN call' = Procs /\ call'[p] = rec
           /\ \A q \in Procs : q # p => call'[q] = call[q]
BY DEF step

\* A step of p that leaves the templates, or adds to them, and the clock.
LEMMA CallsStep ==
    ASSUME CallsOK, UNCHANGED <<focus, templates, now>>, licenses \subseteq licenses',
           NEW p \in Procs, NEW rec, step(p, rec),
           CallOK(rec, focus, templates, licenses', now)
    PROVE  CallsOK'
<1>1. /\ DOMAIN call' = Procs /\ call'[p] = rec
      /\ \A q \in Procs : q # p => call'[q] = call[q]
  BY StepCall DEF CallsOK
<1>2. \A q \in Procs : CallOK(call[q], focus, templates, licenses', now)
  BY CallLater, SameTemplates DEF CallsOK
<1> QED
  BY <1>1, <1>2 DEF CallsOK

\* The rows, the grants and the licenses stay; the clock may advance and
\* templates may come or shorten their cooldowns.
LEMMA TrialsLater ==
    ASSUME CallsOK, TrialsOK, UNCHANGED <<focus, trials, granted>>,
           licenses \subseteq licenses', now' \in Nat, now <= now',
           TemplatesOK(focus, templates'), Lower(focus, templates, templates')
    PROVE  TrialsOK'
<1>1. \A r \in trials : r.at \in Nat /\ r.at <= now'
  BY DEF TrialsOK, CallsOK
<1>2. ASSUME NEW g \in granted
      PROVE  /\ GrantOK(g, templates', trials, now') /\ g.at \in Nat
             /\ lowest(templates, g.tpl) \in Nat /\ lowest(templates', g.tpl) \in Nat
             /\ lowest(templates', g.tpl) <= lowest(templates, g.tpl)
  <2>1. GrantOK(g, templates, trials, now) /\ focus = "trials"
    BY DEF TrialsOK
  <2>2. /\ lowest(templates, g.tpl) \in Nat /\ lowest(templates', g.tpl) \in Nat
        /\ lowest(templates', g.tpl) <= lowest(templates, g.tpl)
        /\ g.tpl \in {Null} \cup DOMAIN templates'
    BY <2>1, LowestLater DEF CallsOK, GrantOK
  <2> QED
    BY <2>1, <2>2 DEF GrantOK, CallsOK
<1>3. GrantedTrialsSpaced'
  <2> SUFFICES ASSUME NEW g \in granted, NEW h \in granted, g # h, g.tpl = h.tpl, g.fp = h.fp
               PROVE  \/ g.at + lowest(templates', g.tpl) <= h.at
                      \/ h.at + lowest(templates', g.tpl) <= g.at
    BY DEF GrantedTrialsSpaced
  <2>1. \/ g.at + lowest(templates, g.tpl) <= h.at
        \/ h.at + lowest(templates, g.tpl) <= g.at
    BY DEF TrialsOK, GrantedTrialsSpaced
  <2>2. /\ g.at \in Nat /\ h.at \in Nat
        /\ lowest(templates, g.tpl) \in Nat /\ lowest(templates', g.tpl) \in Nat
        /\ lowest(templates', g.tpl) <= lowest(templates, g.tpl)
    BY <1>2
  <2> QED
    BY <2>1, <2>2
<1>4. TrialRowsHaveLicense'
  BY DEF TrialsOK, TrialRowsHaveLicense
<1> QED
  BY <1>1, <1>2, <1>3, <1>4 DEF TrialsOK

----------------------------------------------------------------------------
(* One lemma per step of a call.                                           *)

\* Steps of p that touch neither templates, rows, grants nor clock.
LEMMA TrialStep ==
    ASSUME TrialInv, UNCHANGED <<focus, templates, now, trials, granted>>,
           licenses \subseteq licenses',
           NEW p \in Procs, NEW rec, step(p, rec),
           CallOK(rec, focus, templates, licenses', now)
    PROVE  TrialInv'
<1>1. CallsOK'
  BY CallsStep DEF TrialInv
<1>2. TrialsOK'
  BY TrialsLater, SameTemplates DEF TrialInv, CallsOK
<1> QED
  BY <1>1, <1>2 DEF TrialInv

LEMMA EndedOK ==
    ASSUME NEW r, NEW F, NEW T, NEW L, NEW n PROVE CallOK(ended(r), F, T, L, n)
BY EndedIdle DEF CallOK, OtherCall

LEMMA IssueKeeps ==
    ASSUME TrialInv, NEW p \in Procs, issue(p)
    PROVE  TrialInv'
<1>1. PICK t \in {Null} \cup DOMAIN templates, fp \in IF focus = "trials" THEN Fps ELSE {Null} :
        /\ t = Null => focus = "trials"
        /\ step(p, [pc |-> IF t = Null THEN "trial" ELSE "walk", op |-> "issue", fp |-> fp, tpl |-> t,
                    leaf |-> IF t = Null THEN Null ELSE templates[t], chain |-> <<>>,
                    cursor |-> IF t = Null THEN Null ELSE templates[t].parent,
                    found |-> Null, edits |-> 0])
  BY Zenon DEF issue
<1> DEFINE rec == [pc |-> IF t = Null THEN "trial" ELSE "walk", op |-> "issue", fp |-> fp, tpl |-> t,
                    leaf |-> IF t = Null THEN Null ELSE templates[t], chain |-> <<>>,
                    cursor |-> IF t = Null THEN Null ELSE templates[t].parent,
                    found |-> Null, edits |-> 0]
<1>2. /\ DOMAIN rec = Fields /\ rec.op = "issue" /\ rec.tpl = t /\ rec.fp = fp
      /\ rec.pc = (IF t = Null THEN "trial" ELSE "walk")
      /\ rec.leaf = (IF t = Null THEN Null ELSE templates[t])
  BY DEF Fields
<1> HIDE DEF rec
<1>3. CallOK(rec, focus, templates, licenses', now)
  <2>1. CASE focus = "trials"
    <3>1. /\ lowest(templates, t) \in Nat
          /\ t # Null => /\ effective(templates[t].cooldown) \in Nat
                         /\ templates[t].low <= effective(templates[t].cooldown)
      BY <1>1, <2>1, CooldownType DEF TrialInv, CallsOK, TemplatesOK
    <3>2. cooldownOf(rec) \in Nat /\ lowest(templates, t) <= cooldownOf(rec)
      BY <1>2, <3>1, CooldownAssumption DEF cooldownOf, lowest
    <3> QED
      BY <1>1, <1>2, <2>1, <3>2 DEF CallOK, TrialCall
  <2>2. CASE focus # "trials"
    BY <1>1, <1>2, <2>2 DEF CallOK, OtherCall
  <2> QED
    BY <2>1, <2>2
<1>4. UNCHANGED <<focus, templates, now, trials, granted, licenses>>
  BY DEF issue, trialVars, catalogue
<1> QED
  BY <1>1, <1>3, <1>4, TrialStep DEF rec

\* The record of a call whose program counter moves.
LEMMA Moved ==
    ASSUME NEW c, DOMAIN c = Fields, NEW l
    PROVE  LET d == [c EXCEPT !.pc = l]
           IN  /\ DOMAIN d = Fields /\ d.pc = l /\ d.op = c.op /\ d.fp = c.fp
               /\ d.tpl = c.tpl /\ d.leaf = c.leaf /\ d.found = c.found
BY DEF Fields

LEMMA ResolveKeeps ==
    ASSUME TrialInv, NEW p \in Procs, resolveTemplate(p)
    PROVE  TrialInv'
<1> DEFINE c == call[p]
           node == templates[c.cursor]
           up == [c EXCEPT !.chain = Append(@, node), !.cursor = node.parent]
           on == [c EXCEPT !.pc = IF c.fp = Null THEN "create" ELSE "trial"]
<1>1. UNCHANGED <<focus, templates, now, trials, granted, licenses>>
  BY DEF resolveTemplate, trialVars, catalogue
<1>2. /\ c.pc = "walk" /\ CallOK(c, focus, templates, licenses, now)
      /\ step(p, up) \/ step(p, on)
  BY DEF TrialInv, CallsOK, resolveTemplate
<1>3. DOMAIN c = Fields
  BY <1>2 DEF CallOK, TrialCall, OtherCall
<1>4. /\ DOMAIN up = Fields /\ up.pc = "walk" /\ up.op = c.op /\ up.fp = c.fp
      /\ up.tpl = c.tpl /\ up.leaf = c.leaf
  BY <1>2, <1>3 DEF Fields
<1>5. /\ DOMAIN on = Fields /\ on.pc = (IF c.fp = Null THEN "create" ELSE "trial")
      /\ on.op = c.op /\ on.fp = c.fp /\ on.tpl = c.tpl /\ on.leaf = c.leaf
  BY <1>3, Moved
<1> HIDE DEF up, on
<1>6. CallOK(up, focus, templates, licenses', now) /\ CallOK(on, focus, templates, licenses', now)
  BY <1>1, <1>2, <1>4, <1>5 DEF CallOK, TrialCall, OtherCall, cooldownOf
<1> QED
  BY <1>1, <1>2, <1>6, TrialStep

\* A row that checkTrial finds past its cooldown stays past it.
LEMMA CheckTrialKeeps ==
    ASSUME TrialInv, NEW p \in Procs, checkTrial(p)
    PROVE  TrialInv'
<1> DEFINE c == call[p]
           rows == {r \in trials : r.tpl = c.tpl /\ r.fp = c.fp}
           found == CHOOSE r \in rows : TRUE
           free == [c EXCEPT !.pc = "create"]
           stale == [c EXCEPT !.pc = "purge", !.found = found]
<1>1. UNCHANGED <<focus, templates, now, trials, granted, licenses>>
  BY DEF checkTrial, trialVars, catalogue
<1>2. /\ c.pc = "trial" /\ focus = "trials" /\ TrialCall(c, templates, licenses, now)
      /\ now \in Nat
  BY DEF TrialInv, CallsOK, checkTrial, CallOK, OtherCall
<1>3. CASE step(p, free)
  <2>1. /\ DOMAIN free = Fields /\ free.pc = "create" /\ free.op = c.op
        /\ free.tpl = c.tpl /\ free.leaf = c.leaf
    BY <1>2, Moved DEF TrialCall
  <2> HIDE DEF free
  <2>2. CallOK(free, focus, templates, licenses', now)
    BY <1>2, <2>1 DEF CallOK, TrialCall, cooldownOf
  <2> QED
    BY <1>1, <1>3, <2>2, TrialStep
<1>4. CASE step(p, ended("TrialAlreadyIssued"))
  BY <1>1, <1>4, EndedOK, TrialStep
<1>5. CASE /\ rows # {} /\ \A r \in rows : eligible(c, r)
           /\ step(p, stale)
  <2>1. found \in rows
    BY <1>5
  <2>2. found.tpl = c.tpl /\ found.fp = c.fp /\ found.at \in Nat
    BY <2>1 DEF TrialInv, TrialsOK
  <2>3. cooldownOf(c) \in Nat /\ lowest(templates, c.tpl) <= cooldownOf(c)
    BY <1>2 DEF TrialCall
  <2>4. lowest(templates, c.tpl) \in Nat
    BY <1>2, CooldownType DEF TrialCall, TrialInv, CallsOK
  <2>5. found.at + lowest(templates, c.tpl) <= now
    BY <1>2, <1>5, <2>1, <2>2, <2>3, <2>4 DEF eligible
  <2> HIDE DEF found
  <2>6. /\ DOMAIN stale = Fields /\ stale.pc = "purge" /\ stale.op = c.op
        /\ stale.fp = c.fp /\ stale.tpl = c.tpl /\ stale.leaf = c.leaf /\ stale.found = found
    BY <1>2 DEF TrialCall, Fields
  <2> HIDE DEF stale
  <2>7. CallOK(stale, focus, templates, licenses', now)
    BY <1>2, <2>2, <2>5, <2>6 DEF CallOK, TrialCall, cooldownOf
  <2> QED
    BY <1>1, <1>5, <2>7, TrialStep
<1>6. \/ step(p, free) \/ step(p, ended("TrialAlreadyIssued"))
      \/ rows # {} /\ (\A r \in rows : eligible(c, r)) /\ step(p, stale)
  BY DEF checkTrial
<1> QED
  BY <1>3, <1>4, <1>5, <1>6

\* The stale row goes: what it stood for is past its cooldown.
LEMMA PurgeKeeps ==
    ASSUME TrialInv, NEW p \in Procs, deleteTrialIssuance(p)
    PROVE  TrialInv'
<1> DEFINE c == call[p]
           on == [c EXCEPT !.pc = "create"]
<1>1. /\ UNCHANGED <<focus, templates, now, granted, licenses>>
      /\ trials' = trials \ {c.found} /\ step(p, on)
  BY DEF deleteTrialIssuance, catalogue
<1>2. /\ c.pc = "purge" /\ focus = "trials" /\ TrialCall(c, templates, licenses, now)
      /\ now \in Nat
  BY DEF TrialInv, CallsOK, deleteTrialIssuance, CallOK, OtherCall
<1>3. CallsOK'
  <2>1. /\ DOMAIN on = Fields /\ on.pc = "create" /\ on.op = c.op
        /\ on.tpl = c.tpl /\ on.leaf = c.leaf
    BY <1>2, Moved DEF TrialCall
  <2> HIDE DEF on
  <2>2. CallOK(on, focus, templates, licenses', now)
    BY <1>2, <2>1 DEF CallOK, TrialCall, cooldownOf
  <2> QED
    BY <1>1, <2>2, CallsStep DEF TrialInv
<1>4. ASSUME NEW g \in granted PROVE GrantOK(g, templates, trials', now)
  <2>1. GrantOK(g, templates, trials, now)
    BY DEF TrialInv, TrialsOK
  <2>2. lowest(templates, g.tpl) \in Nat
    BY <1>2, <2>1, CooldownType DEF TrialInv, CallsOK, GrantOK
  <2>3. CASE g.at + lowest(templates, g.tpl) <= now
    BY <2>1, <2>3 DEF GrantOK
  <2>4. ASSUME NEW r \in trials, r.tpl = g.tpl, r.fp = g.fp, g.at <= r.at
        PROVE  GrantOK(g, templates, trials', now)
    <3>1. CASE r # c.found
      BY <1>1, <2>1, <2>4, <3>1 DEF GrantOK
    <3>2. CASE r = c.found
      <4>1. r.at \in Nat /\ r.at + lowest(templates, g.tpl) <= now
        BY <1>2, <2>4, <3>2 DEF TrialCall
      <4>2. g.at + lowest(templates, g.tpl) <= now
        BY <1>2, <2>1, <2>2, <2>4, <4>1 DEF GrantOK
      <4> QED
        BY <2>1, <4>2 DEF GrantOK
    <3> QED
      BY <3>1, <3>2
  <2> QED
    BY <2>1, <2>3, <2>4 DEF GrantOK
<1>5. TrialsOK'
  <2>1. GrantedTrialsSpaced' /\ TrialRowsHaveLicense'
    BY <1>1 DEF TrialInv, TrialsOK, GrantedTrialsSpaced, TrialRowsHaveLicense
  <2>2. focus' = "trials" /\ \A r \in trials' : r.at \in Nat /\ r.at <= now'
    BY <1>1, <1>2 DEF TrialInv, TrialsOK
  <2> QED
    BY <1>1, <1>4, <2>1, <2>2 DEF TrialsOK
<1> QED
  BY <1>3, <1>5 DEF TrialInv

LEMMA CreateLicenseKeeps ==
    ASSUME TrialInv, NEW p \in Procs, createLicense(p)
    PROVE  TrialInv'
<1> DEFINE c == call[p]
           on == [c EXCEPT !.pc = "record"]
<1>1. /\ UNCHANGED <<focus, templates, now, trials, granted>>
      /\ c.pc = "create" /\ c.op = "issue" /\ now \in Nat
      /\ step(p, IF c.fp = Null THEN ended("ok") ELSE on)
      /\ CallOK(c, focus, templates, licenses, now)
  BY DEF createLicense, trialVars, TrialInv, CallsOK
<1>2. PICK l : /\ licenses' = licenses \cup {l}
               /\ l.tpl = c.tpl /\ l.fp = c.fp /\ l.at = now
  <2> DEFINE terms == issueTerms(c)
             want == IF focus = "templates" /\ c.edits = 0 /\ c.leaf # Null
                     THEN expectedEntitlements(templates, c.leaf, cap) ELSE Null
             l == [n |-> Cardinality(licenses) + 1, tpl |-> c.tpl, fp |-> c.fp, at |-> now,
                   via |-> "issue", given |-> Unset, expires |-> terms.expires,
                   grace |-> terms.grace, ents |-> terms.ents, want |-> want]
  <2>1. licenses' = licenses \cup {l}
    BY DEF createLicense
  <2> HIDE DEF terms, want
  <2>2. l.tpl = c.tpl /\ l.fp = c.fp /\ l.at = now
    OBVIOUS
  <2> QED
    BY <2>1, <2>2
<1>3. CASE c.fp = Null
  BY <1>1, <1>2, <1>3, EndedOK, TrialStep
<1>4. CASE c.fp # Null
  <2>1. focus = "trials" /\ TrialCall(c, templates, licenses, now)
    BY <1>1, <1>4 DEF CallOK, OtherCall
  <2>2. /\ DOMAIN on = Fields /\ on.pc = "record" /\ on.op = c.op /\ on.fp = c.fp
        /\ on.tpl = c.tpl /\ on.leaf = c.leaf
    BY <2>1, Moved DEF TrialCall
  <2> HIDE DEF on
  <2>3. l \in licenses' /\ l.at \in Nat /\ l.at <= now
    BY <1>1, <1>2
  <2>4. CallOK(on, focus, templates, licenses', now)
    BY <1>2, <2>1, <2>2, <2>3 DEF CallOK, TrialCall, cooldownOf
  <2> QED
    BY <1>1, <1>2, <1>4, <2>4, TrialStep
<1> QED
  BY <1>3, <1>4

\* The trial is recorded when there is no row: every earlier grant of this
\* device and template is past the cooldown.
LEMMA RecordKeeps ==
    ASSUME TrialInv, NEW p \in Procs, recordTrialIssuance(p)
    PROVE  TrialInv'
<1> DEFINE c == call[p]
           cd == lowest(templates, c.tpl)
<1>1. /\ UNCHANGED <<focus, templates, now, licenses>>
      /\ c.pc = "record" /\ now \in Nat
      /\ focus = "trials" /\ TrialCall(c, templates, licenses, now)
  BY DEF recordTrialIssuance, catalogue, TrialInv, CallsOK, CallOK, OtherCall
<1>2. CASE step(p, ended("UniqueConstraintViolation")) /\ UNCHANGED trialVars
  BY <1>1, <1>2, EndedOK, TrialStep DEF trialVars
<1>3. CASE /\ ~\E r \in trials : r.tpl = c.tpl /\ r.fp = c.fp
           /\ trials' = trials \cup {[id |-> Cardinality(licenses), tpl |-> c.tpl, fp |-> c.fp, at |-> now]}
           /\ granted' = granted \cup {[n |-> Cardinality(granted), tpl |-> c.tpl, fp |-> c.fp, at |-> now]}
           /\ step(p, ended("ok"))
  <2>1. cd \in Nat
    BY <1>1, CooldownType DEF TrialCall, TrialInv, CallsOK
  <2> HIDE DEF cd
  <2>2. PICK r : /\ trials' = trials \cup {r}
                 /\ r.tpl = c.tpl /\ r.fp = c.fp /\ r.at = now
    <3> DEFINE r == [id |-> Cardinality(licenses), tpl |-> c.tpl, fp |-> c.fp, at |-> now]
    <3>1. trials' = trials \cup {r} /\ r.tpl = c.tpl /\ r.fp = c.fp /\ r.at = now
      BY <1>3
    <3> QED
      BY <3>1
  <2>3. PICK h : /\ granted' = granted \cup {h}
                 /\ h.tpl = c.tpl /\ h.fp = c.fp /\ h.at = now
    <3> DEFINE h == [n |-> Cardinality(granted), tpl |-> c.tpl, fp |-> c.fp, at |-> now]
    <3>1. granted' = granted \cup {h} /\ h.tpl = c.tpl /\ h.fp = c.fp /\ h.at = now
      BY <1>3
    <3> QED
      BY <3>1
  <2>4. CallsOK'
    BY <1>1, <1>3, EndedOK, CallsStep DEF TrialInv
  <2>5. ASSUME NEW g \in granted PROVE GrantOK(g, templates, trials', now)
    BY <2>2 DEF TrialInv, TrialsOK, GrantOK
  <2>6. GrantOK(h, templates, trials', now)
    BY <1>1, <2>1, <2>2, <2>3 DEF GrantOK, TrialCall, cd
  <2>7. ASSUME NEW g \in granted, g.tpl = h.tpl, g.fp = h.fp
        PROVE  g.at + lowest(templates, g.tpl) <= h.at
    <3>1. GrantOK(g, templates, trials, now)
      BY DEF TrialInv, TrialsOK
    <3>2. ~\E q \in trials : q.tpl = g.tpl /\ q.fp = g.fp
      BY <1>3, <2>3, <2>7, <3>1 DEF GrantOK, cd
    <3> QED
      BY <2>3, <3>1, <3>2 DEF GrantOK
  <2>8. GrantedTrialsSpaced'
    BY <1>1, <2>3, <2>7 DEF TrialInv, TrialsOK, GrantedTrialsSpaced
  <2>9. TrialRowsHaveLicense'
    <3>1. \E l \in licenses : l.tpl = r.tpl /\ l.fp = r.fp /\ l.at <= r.at
      BY <1>1, <2>2 DEF TrialCall
    <3> QED
      BY <1>1, <2>2, <3>1 DEF TrialInv, TrialsOK, TrialRowsHaveLicense
  <2>10. \A q \in trials' : q.at \in Nat /\ q.at <= now'
    BY <1>1, <2>2 DEF TrialInv, TrialsOK
  <2>11. TrialsOK'
    BY <1>1, <2>3, <2>5, <2>6, <2>8, <2>9, <2>10 DEF TrialsOK
  <2> QED
    BY <2>4, <2>11 DEF TrialInv
<1> QED
  BY <1>2, <1>3 DEF recordTrialIssuance

\* The calls that have nothing to do with trials.
LEMMA OtherCallsKeep ==
    ASSUME TrialInv, NEW p \in Procs,
           \/ createLicenseFromTemplate(p) \/ createFromTemplate(p) \/ ensureSigningKey(p)
           \/ generateRootKey(p) \/ issueInitialSigningKey(p) \/ Fail(p)
    PROVE  TrialInv'
<1> DEFINE c == call[p]
<1>1. UNCHANGED <<focus, templates, now, trials, granted>> /\ licenses \subseteq licenses'
  <2>1. CASE createFromTemplate(p)
    BY <2>1 DEF createFromTemplate, trialVars
  <2> QED
    BY <2>1 DEF createLicenseFromTemplate, ensureSigningKey, generateRootKey,
       issueInitialSigningKey, Fail, catalogue, trialVars
<1>2. CallOK(c, focus, templates, licenses, now)
  BY DEF TrialInv, CallsOK
<1>3. ASSUME NEW r, step(p, ended(r)) PROVE TrialInv'
  BY <1>1, <1>3, EndedOK, TrialStep
<1>4. CASE createLicenseFromTemplate(p)
  <2>1. PICK t : step(p, [pc |-> "create", op |-> "template", leaf |-> templates[t], tpl |-> t, edits |-> 0])
    BY <1>4 DEF createLicenseFromTemplate
  <2> DEFINE rec == [pc |-> "create", op |-> "template", leaf |-> templates[t], tpl |-> t, edits |-> 0]
  <2>2. focus = "terms" /\ CallOK(rec, focus, templates, licenses', now)
    BY <1>4 DEF createLicenseFromTemplate, CallOK, OtherCall
  <2> QED
    BY <1>1, <2>1, <2>2, TrialStep
<1>5. CASE createFromTemplate(p)
  BY <1>3, <1>5, Zenon DEF createFromTemplate
<1>6. CASE ensureSigningKey(p)
  <2>1. ASSUME NEW s \in Scopes, NEW alg \in Algs, step(p, [pc |-> "root", scope |-> s, alg |-> alg])
        PROVE  TrialInv'
    <3>1. focus # "trials" /\ CallOK([pc |-> "root", scope |-> s, alg |-> alg], focus, templates, licenses', now)
      BY <1>6 DEF ensureSigningKey, CallOK, OtherCall
    <3> QED
      BY <1>1, <2>1, <3>1, TrialStep
  <2> QED
    BY <1>3, <1>6, <2>1, Zenon DEF ensureSigningKey
<1>7. CASE generateRootKey(p)
  <2> DEFINE on == [c EXCEPT !.pc = "signing"]
  <2>1. /\ focus # "trials" /\ DOMAIN c = {"pc", "scope", "alg"} /\ c.scope \in Scopes /\ c.alg \in Algs
        /\ step(p, on)
    BY <1>2, <1>7 DEF generateRootKey, CallOK, TrialCall, OtherCall
  <2>2. DOMAIN on = {"pc", "scope", "alg"} /\ on.pc = "signing" /\ on.scope = c.scope /\ on.alg = c.alg
    BY <2>1
  <2> HIDE DEF on
  <2>3. CallOK(on, focus, templates, licenses', now)
    BY <2>1, <2>2 DEF CallOK, OtherCall
  <2> QED
    BY <1>1, <2>1, <2>3, TrialStep
<1>8. CASE issueInitialSigningKey(p)
  <2>1. c.pc = "signing" /\ focus # "trials"
    BY <1>2, <1>8 DEF issueInitialSigningKey, CallOK, TrialCall
  <2>2. CallOK(lostRace(c), focus, templates, licenses', now)
    BY <2>1 DEF CallOK, OtherCall, lostRace
  <2>3. step(p, lostRace(c)) => TrialInv'
    BY <1>1, <2>2, TrialStep
  <2> QED
    BY <1>3, <1>8, <2>3, Zenon DEF issueInitialSigningKey
<1>9. CASE Fail(p)
  BY <1>3, <1>9 DEF Fail
<1> QED
  BY <1>4, <1>5, <1>6, <1>7, <1>8, <1>9

\* A row keeps the shortest cooldown it has had.
LEMMA WithTerms ==
    ASSUME focus = "trials", NEW t, NEW par, NEW terms \in Terms, NEW low \in Nat
    PROVE  LET r == withTerms(t, par, terms, low)
           IN  /\ {"low", "cooldown"} \subseteq DOMAIN r /\ r.low \in Nat /\ r.low <= low
               /\ effective(r.cooldown) \in Nat /\ r.low <= effective(r.cooldown)
<1>1. effective(terms.cooldown) \in Nat
  BY CooldownAssumption DEF Terms, effective
<1> DEFINE r == withTerms(t, par, terms, low)
<1>2. /\ {"low", "cooldown"} \subseteq DOMAIN r /\ r.cooldown = terms.cooldown
      /\ r.low = IF low < effective(terms.cooldown) THEN low ELSE effective(terms.cooldown)
  BY DEF withTerms
<1> HIDE DEF r
<1>3. /\ r.low \in Nat /\ r.low <= low /\ effective(r.cooldown) \in Nat /\ r.low <= effective(r.cooldown)
  BY <1>1, <1>2
<1> QED
  BY <1>2, <1>3 DEF r

\* Template edits, the rotation and the clock.
LEMMA EditKeeps ==
    ASSUME TrialInv, handleUpdateTemplate
    PROVE  TrialInv'
<1>1. /\ UNCHANGED <<focus, now, licenses, trials, granted>> /\ now \in Nat
      /\ call' = [p \in Procs |->
            IF p \in walking THEN [call[p] EXCEPT !.edits = @ + 1] ELSE call[p]]
  BY DEF handleUpdateTemplate, edit, trialVars, TrialInv, CallsOK
<1>2. TemplatesOK(focus, templates') /\ Lower(focus, templates, templates')
  <2> SUFFICES ASSUME focus = "trials"
               PROVE  TemplatesOK(focus, templates') /\ Lower(focus, templates, templates')
    BY DEF TemplatesOK, Lower
  <2>1. TemplatesOK("trials", templates)
    BY DEF TrialInv, CallsOK
  <2>2. ASSUME NEW t \in DOMAIN templates, NEW r, DOMAIN templates' = DOMAIN templates,
               templates'[t] = r, \A u \in DOMAIN templates : u # t => templates'[u] = templates[u],
               {"low", "cooldown"} \subseteq DOMAIN r, r.low \in Nat, r.low <= templates[t].low,
               effective(r.cooldown) \in Nat, r.low <= effective(r.cooldown)
        PROVE  TemplatesOK("trials", templates') /\ Lower("trials", templates, templates')
    BY <2>1, <2>2 DEF TemplatesOK, Lower
  <2>3. PICK t \in DOMAIN templates :
          \/ \E par \in {Null} \cup DOMAIN templates : templates' = [templates EXCEPT ![t].parent = par]
          \/ \E terms \in Terms : templates' = [templates EXCEPT ![t] = withTerms(t, @.parent, terms, @.low)]
    BY DEF handleUpdateTemplate
  <2> DEFINE old == templates[t]
  <2>4. /\ {"low", "cooldown"} \subseteq DOMAIN old /\ old.low \in Nat
        /\ effective(old.cooldown) \in Nat /\ old.low <= effective(old.cooldown)
    BY <2>1 DEF TemplatesOK
  <2>5. CASE \E par \in {Null} \cup DOMAIN templates : templates' = [templates EXCEPT ![t].parent = par]
    <3>1. PICK par : templates' = [templates EXCEPT ![t].parent = par]
      BY <2>5
    <3> DEFINE r == [old EXCEPT !.parent = par]
    <3>2. {"low", "cooldown"} \subseteq DOMAIN r /\ r.low = old.low /\ r.cooldown = old.cooldown
      BY <2>4
    <3>3. /\ DOMAIN templates' = DOMAIN templates /\ templates'[t] = r
          /\ \A u \in DOMAIN templates : u # t => templates'[u] = templates[u]
      BY <3>1
    <3> HIDE DEF r
    <3> QED
      BY <2>2, <2>4, <3>2, <3>3
  <2>6. CASE \E terms \in Terms : templates' = [templates EXCEPT ![t] = withTerms(t, @.parent, terms, @.low)]
    <3>1. PICK terms \in Terms : templates' = [templates EXCEPT ![t] = withTerms(t, @.parent, terms, @.low)]
      BY <2>6
    <3> DEFINE r == withTerms(t, old.parent, terms, old.low)
    <3>2. /\ {"low", "cooldown"} \subseteq DOMAIN r /\ r.low \in Nat /\ r.low <= old.low
          /\ effective(r.cooldown) \in Nat /\ r.low <= effective(r.cooldown)
      BY <2>4, WithTerms
    <3>3. /\ DOMAIN templates' = DOMAIN templates /\ templates'[t] = r
          /\ \A u \in DOMAIN templates : u # t => templates'[u] = templates[u]
      BY <3>1
    <3> HIDE DEF r
    <3> QED
      BY <2>2, <3>2, <3>3
  <2> QED
    BY <2>3, <2>5, <2>6
<1>3. ASSUME NEW p \in Procs PROVE CallOK(call'[p], focus, templates', licenses, now)
  <2> DEFINE c == call[p]
             d == [c EXCEPT !.edits = @ + 1]
  <2>1. CallOK(c, focus, templates, licenses, now)
    BY DEF TrialInv, CallsOK
  <2>2. CallOK(c, focus, templates', licenses, now)
    BY <1>1, <1>2, <2>1, CallLater DEF TrialInv, CallsOK
  <2>3. CASE p \notin walking
    BY <1>1, <2>2, <2>3
  <2>4. CASE p \in walking
    <3>1. call'[p] = d /\ c.pc \in {"walk", "trial", "purge", "create"}
      BY <1>1, <2>4 DEF walking
    <3>2. \/ DOMAIN c = Fields
          \/ DOMAIN c = {"pc", "op", "leaf", "tpl", "edits"}
      BY <2>1, <3>1 DEF CallOK, TrialCall, OtherCall
    <3>3. /\ DOMAIN d = DOMAIN c /\ d.pc = c.pc /\ d.op = c.op /\ d.tpl = c.tpl /\ d.leaf = c.leaf
          /\ (DOMAIN c = Fields => d.fp = c.fp /\ d.found = c.found)
      BY <3>2 DEF Fields
    <3> HIDE DEF d
    <3>4. CASE focus = "trials"
      <4>1. TrialCall(c, templates', licenses, now)
        BY <2>2, <3>1, <3>4 DEF CallOK
      <4>2. TrialCall(d, templates', licenses, now)
        BY <3>3, <4>1 DEF TrialCall, cooldownOf
      <4> QED
        BY <3>1, <3>4, <4>2 DEF CallOK
    <3>5. CASE focus # "trials"
      <4>1. OtherCall(d)
        BY <2>1, <3>1, <3>3, <3>5 DEF CallOK, OtherCall, Fields
      <4> QED
        BY <3>1, <3>5, <4>1 DEF CallOK
    <3> QED
      BY <3>4, <3>5
  <2> QED
    BY <2>3, <2>4
<1>4. CallsOK'
  BY <1>1, <1>2, <1>3 DEF TrialInv, CallsOK
<1>5. TrialsOK'
  BY <1>1, <1>2, TrialsLater DEF TrialInv
<1> QED
  BY <1>4, <1>5 DEF TrialInv

LEMMA EnvironmentKeeps ==
    ASSUME TrialInv, handleCreateTemplate \/ rotateSigningKey \/ Tick \/ UNCHANGED issuanceVars
    PROVE  TrialInv'
<1>1. /\ UNCHANGED <<focus, licenses, trials, granted, call>>
      /\ now \in Nat /\ now' \in Nat /\ now <= now'
  <2>1. UNCHANGED <<focus, licenses, trials, granted, call>> /\ now' \in {now, now + 1}
    <3>1. CASE handleCreateTemplate
      BY <3>1, Zenon DEF handleCreateTemplate, trialVars
    <3>2. CASE rotateSigningKey \/ Tick \/ UNCHANGED issuanceVars
      BY <3>2 DEF rotateSigningKey, Tick, issuanceVars, catalogue, trialVars
    <3> QED
      BY <3>1, <3>2
  <2> QED
    BY <2>1 DEF TrialInv, CallsOK
<1>2. Lower(focus, templates, templates') /\ TemplatesOK(focus, templates')
  <2>1. CASE UNCHANGED templates
    BY <2>1, SameTemplates DEF TrialInv, CallsOK
  <2>2. CASE handleCreateTemplate
    <3>1. PICK t \in (IF focus = "templates" THEN TemplateIds ELSE {1}) \ DOMAIN templates,
               par \in {Null} \cup DOMAIN templates, terms \in Terms :
            /\ focus # "signers" /\ (focus = "templates" => walking = {})
            /\ \A u \in TemplateIds : u < t => u \in DOMAIN templates
            /\ templates' = [u \in {t} \cup DOMAIN templates |->
                 IF u # t THEN templates[u] ELSE withTerms(t, par, terms, effective(terms.cooldown))]
            /\ UNCHANGED <<focus, cap, now, licenses, trialVars, keyVars, fails, call>>
      BY <2>2, Zenon DEF handleCreateTemplate
    <3>2. \A u \in DOMAIN templates : u \in DOMAIN templates' /\ templates'[u] = templates[u]
      BY <3>1
    <3> DEFINE r == withTerms(t, par, terms, effective(terms.cooldown))
    <3>3. DOMAIN templates' = {t} \cup DOMAIN templates /\ templates'[t] = r /\ t \notin DOMAIN templates
      BY <3>1
    <3>4. focus = "trials" => /\ {"low", "cooldown"} \subseteq DOMAIN r /\ r.low \in Nat
                              /\ effective(r.cooldown) \in Nat /\ r.low <= effective(r.cooldown)
      <4>1. focus = "trials" => effective(terms.cooldown) \in Nat
        BY CooldownAssumption DEF Terms, effective
      <4> QED
        BY <4>1, WithTerms
    <3> HIDE DEF r
    <3>5. TemplatesOK(focus, templates')
      BY <3>2, <3>3, <3>4 DEF TrialInv, CallsOK, TemplatesOK
    <3>6. Lower(focus, templates, templates')
      BY <3>2 DEF TrialInv, CallsOK, TemplatesOK, Lower
    <3> QED
      BY <3>5, <3>6
  <2> QED
    BY <2>1, <2>2 DEF rotateSigningKey, Tick, issuanceVars, catalogue
<1>3. CallsOK'
  <2>1. \A p \in Procs : CallOK(call[p], focus, templates', licenses, now')
    BY <1>1, <1>2, CallLater DEF TrialInv, CallsOK
  <2> QED
    BY <1>1, <1>2, <2>1 DEF TrialInv, CallsOK
<1>4. TrialsOK'
  BY <1>1, <1>2, TrialsLater DEF TrialInv
<1> QED
  BY <1>3, <1>4 DEF TrialInv

\* The inductive invariant of the trials.
THEOREM TrialInvariant == Spec => []TrialInv
<1>1. Init => TrialInv
  <2> SUFFICES ASSUME Init PROVE TrialInv
    OBVIOUS
  <2>1. /\ now = 0 /\ trials = {} /\ granted = {} /\ DOMAIN templates = {}
        /\ DOMAIN call = Procs /\ \A p \in Procs : call[p].pc = "idle"
    BY DEF Init, idle
  <2>2. CallsOK
    BY <2>1 DEF CallsOK, TemplatesOK, CallOK, OtherCall
  <2>3. TrialsOK
    BY <2>1 DEF TrialsOK, GrantedTrialsSpaced, TrialRowsHaveLicense
  <2> QED
    BY <2>2, <2>3 DEF TrialInv
<1>2. TrialInv /\ [Next]_issuanceVars => TrialInv'
  BY EditKeeps, EnvironmentKeeps, IssueKeeps, ResolveKeeps, CheckTrialKeeps, PurgeKeeps,
     CreateLicenseKeeps, RecordKeeps, OtherCallsKeep DEF Next, Proceed
<1> QED
  BY <1>1, <1>2, PTL DEF Spec

\* Of two trials granted to one device on one template the later came a
\* cooldown after the earlier, the shortest the template has had, however many
\* calls raced, failed in between or purged each other's rows.
THEOREM TrialsAreSpaced == Spec => []GrantedTrialsSpaced
<1>1. TrialInv => GrantedTrialsSpaced
  BY DEF TrialInv, TrialsOK
<1> QED
  BY <1>1, TrialInvariant, PTL

\* No device is refused for a trial it never got: each row tells of a license.
THEOREM TrialRowsAreBacked == Spec => []TrialRowsHaveLicense
<1>1. TrialInv => TrialRowsHaveLicense
  BY DEF TrialInv, TrialsOK
<1> QED
  BY <1>1, TrialInvariant, PTL

----------------------------------------------------------------------------
(* The startup race for the first signing key.                             *)

KeyT == [n : Nat, scope : Scopes, role : {"root", "signing"}, alg : Algs,
         state : {"active", "retiring"}]

isLost(c) == "result" \in DOMAIN c /\ c.result = "lost"

signer(k) == k.role = "signing" /\ k.state = "active"
OneSigner(K) ==
    \A k, q \in K : signer(k) /\ signer(q) /\ k.scope = q.scope => k = q
HasSigner(K, s) == \E k \in K : signer(k) /\ k.scope = s

SignersInv ==
    /\ keys \subseteq KeyT /\ IsFiniteSet(keys)
    /\ \A k, q \in activeIn(Scopes) : k.scope = q.scope => k = q
    /\ \A p \in Procs : isLost(call[p]) => call[p].scope \in Scopes /\ HasSigner(keys, call[p].scope)

\* Only issueInitialSigningKey tells a call that it lost.
LEMMA EndedNotLost == ASSUME NEW r, r # "lost" PROVE ~isLost(ended(r))
BY DEF isLost, ended, idle

LEMMA BusyNotLost ==
    ASSUME TrialInv, NEW p \in Procs, call[p].pc # "idle"
    PROVE  "result" \notin DOMAIN call[p]
BY DEF TrialInv, CallsOK, CallOK, TrialCall, OtherCall, Fields

LEMMA LostStep ==
    ASSUME TrialInv, NEW p \in Procs,
           \/ issue(p) \/ createLicenseFromTemplate(p) \/ ensureSigningKey(p) \/ Proceed(p) \/ Fail(p),
           NEW q \in Procs, isLost(call'[q])
    PROVE  \/ isLost(call[q]) /\ call'[q] = call[q]
           \/ /\ issueInitialSigningKey(p) /\ keys' = keys /\ activeIn({call[p].scope}) # {}
              /\ call'[q].scope = call[p].scope
<1> DEFINE c == call[p]
<1>1. DOMAIN call = Procs
  BY DEF TrialInv, CallsOK
<1>2. ASSUME NEW rec, step(p, rec), ~isLost(rec) PROVE isLost(call[q]) /\ call'[q] = call[q]
  BY <1>1, <1>2, StepCall
<1>3. ASSUME NEW r, step(p, ended(r)), r # "lost" PROVE isLost(call[q]) /\ call'[q] = call[q]
  BY <1>2, <1>3, EndedNotLost
<1>4. c.pc # "idle" => "result" \notin DOMAIN c
  BY BusyNotLost
<1>5. CASE issue(p)
  <2>1. PICK t, fp : step(p, [pc |-> IF t = Null THEN "trial" ELSE "walk", op |-> "issue", fp |-> fp, tpl |-> t,
                    leaf |-> IF t = Null THEN Null ELSE templates[t], chain |-> <<>>,
                    cursor |-> IF t = Null THEN Null ELSE templates[t].parent,
                    found |-> Null, edits |-> 0])
    BY <1>5, Zenon DEF issue
  <2> DEFINE rec == [pc |-> IF t = Null THEN "trial" ELSE "walk", op |-> "issue", fp |-> fp, tpl |-> t,
                    leaf |-> IF t = Null THEN Null ELSE templates[t], chain |-> <<>>,
                    cursor |-> IF t = Null THEN Null ELSE templates[t].parent,
                    found |-> Null, edits |-> 0]
  <2>2. ~isLost(rec)
    BY DEF isLost
  <2> QED
    BY <1>2, <2>1, <2>2
<1>6. CASE createLicenseFromTemplate(p)
  <2>1. PICK t : step(p, [pc |-> "create", op |-> "template", leaf |-> templates[t], tpl |-> t, edits |-> 0])
    BY <1>6 DEF createLicenseFromTemplate
  <2>2. ~isLost([pc |-> "create", op |-> "template", leaf |-> templates[t], tpl |-> t, edits |-> 0])
    BY DEF isLost
  <2> QED
    BY <1>2, <2>1, <2>2
<1>7. CASE ensureSigningKey(p)
  <2>1. \E s, alg : step(p, [pc |-> "root", scope |-> s, alg |-> alg]) \/ step(p, ended("ok"))
    BY <1>7, Zenon DEF ensureSigningKey
  <2>2. \A s, alg : ~isLost([pc |-> "root", scope |-> s, alg |-> alg])
    BY DEF isLost
  <2> QED
    BY <1>2, <1>3, <2>1, <2>2
<1>8. CASE resolveTemplate(p)
  <2> DEFINE node == templates[c.cursor]
             up == [c EXCEPT !.chain = Append(@, node), !.cursor = node.parent]
             on == [c EXCEPT !.pc = IF c.fp = Null THEN "create" ELSE "trial"]
  <2>1. c.pc = "walk" /\ (step(p, up) \/ step(p, on))
    BY <1>8 DEF resolveTemplate
  <2>2. ~isLost(up) /\ ~isLost(on)
    BY <1>4, <2>1 DEF isLost
  <2> QED
    BY <1>2, <2>1, <2>2
<1>9. CASE checkTrial(p)
  <2> DEFINE found == CHOOSE r \in {r \in trials : r.tpl = c.tpl /\ r.fp = c.fp} : TRUE
             free == [c EXCEPT !.pc = "create"]
             stale == [c EXCEPT !.pc = "purge", !.found = found]
  <2>1. c.pc = "trial" /\ (step(p, free) \/ step(p, stale) \/ step(p, ended("TrialAlreadyIssued")))
    BY <1>9 DEF checkTrial
  <2> HIDE DEF found
  <2>2. ~isLost(free) /\ ~isLost(stale)
    BY <1>4, <2>1 DEF isLost
  <2> HIDE DEF free, stale
  <2> QED
    BY <1>2, <1>3, <2>1, <2>2
<1>10. CASE deleteTrialIssuance(p)
  <2>1. c.pc = "purge" /\ step(p, [c EXCEPT !.pc = "create"])
    BY <1>10 DEF deleteTrialIssuance
  <2>2. ~isLost([c EXCEPT !.pc = "create"])
    BY <1>4, <2>1 DEF isLost
  <2> QED
    BY <1>2, <2>1, <2>2
<1>11. CASE createLicense(p)
  <2>1. c.pc = "create" /\ (step(p, ended("ok")) \/ step(p, [c EXCEPT !.pc = "record"]))
    BY <1>11 DEF createLicense
  <2>2. ~isLost([c EXCEPT !.pc = "record"])
    BY <1>4, <2>1 DEF isLost
  <2> QED
    BY <1>2, <1>3, <2>1, <2>2
<1>12. CASE recordTrialIssuance(p)
  BY <1>3, <1>12 DEF recordTrialIssuance
<1>13. CASE createFromTemplate(p)
  <2>1. step(p, ended("check")) \/ step(p, ended("ok"))
    BY <1>13, Zenon DEF createFromTemplate
  <2> QED
    BY <1>3, <2>1
<1>14. CASE generateRootKey(p)
  <2>1. c.pc = "root" /\ step(p, [c EXCEPT !.pc = "signing"])
    BY <1>14 DEF generateRootKey
  <2>2. ~isLost([c EXCEPT !.pc = "signing"])
    BY <1>4, <2>1 DEF isLost
  <2> QED
    BY <1>2, <2>1, <2>2
<1>15. CASE issueInitialSigningKey(p)
  <2>1. CASE step(p, ended("ok"))
    BY <1>3, <2>1
  <2>2. CASE step(p, lostRace(c)) /\ UNCHANGED keyVars /\ activeIn({c.scope}) # {}
    <3>1. lostRace(c).scope = c.scope
      BY DEF lostRace
    <3>2. CASE q = p
      <4>1. call'[q] = lostRace(c)
        BY <1>1, <2>2, <3>2, StepCall
      <4> QED
        BY <1>15, <2>2, <3>1, <4>1 DEF keyVars
    <3>3. CASE q # p
      <4>1. call'[q] = call[q]
        BY <1>1, <2>2, <3>3, StepCall
      <4> QED
        BY <4>1
    <3> QED
      BY <3>2, <3>3
  <2> QED
    BY <1>15, <2>1, <2>2, Zenon DEF issueInitialSigningKey
<1>16. CASE Fail(p)
  BY <1>3, <1>16 DEF Fail
<1> QED
  BY <1>5, <1>6, <1>7, <1>8, <1>9, <1>10, <1>11, <1>12, <1>13, <1>14, <1>15, <1>16
     DEF Proceed

\* What a step does to the keys: nothing, a root more, the first signer of a
\* scope that has none, or one signer in the place of another.
KeysMove ==
    \/ UNCHANGED keys
    \/ \E s \in Scopes, alg \in Algs : keys' = keys \cup {addKey(s, "root", alg)}
    \/ \E s \in Scopes, alg \in Algs : activeIn({s}) = {} /\ keys' = keys \cup {addKey(s, "signing", alg)}
    \/ \E k \in activeIn(Scopes) :
         keys' = (keys \ {k}) \cup {[k EXCEPT !.state = "retiring"], addKey(k.scope, "signing", k.alg)}

LEMMA AddedKey ==
    ASSUME IsFiniteSet(keys), NEW s \in Scopes, NEW role \in {"root", "signing"}, NEW alg \in Algs
    PROVE  /\ addKey(s, role, alg) \in KeyT /\ addKey(s, role, alg).scope = s
           /\ addKey(s, role, alg).role = role /\ addKey(s, role, alg).state = "active"
<1>1. Cardinality(keys) \in Nat
  BY FS_CardinalityType
<1> QED
  BY <1>1 DEF addKey, KeyT

LEMMA ActiveIn ==
    ASSUME NEW S, NEW k
    PROVE  k \in activeIn(S) <=> /\ k \in keys /\ k.role = "signing"
                                 /\ k.state = "active" /\ k.scope \in S
BY DEF activeIn

LEMMA KeysMoveKeeps ==
    ASSUME keys \subseteq KeyT, IsFiniteSet(keys), OneSigner(keys), KeysMove
    PROVE  /\ keys' \subseteq KeyT /\ IsFiniteSet(keys') /\ OneSigner(keys')
           /\ \A x \in Scopes : activeIn({x}) # {} => activeIn({x})' # {}
<1>1. CASE UNCHANGED keys
  BY <1>1 DEF activeIn
<1>2. ASSUME NEW s \in Scopes, NEW role \in {"root", "signing"}, NEW alg \in Algs,
             keys' = keys \cup {addKey(s, role, alg)},
             role = "signing" => activeIn({s}) = {}
      PROVE  /\ keys' \subseteq KeyT /\ IsFiniteSet(keys') /\ OneSigner(keys')
             /\ \A x \in Scopes : activeIn({x}) # {} => activeIn({x})' # {}
  <2> DEFINE a == addKey(s, role, alg)
  <2>1. a \in KeyT /\ a.scope = s /\ a.role = role /\ a.state = "active"
    BY AddedKey
  <2> HIDE DEF a
  <2>2. keys' = keys \cup {a}
    BY <1>2 DEF a
  <2>3. IsFiniteSet(keys')
    BY <2>2, FS_AddElement
  <2>4. OneSigner(keys')
    BY <1>2, <2>1, <2>2, ActiveIn DEF OneSigner, signer
  <2>5. \A x \in Scopes : activeIn({x}) # {} => activeIn({x})' # {}
    <3>1. ASSUME NEW x, NEW k \in activeIn({x}) PROVE k \in activeIn({x})'
      BY <2>2, <3>1 DEF activeIn
    <3> QED
      BY <3>1
  <2> QED
    BY <2>1, <2>2, <2>3, <2>4, <2>5
<1>3. ASSUME NEW k \in activeIn(Scopes),
             keys' = (keys \ {k}) \cup {[k EXCEPT !.state = "retiring"], addKey(k.scope, "signing", k.alg)}
      PROVE  /\ keys' \subseteq KeyT /\ IsFiniteSet(keys') /\ OneSigner(keys')
             /\ \A x \in Scopes : activeIn({x}) # {} => activeIn({x})' # {}
  <2> DEFINE a == addKey(k.scope, "signing", k.alg)
             b == [k EXCEPT !.state = "retiring"]
  <2>1. k \in keys /\ k \in KeyT /\ k.scope \in Scopes /\ k.role = "signing" /\ k.state = "active"
        /\ k.alg \in Algs
    BY <1>3 DEF activeIn, KeyT
  <2>2. a \in KeyT /\ a.scope = k.scope /\ a.role = "signing" /\ a.state = "active"
    BY <2>1, AddedKey
  <2>3. b \in KeyT /\ b.state = "retiring"
    BY <2>1 DEF KeyT
  <2> HIDE DEF a, b
  <2>4. keys' = (keys \ {k}) \cup {b, a}
    BY <1>3 DEF a, b
  <2>5. IsFiniteSet(keys')
    <3>1. IsFiniteSet(keys \ {k})
      BY FS_RemoveElement
    <3>2. IsFiniteSet((keys \ {k}) \cup {b})
      BY <3>1, FS_AddElement
    <3>3. IsFiniteSet(((keys \ {k}) \cup {b}) \cup {a})
      BY <3>2, FS_AddElement
    <3>4. keys' = ((keys \ {k}) \cup {b}) \cup {a}
      BY <2>4
    <3> QED
      BY <3>3, <3>4
  <2>6. OneSigner(keys')
    BY <2>1, <2>2, <2>3, <2>4 DEF OneSigner, signer
  <2>7. ASSUME NEW x \in Scopes, activeIn({x}) # {} PROVE activeIn({x})' # {}
    <3>1. CASE x = k.scope
      <4>1. a \in activeIn({x})'
        BY <2>1, <2>2, <2>4, <3>1 DEF activeIn
      <4> QED
        BY <4>1
    <3>2. ASSUME x # k.scope, NEW q \in activeIn({x}) PROVE q \in activeIn({x})'
      BY <2>1, <2>4, <3>2 DEF activeIn
    <3> QED
      BY <2>7, <3>1, <3>2
  <2> QED
    BY <2>2, <2>3, <2>4, <2>5, <2>6, <2>7
<1> QED
  BY <1>1, <1>2, <1>3 DEF KeysMove

LEMMA NextMovesKeys ==
    ASSUME TrialInv, [Next]_issuanceVars
    PROVE  KeysMove
<1>1. ASSUME NEW p \in Procs, generateRootKey(p) \/ issueInitialSigningKey(p) PROVE KeysMove
  <2>1. call[p].scope \in Scopes /\ call[p].alg \in Algs
    BY <1>1 DEF TrialInv, CallsOK, CallOK, TrialCall, OtherCall, generateRootKey,
       issueInitialSigningKey
  <2> QED
    BY <1>1, <2>1, Zenon DEF generateRootKey, issueInitialSigningKey, KeysMove, keyVars
<1>2. CASE rotateSigningKey
  BY <1>2 DEF rotateSigningKey, KeysMove
<1>3. CASE \E p \in Procs : \/ issue(p) \/ createLicenseFromTemplate(p) \/ ensureSigningKey(p)
                            \/ Fail(p) \/ resolveTemplate(p) \/ checkTrial(p)
                            \/ deleteTrialIssuance(p) \/ createLicense(p)
                            \/ recordTrialIssuance(p) \/ createFromTemplate(p)
  <2>1. UNCHANGED keys
    BY <1>3, Zenon DEF issue, createLicenseFromTemplate, ensureSigningKey, Fail, resolveTemplate,
       checkTrial, deleteTrialIssuance, createLicense, recordTrialIssuance,
       createFromTemplate, keyVars
  <2> QED
    BY <2>1 DEF KeysMove
<1>4. CASE Tick \/ handleCreateTemplate \/ handleUpdateTemplate \/ UNCHANGED issuanceVars
  <2>1. UNCHANGED keys
    BY <1>4, Zenon DEF Tick, handleCreateTemplate, handleUpdateTemplate, issuanceVars, keyVars
  <2> QED
    BY <2>1 DEF KeysMove
<1> QED
  BY <1>1, <1>2, <1>3, <1>4 DEF Next, Proceed

LEMMA SignersStep ==
    ASSUME TrialInv, SignersInv, [Next]_issuanceVars
    PROVE  SignersInv'
<1>1. OneSigner(keys)
  BY DEF SignersInv, OneSigner, signer, activeIn, KeyT
<1>2. /\ keys' \subseteq KeyT /\ IsFiniteSet(keys') /\ OneSigner(keys')
      /\ \A x \in Scopes : HasSigner(keys, x) => HasSigner(keys', x)
  <2>1. /\ keys' \subseteq KeyT /\ IsFiniteSet(keys') /\ OneSigner(keys')
        /\ \A x \in Scopes : activeIn({x}) # {} => activeIn({x})' # {}
    BY <1>1, NextMovesKeys, KeysMoveKeeps DEF SignersInv
  <2>2. \A x : HasSigner(keys, x) <=> activeIn({x}) # {}
    BY DEF HasSigner, signer, activeIn
  <2>3. \A x : HasSigner(keys', x) <=> activeIn({x})' # {}
    BY DEF HasSigner, signer, activeIn
  <2> QED
    BY <2>1, <2>2, <2>3
<1>3. \A k, q \in activeIn(Scopes)' : k.scope = q.scope => k = q
  BY <1>2 DEF OneSigner, signer, activeIn
<1>4. ASSUME NEW q \in Procs, isLost(call'[q])
      PROVE  call'[q].scope \in Scopes /\ HasSigner(keys', call'[q].scope)
  <2>1. ASSUME isLost(call[q]), call'[q] = call[q]
        PROVE  call'[q].scope \in Scopes /\ HasSigner(keys', call'[q].scope)
    <3>1. call[q].scope \in Scopes /\ HasSigner(keys, call[q].scope)
      BY <2>1 DEF SignersInv
    <3> QED
      BY <1>2, <2>1, <3>1
  <2>2. CASE \E p \in Procs : \/ issue(p) \/ createLicenseFromTemplate(p)
                              \/ ensureSigningKey(p) \/ Proceed(p) \/ Fail(p)
    <3>1. PICK p \in Procs : \/ issue(p) \/ createLicenseFromTemplate(p)
                             \/ ensureSigningKey(p) \/ Proceed(p) \/ Fail(p)
      BY <2>2
    <3>2. CASE /\ issueInitialSigningKey(p) /\ keys' = keys /\ activeIn({call[p].scope}) # {}
               /\ call'[q].scope = call[p].scope
      <4>1. call[p].scope \in Scopes
        BY <3>2 DEF TrialInv, CallsOK, CallOK, TrialCall, OtherCall, issueInitialSigningKey
      <4> QED
        BY <3>2, <4>1 DEF activeIn, HasSigner, signer
    <3> QED
      BY <1>4, <2>1, <3>1, <3>2, LostStep
  <2>3. CASE Tick \/ rotateSigningKey \/ handleCreateTemplate \/ UNCHANGED issuanceVars
    <3>1. UNCHANGED call
      BY <2>3, Zenon DEF Tick, rotateSigningKey, handleCreateTemplate, issuanceVars
    <3> QED
      BY <1>4, <2>1, <3>1
  <2>4. CASE handleUpdateTemplate
    <3>1. call'[q] = IF q \in walking THEN [call[q] EXCEPT !.edits = @ + 1] ELSE call[q]
      BY <2>4 DEF handleUpdateTemplate, edit
    <3>2. CASE q \in walking
      <4>1. "result" \notin DOMAIN call[q]
        BY <3>2, BusyNotLost DEF walking
      <4> QED
        BY <1>4, <3>1, <3>2, <4>1 DEF isLost
    <3> QED
      BY <1>4, <2>1, <3>1, <3>2
  <2> QED
    BY <2>2, <2>3, <2>4 DEF Next
<1> QED
  BY <1>2, <1>3, <1>4 DEF SignersInv

\* Issuers that start together on a shared database, beside rotations and
\* failing storage, leave one active signer per scope; whoever is told that it
\* lost finds the scope's signer at its next attempt, unless that signer is of
\* another algorithm.
THEOREM StartupRaceLeavesOneSigner == Spec => []StartupRaceSettles
<1>1. Init => SignersInv
  <2> SUFFICES ASSUME Init PROVE SignersInv
    OBVIOUS
  <2>1. keys = {} /\ \A p \in Procs : ~isLost(call[p])
    BY DEF Init, idle, isLost
  <2> QED
    BY <2>1, FS_EmptySet DEF SignersInv, activeIn
<1>2. TrialInv /\ SignersInv /\ [Next]_issuanceVars => SignersInv'
  BY SignersStep
<1>3. SignersInv => StartupRaceSettles
  <2> SUFFICES ASSUME SignersInv PROVE StartupRaceSettles
    OBVIOUS
  <2>1. ASSUME NEW s \in Scopes PROVE Cardinality(activeIn({s})) <= 1
    <3>1. CASE activeIn({s}) = {}
      BY <3>1, FS_EmptySet
    <3>2. ASSUME NEW k \in activeIn({s}) PROVE Cardinality(activeIn({s})) <= 1
      <4>1. activeIn({s}) = {k}
        BY <3>2 DEF SignersInv, activeIn
      <4> QED
        BY <4>1, FS_Singleton
    <3> QED
      BY <3>1, <3>2
  <2>2. ASSUME NEW p \in lost
        PROVE  \E k \in activeIn({call[p].scope}) :
                   k.alg = call[p].alg => k \in listed(call[p].scope, call[p].alg)
    <3>1. PICK k \in activeIn({call[p].scope}) : TRUE
      BY <2>2 DEF lost, isLost, SignersInv, HasSigner, signer, activeIn
    <3>2. call[p].scope \in Scopes
      BY <2>2 DEF lost, isLost, SignersInv
    <3> QED
      BY <3>1, <3>2 DEF listed, activeIn
  <2> QED
    BY <2>1, <2>2 DEF StartupRaceSettles
<1> QED
  BY <1>1, <1>2, <1>3, TrialInvariant, PTL DEF Spec

-----------------------------------------------------------------------------
(* Induction over data, as statements about sets of naturals.               *)

\* Every nonempty set of naturals has a least element.
LEMMA LeastNatural ==
    ASSUME NEW T, T \subseteq Nat, T # {}
    PROVE  \E n \in T : \A m \in T : n <= m
  <1> DEFINE R == OpToRel(<, Nat)
  <1>1. IsWellFoundedOn(R, Nat)
    BY NatLessThanWellFounded
  <1>2. \A x, y \in Nat : <<y, x>> \in R <=> y < x
    BY DEF OpToRel
  <1> HIDE DEF R
  <1>3. PICK x \in T : \A y \in T : ~ (<<y, x>> \in R)
    BY <1>1, WFMin
  <1>4. \A y \in T : ~(y < x)
    BY <1>2, <1>3
  <1>5. \A y \in T : x <= y
    BY <1>4
  <1> QED
    BY <1>5

\* Induction, as a statement about sets.
LEMMA SetInduction ==
    ASSUME NEW T, T \subseteq Nat, 0 \in T, \A n \in T : n + 1 \in T
    PROVE  T = Nat
  <1> SUFFICES ASSUME Nat \ T # {} PROVE FALSE
    OBVIOUS
  <1>1. PICK n \in Nat \ T : \A m \in Nat \ T : n <= m
    BY LeastNatural
  <1>2. n # 0 /\ n - 1 \in Nat
    BY <1>1
  <1>3. n - 1 \in T
    BY <1>1, <1>2
  <1> QED
    BY <1>1, <1>2, <1>3

-----------------------------------------------------------------------------
(* Merging.  What the templates from generation j on give together.          *)

\* inherited, of the generations from j on.
Has(g, j, k) == {i \in j..Len(g) : k \in DOMAIN g[i]}
ObjectsAt(g, j, k) == {i \in Has(g, j, k) : \A m \in Has(g, j, k) : m <= i => g[m][k].obj}
Deeper(g, j, k) == UNION {DOMAIN g[i][k].v : i \in ObjectsAt(g, j, k)}
From(g, j, k, s) == closest({i \in ObjectsAt(g, j, k) : s \in DOMAIN g[i][k].v})
Value(g, j, k) ==
    IF ~g[closest(Has(g, j, k))][k].obj THEN g[closest(Has(g, j, k))][k]
    ELSE object([s \in Deeper(g, j, k) |-> g[From(g, j, k, s)][k].v[s]])
Keys(g, j) == UNION {DOMAIN g[i] : i \in j..Len(g)}
Given(g, j) == [k \in Keys(g, j) |-> Value(g, j, k)]

LEMMA ClosestIsLeast ==
    ASSUME NEW S, S \subseteq Nat, S # {}
    PROVE  closest(S) \in S /\ \A i \in S : closest(S) <= i
  BY LeastNatural DEF closest

LEMMA ClosestIs ==
    ASSUME NEW S, S \subseteq Nat, NEW i \in S, \A j \in S : i <= j
    PROVE  closest(S) = i
  <1>1. closest(S) \in S /\ \A j \in S : closest(S) <= j
    BY ClosestIsLeast
  <1> DEFINE c == closest(S)
  <1>2. c \in Nat /\ i \in Nat /\ c <= i /\ i <= c
    BY <1>1
  <1> HIDE DEF c
  <1> QED
    BY <1>2 DEF c

LEMMA InheritedIsGiven ==
    ASSUME NEW g, DOMAIN g = 1..Len(g)
    PROVE  inherited(g) = Given(g, 1)
  <1> DEFINE has(k) == {i \in DOMAIN g : k \in DOMAIN g[i]}
             objects(k) == {i \in has(k) : \A j \in has(k) : j <= i => g[j][k].obj}
             deeper(k) == UNION {DOMAIN g[i][k].v : i \in objects(k)}
             from(k, s) == closest({i \in objects(k) : s \in DOMAIN g[i][k].v})
             top(k) == g[closest(has(k))][k]
             all == UNION {DOMAIN g[i] : i \in DOMAIN g}
  <1>1. \A k : has(k) = Has(g, 1, k)
    BY DEF Has
  <1>2. \A k : objects(k) = ObjectsAt(g, 1, k)
    BY <1>1, Zenon DEF ObjectsAt
  <1>3. \A k : deeper(k) = Deeper(g, 1, k)
    BY <1>2, Zenon DEF Deeper
  <1>4. \A k, s : from(k, s) = From(g, 1, k, s)
    BY <1>2, Zenon DEF From
  <1>5. all = Keys(g, 1)
    BY DEF Keys
  <1>6. inherited(g) = [k \in all |->
            IF ~top(k).obj THEN top(k)
            ELSE object([s \in deeper(k) |-> g[from(k, s)][k].v[s]])]
    BY Zenon DEF inherited
  <1>7. \A k : top(k) = g[closest(Has(g, 1, k))][k]
    BY <1>1, Zenon
  <1> HIDE DEF has, objects, deeper, from, top, all
  <1>8. ASSUME NEW k PROVE [s \in deeper(k) |-> g[from(k, s)][k].v[s]] = [s \in Deeper(g, 1, k) |-> g[From(g, 1, k, s)][k].v[s]]
    BY <1>3, <1>4, Zenon
  <1>9. ASSUME NEW k PROVE (IF ~top(k).obj THEN top(k) ELSE object([s \in deeper(k) |-> g[from(k, s)][k].v[s]])) = Value(g, 1, k)
    BY <1>7, <1>8, Zenon DEF Value
  <1> QED
    BY <1>5, <1>6, <1>9, Zenon DEF Given

\* Objects of the model, and what a generation is.
Generations(g, n) ==
    /\ n \in Nat /\ Len(g) = n /\ \A i \in 1..n : JSONObject(g[i])

LEMMA Entry ==
    ASSUME NEW e, JSONObject(e), NEW k \in DOMAIN e
    PROVE  /\ e[k].obj \in BOOLEAN
           /\ e[k].obj => e[k] = object([s \in DOMAIN e[k].v |-> e[k].v[s]])
  <1> DEFINE r == e[k]
             o == [s \in DOMAIN r.v |-> r.v[s]]
  <1>1. r = prim(r.v) \/ r = object(o)
    BY DEF JSONObject
  <1> HIDE DEF r, o
  <1>2. CASE r = prim(r.v)
    <2>1. r.obj = FALSE
      BY <1>2 DEF prim
    <2> QED
      BY <2>1 DEF r
  <1>3. CASE r = object(o)
    <2>1. r.obj = TRUE
      BY <1>3 DEF object
    <2> QED
      BY <1>3, <2>1 DEF r, o
  <1> QED
    BY <1>1, <1>2, <1>3

LEMMA Unobstructed ==
    ASSUME NEW g, NEW n, Generations(g, n), NEW j \in 1..n, NEW k, k \notin DOMAIN g[j]
    PROVE  Has(g, j, k) = Has(g, j + 1, k)
  BY DEF Has, Generations

LEMMA Obstructed ==
    ASSUME NEW g, NEW n, Generations(g, n), NEW j \in 1..n, NEW k, k \in DOMAIN g[j]
    PROVE  /\ Has(g, j, k) = {j} \cup Has(g, j + 1, k)
           /\ Has(g, j + 1, k) \subseteq Nat /\ \A i \in Has(g, j + 1, k) : j < i
           /\ closest(Has(g, j, k)) = j
  <1>1. Has(g, j, k) = {j} \cup Has(g, j + 1, k)
    BY DEF Has, Generations
  <1>2. Has(g, j + 1, k) \subseteq Nat /\ \A i \in Has(g, j + 1, k) : j < i
    BY DEF Has, Generations
  <1>3. Has(g, j, k) \subseteq Nat /\ j \in Has(g, j, k) /\ \A i \in Has(g, j, k) : j <= i
    BY <1>1, <1>2
  <1> QED
    BY <1>1, <1>2, <1>3, ClosestIs

\* Nothing merges with an object that is alone, or above which is a primitive.
LEMMA ObjectReplaces ==
    ASSUME NEW g, NEW n, Generations(g, n), NEW j \in 1..n, NEW k, k \in DOMAIN g[j], g[j][k].obj,
           Has(g, j + 1, k) = {} \/ ~g[closest(Has(g, j + 1, k))][k].obj
    PROVE  Value(g, j, k) = g[j][k]
  <1> DEFINE H == Has(g, j + 1, k)
  <1>1. /\ Has(g, j, k) = {j} \cup H /\ H \subseteq Nat
        /\ \A i \in H : j < i
        /\ closest(Has(g, j, k)) = j
    BY Obstructed
  <1>2. H # {} => closest(H) \in H /\ \A i \in H : closest(H) <= i
    BY <1>1, ClosestIsLeast
  <1>3. ObjectsAt(g, j, k) = {j}
    <2> HIDE DEF H
    <2>1. j \in ObjectsAt(g, j, k)
      <3>1. ASSUME NEW m \in Has(g, j, k), m <= j PROVE m = j
        <4>1. m \in H => j < m /\ m \in Nat
          BY <1>1
        <4> QED
          BY <1>1, <3>1, <4>1
      <3> QED
        BY <1>1, <3>1 DEF ObjectsAt
    <2>2. ASSUME NEW i \in ObjectsAt(g, j, k), i # j PROVE FALSE
      <3>1. i \in H /\ \A m \in Has(g, j, k) : m <= i => g[m][k].obj
        BY <1>1, <2>2 DEF ObjectsAt
      <3>2. closest(H) \in Has(g, j, k) /\ closest(H) <= i /\ ~g[closest(H)][k].obj
        BY <1>1, <1>2, <3>1 DEF H
      <3> QED
        BY <3>1, <3>2
    <2> QED
      BY <2>1, <2>2
  <1>4. Deeper(g, j, k) = DOMAIN g[j][k].v
    BY <1>3 DEF Deeper
  <1>5. ASSUME NEW s \in Deeper(g, j, k) PROVE From(g, j, k, s) = j
    <2>1. {i \in ObjectsAt(g, j, k) : s \in DOMAIN g[i][k].v} = {j}
      BY <1>3, <1>4, <1>5
    <2>2. closest({j}) = j
      BY ClosestIs
    <2> QED
      BY <2>1, <2>2 DEF From
  <1>6. g[j][k] = object([s \in DOMAIN g[j][k].v |-> g[j][k].v[s]])
    BY Entry DEF Generations
  <1>7. [s \in Deeper(g, j, k) |-> g[From(g, j, k, s)][k].v[s]] = [s \in DOMAIN g[j][k].v |-> g[j][k].v[s]]
    BY <1>4, <1>5
  <1>8. Value(g, j, k) = object([s \in Deeper(g, j, k) |-> g[From(g, j, k, s)][k].v[s]])
    BY <1>1 DEF Value
  <1> QED
    BY <1>6, <1>7, <1>8

\* An object below an object adds to it and wins.
LEMMA ObjectMerges ==
    ASSUME NEW g, NEW n, Generations(g, n), NEW j \in 1..n, NEW k, k \in DOMAIN g[j], g[j][k].obj,
           Has(g, j + 1, k) # {}, g[closest(Has(g, j + 1, k))][k].obj
    PROVE  Value(g, j, k) = object(overlaid(Value(g, j + 1, k).v, g[j][k].v))
  <1> DEFINE H == Has(g, j + 1, k)
             O == ObjectsAt(g, j + 1, k)
             v(i) == g[i][k].v
  <1>1. /\ Has(g, j, k) = {j} \cup H /\ H \subseteq Nat
        /\ \A i \in H : j < i
        /\ closest(Has(g, j, k)) = j
    BY Obstructed
  <1>2. ObjectsAt(g, j, k) = {j} \cup O
    <2> HIDE DEF H
    <2>0. O = {i \in H : \A m \in H : m <= i => g[m][k].obj}
      BY DEF H, ObjectsAt
    <2>1. j \in ObjectsAt(g, j, k)
      <3>1. ASSUME NEW m \in Has(g, j, k), m <= j PROVE m = j
        <4>1. m \in H => j < m /\ m \in Nat
          BY <1>1
        <4> QED
          BY <1>1, <3>1, <4>1
      <3> QED
        BY <1>1, <3>1 DEF ObjectsAt
    <2>2. ASSUME NEW i \in O PROVE i \in ObjectsAt(g, j, k)
      BY <1>1, <2>0, <2>2 DEF ObjectsAt
    <2>3. ASSUME NEW i \in ObjectsAt(g, j, k), i # j PROVE i \in O
      BY <1>1, <2>0, <2>3 DEF ObjectsAt
    <2> HIDE DEF O
    <2> QED
      BY <2>1, <2>2, <2>3
  <1>3. O \subseteq Nat /\ \A i \in O : j < i
    BY <1>1 DEF ObjectsAt
  <1> HIDE DEF O
  <1>4. Deeper(g, j, k) = DOMAIN v(j) \cup Deeper(g, j + 1, k)
    <2>1. Deeper(g, j, k) = UNION {DOMAIN v(i) : i \in {j} \cup O}
      BY <1>2 DEF Deeper
    <2>2. Deeper(g, j + 1, k) = UNION {DOMAIN v(i) : i \in O}
      BY DEF Deeper, O
    <2> HIDE DEF v
    <2> QED
      BY <2>1, <2>2
  <1>5. ASSUME NEW s \in DOMAIN v(j) PROVE From(g, j, k, s) = j
    <2> DEFINE S == {i \in ObjectsAt(g, j, k) : s \in DOMAIN g[i][k].v}
    <2>0. S \subseteq {j} \cup O /\ j \in S
      BY <1>2, <1>5
    <2>2. From(g, j, k, s) = closest(S)
      BY DEF From
    <2> HIDE DEF S
    <2>1. S \subseteq Nat /\ j \in S /\ \A i \in S : j <= i
      BY <1>3, <2>0
    <2> QED
      BY <2>1, <2>2, ClosestIs
  <1>6. ASSUME NEW s, s \notin DOMAIN v(j) PROVE From(g, j, k, s) = From(g, j + 1, k, s)
    <2>1. {i \in ObjectsAt(g, j, k) : s \in DOMAIN g[i][k].v} = {i \in O : s \in DOMAIN g[i][k].v}
      BY <1>2, <1>6
    <2> QED
      BY <2>1 DEF From, O
  <1> DEFINE a == [s \in Deeper(g, j, k) |-> g[From(g, j, k, s)][k].v[s]]
             b == [s \in Deeper(g, j + 1, k) |-> g[From(g, j + 1, k, s)][k].v[s]]
  <1>7. Value(g, j, k) = object(a)
    BY <1>1 DEF Value
  <1>8. Value(g, j + 1, k) = object(b)
    BY DEF Value
  <1>9. Value(g, j + 1, k).v = b
    BY <1>8 DEF object
  <1>10. a = overlaid(b, v(j))
    <2>1. overlaid(b, v(j)) = [s \in Deeper(g, j + 1, k) \cup DOMAIN v(j) |->
                                 IF s \in DOMAIN v(j) THEN v(j)[s] ELSE b[s]]
      BY DEF overlaid
    <2>2. ASSUME NEW s \in Deeper(g, j, k)
          PROVE  g[From(g, j, k, s)][k].v[s] = IF s \in DOMAIN v(j) THEN v(j)[s] ELSE b[s]
      <3>1. CASE s \in DOMAIN v(j)
        BY <1>5, <3>1
      <3>2. CASE s \notin DOMAIN v(j)
        <4>1. s \in Deeper(g, j + 1, k)
          BY <1>4, <2>2, <3>2
        <4> QED
          BY <1>6, <3>2, <4>1
      <3> QED
        BY <3>1, <3>2
    <2> HIDE DEF v
    <2> QED
      BY <1>4, <2>1, <2>2
  <1> HIDE DEF a, b
  <1> QED
    BY <1>7, <1>9, <1>10

\* One turn of the merge loop.
LEMMA MergeStep ==
    ASSUME NEW g, NEW n, Generations(g, n), NEW j \in 1..n
    PROVE  deepMergeJson(Given(g, j + 1), g[j]) = Given(g, j)
  <1> DEFINE M == deepMergeJson(Given(g, j + 1), g[j])
  <1>1. Keys(g, j) = Keys(g, j + 1) \cup DOMAIN g[j]
    BY DEF Keys, Generations
  <1>2. DOMAIN Given(g, j + 1) = Keys(g, j + 1) /\ \A k \in Keys(g, j + 1) : Given(g, j + 1)[k] = Value(g, j + 1, k)
    BY DEF Given
  <1>3. \A k : k \in Keys(g, j + 1) <=> Has(g, j + 1, k) # {}
    BY DEF Keys, Has
  <1>4. ASSUME NEW k \in Keys(g, j)
        PROVE  Value(g, j, k) =
                 IF k \notin DOMAIN g[j] THEN Given(g, j + 1)[k]
                 ELSE IF k \in Keys(g, j + 1) /\ Given(g, j + 1)[k].obj /\ g[j][k].obj
                      THEN object(overlaid(Given(g, j + 1)[k].v, g[j][k].v))
                      ELSE g[j][k]
    <2>1. CASE k \notin DOMAIN g[j]
      <3>1. Has(g, j, k) = Has(g, j + 1, k)
        BY <2>1, Unobstructed
      <3>2. Value(g, j, k) = Value(g, j + 1, k)
        BY <3>1, Zenon DEF Value, Deeper, From, ObjectsAt
      <3>3. k \in Keys(g, j + 1)
        BY <1>1, <1>4, <2>1
      <3> QED
        BY <1>2, <2>1, <3>2, <3>3
    <2>2. CASE k \in DOMAIN g[j] /\ ~g[j][k].obj
      <3>1. closest(Has(g, j, k)) = j
        BY <2>2, Obstructed
      <3> QED
        BY <2>2, <3>1 DEF Value
    <2> DEFINE H == Has(g, j + 1, k)
               top == g[closest(H)][k]
    <2>3. H # {} => closest(H) \in H /\ closest(H) \in 1..n /\ k \in DOMAIN g[closest(H)]
      <3>1. H \subseteq Nat
        BY DEF Has, Generations
      <3>2. H # {} => closest(H) \in H
        BY <3>1, ClosestIsLeast
      <3> QED
        BY <3>2 DEF Has, Generations
    <2>4. H # {} => (Value(g, j + 1, k).obj <=> top.obj)
      <3> SUFFICES ASSUME H # {} PROVE Value(g, j + 1, k).obj <=> top.obj
        OBVIOUS
      <3>1. JSONObject(g[closest(H)])
        BY <2>3 DEF Generations
      <3>2. top.obj \in BOOLEAN
        BY <2>3, <3>1, Entry
      <3>3. CASE top.obj
        BY <3>3 DEF Value, object
      <3>4. CASE ~top.obj
        <4>1. Value(g, j + 1, k) = top
          BY <3>4 DEF Value
        <4> QED
          BY <3>4, <4>1
      <3> QED
        BY <3>2, <3>3, <3>4
    <2>5. CASE k \in DOMAIN g[j] /\ g[j][k].obj /\ (H = {} \/ ~top.obj)
      <3>1. Value(g, j, k) = g[j][k]
        BY <2>5, ObjectReplaces
      <3>2. ~(k \in Keys(g, j + 1) /\ Given(g, j + 1)[k].obj)
        BY <1>2, <1>3, <2>4, <2>5
      <3> HIDE DEF H, top
      <3> QED
        BY <2>5, <3>1, <3>2
    <2>6. CASE k \in DOMAIN g[j] /\ g[j][k].obj /\ H # {} /\ top.obj
      <3>1. Value(g, j, k) = object(overlaid(Value(g, j + 1, k).v, g[j][k].v))
        BY <2>6, ObjectMerges
      <3>2. k \in Keys(g, j + 1) /\ Given(g, j + 1)[k] = Value(g, j + 1, k) /\ Given(g, j + 1)[k].obj
        BY <1>2, <1>3, <2>4, <2>6
      <3> HIDE DEF H, top
      <3> QED
        BY <2>6, <3>1, <3>2
    <2> HIDE DEF H, top
    <2> QED
      BY <2>1, <2>2, <2>5, <2>6
  <1>5. M = [k \in Keys(g, j + 1) \cup DOMAIN g[j] |->
               IF k \notin DOMAIN g[j] THEN Given(g, j + 1)[k]
               ELSE IF k \in Keys(g, j + 1) /\ Given(g, j + 1)[k].obj /\ g[j][k].obj
                    THEN object(overlaid(Given(g, j + 1)[k].v, g[j][k].v))
                    ELSE g[j][k]]
    BY <1>2, Zenon DEF deepMergeJson
  <1> HIDE DEF M
  <1> QED
    BY <1>1, <1>4, <1>5, Zenon DEF Given, M

\* The loop of resolvedEntitlements, n turns of it.
Merged(chain, n, h) ==
    h = [m \in 0..n |-> IF m = 0 THEN [k \in {} |-> Null]
                        ELSE deepMergeJson(h[m - 1], chain[(Len(chain) + 1) - m].ents)]

LEMMA MergedStart ==
    ASSUME NEW chain, NEW n \in Nat, NEW h, Merged(chain, n, h)
    PROVE  h[0] = [k \in {} |-> Null]
  BY DEF Merged

LEMMA MergedTurn ==
    ASSUME NEW chain, NEW n \in Nat, NEW h, Merged(chain, n, h), NEW m \in Nat, m < n, NEW L \in Nat, Len(chain) = L
    PROVE  h[m + 1] = deepMergeJson(h[m], chain[(L + 1) - (m + 1)].ents)
  <1> DEFINE e(i) == chain[(L + 1) - i].ents
             none == [k \in {} |-> Null]
  <1>1. h = [i \in 0..n |-> IF i = 0 THEN none ELSE deepMergeJson(h[i - 1], e(i))]
    BY DEF Merged
  <1> HIDE DEF e, none
  <1>2. \A i \in 0..n : h[i] = IF i = 0 THEN none ELSE deepMergeJson(h[i - 1], e(i))
    BY <1>1
  <1>3. m + 1 \in 0..n /\ m + 1 # 0 /\ (m + 1) - 1 = m
    OBVIOUS
  <1>4. h[m + 1] = deepMergeJson(h[m], e(m + 1))
    BY <1>2, <1>3
  <1> QED
    BY <1>4 DEF e

LEMMA MergedExtends ==
    ASSUME NEW chain, NEW n \in Nat, NEW h, Merged(chain, n, h)
    PROVE  \E f : Merged(chain, n + 1, f)
  <1> DEFINE e(m) == chain[(Len(chain) + 1) - m].ents
             none == [k \in {} |-> Null]
             f == [m \in 0..(n + 1) |-> IF m = n + 1 THEN deepMergeJson(h[n], e(n + 1)) ELSE h[m]]
  <1>1. h = [m \in 0..n |-> IF m = 0 THEN none ELSE deepMergeJson(h[m - 1], e(m))]
    BY DEF Merged
  <1> HIDE DEF e, none
  <1>2. \A m \in 0..n : h[m] = IF m = 0 THEN none ELSE deepMergeJson(h[m - 1], e(m))
    BY <1>1
  <1>3. \A m \in 0..(n + 1) : f[m] = IF m = 0 THEN none ELSE deepMergeJson(f[m - 1], e(m))
    BY <1>2
  <1>4. f = [m \in 0..(n + 1) |-> IF m = 0 THEN none ELSE deepMergeJson(f[m - 1], e(m))]
    BY <1>3
  <1> HIDE DEF f
  <1>5. Merged(chain, n + 1, f)
    BY <1>4 DEF Merged, e, none
  <1> QED
    BY <1>5

LEMMA MergedExists ==
    ASSUME NEW chain
    PROVE  \A n \in Nat : \E h : Merged(chain, n, h)
  <1> DEFINE T == {n \in Nat : \E h : Merged(chain, n, h)}
  <1>1. 0 \in T
    <2> DEFINE h == [m \in 0..0 |-> [k \in {} |-> Null]]
    <2>1. Merged(chain, 0, h)
      BY DEF Merged
    <2> QED
      BY <2>1
  <1>2. ASSUME NEW n \in T PROVE n + 1 \in T
    BY MergedExtends
  <1> HIDE DEF T
  <1>3. T = Nat
    BY <1>1, <1>2, SetInduction DEF T
  <1> QED
    BY <1>3 DEF T

\* Merging root to leaf gives each key what `inherited` says, whatever the
\* number of ancestors.
LEMMA LoopIsInherited ==
    ASSUME NEW leaf, NEW chain, NEW L \in Nat, Len(chain) = L, JSONObject(leaf.ents),
           \A i \in 1..L : JSONObject(chain[i].ents),
           NEW g, NEW n \in Nat, n = L + 1, Len(g) = n, DOMAIN g = 1..n, g[1] = leaf.ents,
           \A i \in 1..L : g[i + 1] = chain[i].ents
    PROVE  resolvedEntitlements(leaf, chain) = inherited(g)
  <1>2. Generations(g, n)
    <2>1. ASSUME NEW i \in 1..n PROVE JSONObject(g[i])
      <3>1. i = 1 \/ (i - 1 \in 1..L /\ (i - 1) + 1 = i)
        BY <2>1
      <3> QED
        BY <3>1
    <2> QED
      BY <2>1 DEF Generations
  <1> DEFINE hop == CHOOSE h : Merged(chain, L, h)
  <1>3. Merged(chain, L, hop)
    BY MergedExists
  <1>4. resolvedEntitlements(leaf, chain) = deepMergeJson(hop[L], leaf.ents)
    BY DEF resolvedEntitlements, Merged
  <1> HIDE DEF hop
  <1>5. /\ hop[0] = [k \in {} |-> Null]
        /\ \A m \in Nat : m < L => hop[m + 1] = deepMergeJson(hop[m], chain[(L + 1) - (m + 1)].ents)
    <2>1. hop[0] = [k \in {} |-> Null]
      BY <1>3, MergedStart
    <2>2. ASSUME NEW m \in Nat, m < L
          PROVE  hop[m + 1] = deepMergeJson(hop[m], chain[(L + 1) - (m + 1)].ents)
      BY <1>3, <2>2, MergedTurn
    <2> QED
      BY <2>1, <2>2
  <1> DEFINE T == {m \in Nat : m <= L => hop[m] = Given(g, (n + 1) - m)}
  <1>6. 0 \in T
    <2>1. (n + 1) - 0 = n + 1 /\ (n + 1)..n = {}
      OBVIOUS
    <2>2. Keys(g, n + 1) = {}
      BY <2>1 DEF Keys
    <2>3. Given(g, n + 1) = [k \in {} |-> Null]
      BY <2>2 DEF Given
    <2> QED
      BY <1>5, <2>1, <2>3
  <1>7. ASSUME NEW m \in Nat, m \in T PROVE m + 1 \in T
    <2> SUFFICES ASSUME m + 1 <= L PROVE hop[m + 1] = Given(g, (n + 1) - (m + 1))
      OBVIOUS
    <2> DEFINE j == (n + 1) - (m + 1)
    <2>1. j \in 1..n /\ j + 1 = (n + 1) - m /\ (L + 1) - (m + 1) \in 1..L /\ ((L + 1) - (m + 1)) + 1 = j
      OBVIOUS
    <2>2. hop[m + 1] = deepMergeJson(hop[m], chain[(L + 1) - (m + 1)].ents)
      BY <1>5
    <2>3. chain[(L + 1) - (m + 1)].ents = g[j]
      BY <2>1
    <2>4. hop[m] = Given(g, j + 1)
      BY <1>7, <2>1
    <2> HIDE DEF j
    <2>5. deepMergeJson(Given(g, j + 1), g[j]) = Given(g, j)
      BY <1>2, <2>1, MergeStep
    <2> QED
      BY <2>2, <2>3, <2>4, <2>5 DEF j
  <1> HIDE DEF T
  <1>8. T = Nat
    BY <1>6, <1>7, SetInduction DEF T
  <1>9. hop[L] = Given(g, 2)
    <2>1. (n + 1) - L = 2
      OBVIOUS
    <2>2. L \in T
      BY <1>8
    <2> QED
      BY <2>1, <2>2 DEF T
  <1>10. deepMergeJson(Given(g, 1 + 1), g[1]) = Given(g, 1)
    <2>1. 1 \in 1..n
      OBVIOUS
    <2> QED
      BY <1>2, <2>1, MergeStep
  <1>11. inherited(g) = Given(g, 1)
    BY InheritedIsGiven
  <1>12. 1 + 1 = 2
    OBVIOUS
  <1> QED
    BY <1>4, <1>9, <1>10, <1>11, <1>12

LEMMA MergeIsInherited ==
    ASSUME NEW leaf, NEW chain, NEW L \in Nat, Len(chain) = L, JSONObject(leaf.ents),
           \A i \in 1..L : JSONObject(chain[i].ents)
    PROVE  resolvedEntitlements(leaf, chain) = inherited(<<leaf.ents>> \o [i \in 1..L |-> chain[i].ents])
  <1> DEFINE n == L + 1
             g == <<leaf.ents>> \o [i \in 1..L |-> chain[i].ents]
  <1>1. /\ n \in Nat /\ n = L + 1 /\ Len(g) = n /\ DOMAIN g = 1..n /\ g[1] = leaf.ents
        /\ \A i \in 1..L : g[i + 1] = chain[i].ents
    OBVIOUS
  <1> HIDE DEF n, g
  <1>2. resolvedEntitlements(leaf, chain) = inherited(g)
    BY <1>1, LoopIsInherited
  <1> QED
    BY <1>2 DEF g

-----------------------------------------------------------------------------
(* Ancestors.  The recursive function of `ancestor`, by induction.          *)

parentOf(T, x) == IF x = Null THEN Null ELSE T[x].parent

\* The chain of the first n links, as the recursive function of `ancestor`.
Chain(T, s, n, h) == h = [k \in 0..n |-> IF k = 0 THEN s ELSE parentOf(T, h[k - 1])]

LEMMA ChainUnfolds ==
    ASSUME NEW T, NEW s, NEW n \in Nat, NEW h, Chain(T, s, n, h)
    PROVE  h[0] = s /\ \A k \in Nat : k < n => h[k + 1] = parentOf(T, h[k])
  <1>1. \A k \in 0..n : h[k] = IF k = 0 THEN s ELSE parentOf(T, h[k - 1])
    BY DEF Chain
  <1>2. ASSUME NEW k \in Nat, k < n PROVE h[k + 1] = parentOf(T, h[k])
    <2>1. k + 1 \in 0..n /\ k + 1 # 0 /\ (k + 1) - 1 = k
      BY <1>2
    <2> QED
      BY <1>1, <2>1
  <1> QED
    BY <1>1, <1>2

LEMMA ChainExtends ==
    ASSUME NEW T, NEW s, NEW n \in Nat, NEW h, Chain(T, s, n, h)
    PROVE  \E g : Chain(T, s, n + 1, g)
  <1> DEFINE g == [k \in 0..(n + 1) |-> IF k = n + 1 THEN parentOf(T, h[n]) ELSE h[k]]
  <1>1. \A k \in 0..n : h[k] = IF k = 0 THEN s ELSE parentOf(T, h[k - 1])
    BY DEF Chain
  <1>2. \A k \in 0..(n + 1) : g[k] = IF k = 0 THEN s ELSE parentOf(T, g[k - 1])
    BY <1>1
  <1>3. Chain(T, s, n + 1, g)
    BY <1>2 DEF Chain
  <1> QED
    BY <1>3

\* The recursive function exists for every length, and lengths agree.
LEMMA ChainExists ==
    ASSUME NEW T, NEW s
    PROVE  \A n \in Nat : \E h : Chain(T, s, n, h)
  <1> DEFINE I == {n \in Nat : \E h : Chain(T, s, n, h)}
  <1>1. 0 \in I
    <2> DEFINE h == [k \in 0..0 |-> s]
    <2>1. Chain(T, s, 0, h)
      BY DEF Chain
    <2> QED
      BY <2>1
  <1>2. ASSUME NEW n \in I PROVE n + 1 \in I
    BY ChainExtends
  <1> HIDE DEF I
  <1>3. I = Nat
    BY <1>1, <1>2, SetInduction DEF I
  <1> QED
    BY <1>3 DEF I

LEMMA AncestorChain ==
    ASSUME NEW T, NEW s, NEW n \in Nat
    PROVE  \E h : Chain(T, s, n, h) /\ ancestor(T, s, n) = h[n]
  <1> DEFINE hop == CHOOSE h : Chain(T, s, n, h)
  <1>1. ancestor(T, s, n) = hop[n]
    BY DEF ancestor, Chain, parentOf
  <1>2. Chain(T, s, n, hop)
    BY ChainExists
  <1> QED
    BY <1>1, <1>2

LEMMA ChainsAgree ==
    ASSUME NEW T, NEW s, NEW m \in Nat, NEW n \in Nat, m <= n, NEW g, NEW h,
           Chain(T, s, m, g), Chain(T, s, n, h)
    PROVE  g[m] = h[m]
  <1> DEFINE I == {k \in Nat : k <= m => g[k] = h[k]}
  <1>0. g[0] = s /\ \A k \in Nat : k < m => g[k + 1] = parentOf(T, g[k])
    BY ChainUnfolds
  <1>1. h[0] = s /\ \A k \in Nat : k < n => h[k + 1] = parentOf(T, h[k])
    BY ChainUnfolds
  <1>2. 0 \in I
    BY <1>0, <1>1
  <1>3. ASSUME NEW k \in I PROVE k + 1 \in I
    <2>1. k + 1 <= m => g[k + 1] = parentOf(T, g[k]) /\ h[k + 1] = parentOf(T, h[k]) /\ g[k] = h[k]
      BY <1>0, <1>1
    <2> QED
      BY <2>1
  <1> HIDE DEF I
  <1>4. I = Nat
    BY <1>2, <1>3, SetInduction DEF I
  <1> QED
    BY <1>4 DEF I

LEMMA AncestorZero ==
    ASSUME NEW T, NEW s
    PROVE  ancestor(T, s, 0) = s
  <1>1. PICK h : Chain(T, s, 0, h) /\ ancestor(T, s, 0) = h[0]
    BY AncestorChain
  <1> QED
    BY <1>1, ChainUnfolds

\* The ancestor one further up, and the ancestors of an ancestor.
LEMMA AncestorStep ==
    ASSUME NEW T, NEW s, NEW n \in Nat
    PROVE  ancestor(T, s, n + 1) = parentOf(T, ancestor(T, s, n))
  <1> DEFINE m == n + 1
  <1>0. m \in Nat /\ n < m /\ n <= m
    OBVIOUS
  <1> HIDE DEF m
  <1>1. PICK h : Chain(T, s, m, h) /\ ancestor(T, s, m) = h[m]
    BY <1>0, AncestorChain
  <1>2. PICK g : Chain(T, s, n, g) /\ ancestor(T, s, n) = g[n]
    BY AncestorChain
  <1>3. g[n] = h[n]
    BY <1>0, <1>1, <1>2, ChainsAgree
  <1>4. h[n + 1] = parentOf(T, h[n])
    BY <1>0, <1>1, ChainUnfolds
  <1> QED
    BY <1>1, <1>2, <1>3, <1>4 DEF m

LEMMA AncestorAdds ==
    ASSUME NEW T, NEW s, NEW m \in Nat, NEW n \in Nat
    PROVE  ancestor(T, s, m + n) = ancestor(T, ancestor(T, s, m), n)
  <1> DEFINE x == ancestor(T, s, m)
             I == {k \in Nat : ancestor(T, s, m + k) = ancestor(T, x, k)}
  <1>1. 0 \in I
    BY AncestorZero
  <1>2. ASSUME NEW k \in I PROVE k + 1 \in I
    <2>1. ancestor(T, x, k + 1) = parentOf(T, ancestor(T, x, k))
      BY AncestorStep
    <2>2. ancestor(T, s, (m + k) + 1) = parentOf(T, ancestor(T, s, m + k))
      BY AncestorStep
    <2>3. m + (k + 1) = (m + k) + 1
      OBVIOUS
    <2> HIDE DEF x
    <2> QED
      BY <2>1, <2>2, <2>3
  <1> HIDE DEF I
  <1>3. I = Nat
    BY <1>1, <1>2, SetInduction DEF I
  <1> QED
    BY <1>3 DEF I

\* Where two forests give the same parents, they give the same ancestors.
LEMMA SameChain ==
    ASSUME NEW T, NEW U, NEW s, NEW n \in Nat,
           \A k \in Nat : k < n => parentOf(T, ancestor(T, s, k)) = parentOf(U, ancestor(T, s, k))
    PROVE  ancestor(U, s, n) = ancestor(T, s, n)
  <1> DEFINE I == {k \in Nat : k <= n => ancestor(U, s, k) = ancestor(T, s, k)}
  <1>1. 0 \in I
    BY AncestorZero
  <1>2. ASSUME NEW k \in I PROVE k + 1 \in I
    <2>1. /\ ancestor(T, s, k + 1) = parentOf(T, ancestor(T, s, k))
          /\ ancestor(U, s, k + 1) = parentOf(U, ancestor(U, s, k))
      BY AncestorStep
    <2> QED
      BY <2>1
  <1> HIDE DEF I
  <1>3. I = Nat
    BY <1>1, <1>2, SetInduction DEF I
  <1> QED
    BY <1>3 DEF I

-----------------------------------------------------------------------------
(* The forest of templates.                                                 *)

\* A stored template; a forest of them; no template is its own ancestor.
TemplateRows ==
    [id : Nat, parent : {Null} \cup Nat, ents : EntSets \cup {<<>>}, trial : Nat, grace : Nat,
     cooldown : TrialCooldowns \cup {Null}, force : {Null}, low : Nat]

ForestOK(T) ==
    /\ T = [t \in DOMAIN T |-> T[t]]
    /\ IsFiniteSet(DOMAIN T) /\ DOMAIN T \subseteq Nat
    /\ \A t \in DOMAIN T : T[t] \in TemplateRows /\ T[t].id = t /\ T[t].parent \in {Null} \cup DOMAIN T

Acyclic(T) == \A t \in DOMAIN T : \A n \in Nat \ {0} : ancestor(T, t, n) # t

LEMMA AncestorType ==
    ASSUME NEW T, ForestOK(T), NEW s \in {Null} \cup DOMAIN T
    PROVE  \A n \in Nat : ancestor(T, s, n) \in {Null} \cup DOMAIN T
  <1> DEFINE I == {n \in Nat : ancestor(T, s, n) \in {Null} \cup DOMAIN T}
  <1>1. 0 \in I
    BY AncestorZero
  <1>2. ASSUME NEW n \in Nat, n \in I PROVE n + 1 \in I
    <2>1. ancestor(T, s, n + 1) = parentOf(T, ancestor(T, s, n))
      BY AncestorStep
    <2>2. \A x \in {Null} \cup DOMAIN T : parentOf(T, x) \in {Null} \cup DOMAIN T
      BY DEF parentOf, ForestOK
    <2> QED
      BY <1>2, <2>1, <2>2
  <1> HIDE DEF I
  <1>3. I = Nat
    BY <1>1, <1>2, SetInduction DEF I
  <1> QED
    BY <1>3 DEF I

LEMMA NoneAboveNull ==
    ASSUME NEW T PROVE \A n \in Nat : ancestor(T, Null, n) = Null
  <1> DEFINE I == {n \in Nat : ancestor(T, Null, n) = Null}
  <1>1. 0 \in I
    BY AncestorZero
  <1>2. ASSUME NEW n \in Nat, n \in I PROVE n + 1 \in I
    <2>1. ancestor(T, Null, n + 1) = parentOf(T, ancestor(T, Null, n))
      BY AncestorStep
    <2> QED
      BY <1>2, <2>1 DEF parentOf
  <1> HIDE DEF I
  <1>3. I = Nat
    BY <1>1, <1>2, SetInduction DEF I
  <1> QED
    BY <1>3 DEF I

LEMMA PastTheRoot ==
    ASSUME NEW T, NEW s, NEW n \in Nat, NEW m \in Nat, n <= m, ancestor(T, s, n) = Null
    PROVE  ancestor(T, s, m) = Null
  <1>1. m - n \in Nat /\ n + (m - n) = m
    OBVIOUS
  <1>2. ancestor(T, s, n + (m - n)) = ancestor(T, Null, m - n)
    BY <1>1, AncestorAdds
  <1> QED
    BY <1>1, <1>2, NoneAboveNull

\* A chain without a cycle is no longer than there are templates.
LEMMA ChainIsShort ==
    ASSUME NEW T, ForestOK(T), Acyclic(T), NEW s \in {Null} \cup DOMAIN T,
           NEW n \in Nat, ancestor(T, s, n) # Null
    PROVE  n + 1 <= Cardinality(DOMAIN T)
  <1> DEFINE c == Cardinality(DOMAIN T)
             f == [k \in 0..n |-> ancestor(T, s, k)]
  <1>1. IsFiniteSet(DOMAIN T) /\ c \in Nat
    BY FS_CardinalityType DEF ForestOK
  <1>2. ASSUME NEW k \in 0..n PROVE ancestor(T, s, k) \in DOMAIN T
    <2>1. k \in Nat /\ k <= n
      OBVIOUS
    <2>2. ancestor(T, s, k) # Null
      BY <2>1, PastTheRoot
    <2> QED
      BY <2>1, <2>2, AncestorType
  <1>3. f \in [0..n -> DOMAIN T] /\ \A k \in 0..n : f[k] = ancestor(T, s, k)
    BY <1>2
  <1>4. IsFiniteSet(0..n) /\ Cardinality(0..n) = n + 1
    BY FS_Interval
  <1> HIDE DEF f, c
  <1> SUFFICES ASSUME ~(n + 1 <= c) PROVE FALSE
    BY DEF c
  <1>5. c < n + 1
    BY <1>1
  <1>6. PICK x, y \in 0..n : x # y /\ f[x] = f[y]
    BY <1>1, <1>3, <1>4, <1>5, FS_PigeonHole DEF c
  <1>7. PICK i, j \in 0..n : i < j /\ f[i] = f[j]
    BY <1>6
  <1>8. j - i \in Nat \ {0} /\ i + (j - i) = j /\ i \in Nat
    BY <1>7
  <1>9. ancestor(T, s, j) = ancestor(T, ancestor(T, s, i), j - i)
    BY <1>8, AncestorAdds
  <1>10. ancestor(T, f[i], j - i) = f[i] /\ f[i] \in DOMAIN T
    BY <1>3, <1>7, <1>9
  <1> QED
    BY <1>8, <1>10 DEF Acyclic

\* A new template closes no cycle: nothing names it as its parent.  The
\* ancestors of the others stay.
LEMMA ForestGrows ==
    ASSUME NEW T, ForestOK(T), Acyclic(T), NEW t \in Nat, t \notin DOMAIN T, NEW r, r \in TemplateRows, r.id = t,
           r.parent \in {Null} \cup DOMAIN T,
           NEW U, U = [u \in {t} \cup DOMAIN T |-> IF u # t THEN T[u] ELSE r]
    PROVE  /\ ForestOK(U) /\ Acyclic(U)
           /\ \A s \in {Null} \cup DOMAIN T, n \in Nat : ancestor(U, s, n) = ancestor(T, s, n)
  <1>1. ForestOK(U)
    <2>1. IsFiniteSet({t} \cup DOMAIN T)
      BY FS_AddElement DEF ForestOK
    <2> QED
      BY <2>1 DEF ForestOK
  <1>2. ASSUME NEW s \in {Null} \cup DOMAIN T, NEW n \in Nat PROVE ancestor(U, s, n) = ancestor(T, s, n)
    <2>1. \A x \in {Null} \cup DOMAIN T : parentOf(T, x) = parentOf(U, x)
      BY CooldownAssumption DEF parentOf
    <2>2. \A k \in Nat : parentOf(T, ancestor(T, s, k)) = parentOf(U, ancestor(T, s, k))
      BY <2>1, AncestorType
    <2> QED
      BY <2>2, SameChain
  <1>3. ASSUME NEW u \in DOMAIN U, NEW n \in Nat \ {0} PROVE ancestor(U, u, n) # u
    <2>1. CASE u \in DOMAIN T
      BY <1>2, <2>1 DEF Acyclic
    <2>2. CASE u = t
      <3>1. n - 1 \in Nat /\ 1 + (n - 1) = n
        OBVIOUS
      <3>2. ancestor(U, t, 0 + 1) = parentOf(U, ancestor(U, t, 0))
        BY AncestorStep
      <3>3. ancestor(U, t, 1) = r.parent
        BY <3>2, AncestorZero, CooldownAssumption DEF parentOf
      <3>4. ancestor(U, t, n) = ancestor(U, r.parent, n - 1)
        BY <3>1, <3>3, AncestorAdds
      <3>5. ancestor(U, r.parent, n - 1) \in {Null} \cup DOMAIN T
        BY <1>2, <3>1, AncestorType
      <3> QED
        BY <2>2, <3>4, <3>5, CooldownAssumption
    <2> QED
      BY <2>1, <2>2
  <1> QED
    BY <1>1, <1>2, <1>3 DEF Acyclic

\* A template that moves under one that is not below it closes no cycle either.
LEMMA MoveIsAcyclic ==
    ASSUME NEW T, ForestOK(T), Acyclic(T), NEW t \in DOMAIN T, NEW p \in {Null} \cup DOMAIN T,
           \A n \in Nat : ancestor(T, p, n) # t,
           NEW U, ForestOK(U), DOMAIN U = DOMAIN T, U[t].parent = p,
           \A u \in DOMAIN T : u # t => U[u] = T[u]
    PROVE  Acyclic(U)
  <1>0. \A s \in {Null} \cup DOMAIN T, n \in Nat : ancestor(U, s, n) \in {Null} \cup DOMAIN T
    BY AncestorType
  <1>1. parentOf(U, t) = p /\ \A x \in {Null} \cup DOMAIN T : x # t => parentOf(U, x) = parentOf(T, x)
    BY CooldownAssumption DEF parentOf, ForestOK
  <1> SUFFICES ASSUME NEW s \in DOMAIN U, NEW n \in Nat \ {0}, ancestor(U, s, n) = s PROVE FALSE
    BY DEF Acyclic
  <1>4. CASE \A k \in Nat : k < n => parentOf(U, ancestor(U, s, k)) = parentOf(T, ancestor(U, s, k))
    <2>1. ancestor(T, s, n) = ancestor(U, s, n)
      BY <1>4, SameChain
    <2> QED
      BY <2>1 DEF Acyclic
  <1>5. CASE \E k \in Nat : k < n /\ parentOf(U, ancestor(U, s, k)) # parentOf(T, ancestor(U, s, k))
    <2>1. PICK k \in Nat : k < n /\ parentOf(U, ancestor(U, s, k)) # parentOf(T, ancestor(U, s, k))
      BY <1>5
    <2>2. ancestor(U, s, k) = t
      BY <1>0, <1>1, <2>1
    <2>5. ancestor(U, t, n) = t
      <3>1. ancestor(U, s, k + n) = ancestor(U, t, n)
        BY <2>2, AncestorAdds
      <3>2. ancestor(U, s, n + k) = ancestor(U, s, k)
        BY AncestorAdds
      <3>3. k + n = n + k
        OBVIOUS
      <3> QED
        BY <2>2, <3>1, <3>2, <3>3
    <2> DEFINE L == {m \in Nat \ {0} : ancestor(U, t, m) = t}
    <2>6. PICK m \in L : \A i \in L : m <= i
      BY <2>5, LeastNatural, L \subseteq Nat, n \in L
    <2>7. ancestor(U, t, 1) = p
      <3>1. ancestor(U, t, 0 + 1) = parentOf(U, ancestor(U, t, 0))
        BY AncestorStep
      <3> QED
        BY <1>1, <3>1, AncestorZero
    <2>8. \A i \in Nat : ancestor(U, p, i) = ancestor(U, t, 1 + i)
      BY <2>7, AncestorAdds
    <2>9. m - 1 \in Nat /\ 1 + (m - 1) = m /\ ancestor(U, t, m) = t
      BY <2>6
    <2>10. ancestor(U, p, m - 1) = t
      BY <2>8, <2>9
    <2>11. ASSUME NEW i \in Nat, i < m - 1 PROVE parentOf(U, ancestor(U, p, i)) = parentOf(T, ancestor(U, p, i))
      <3>1. 1 + i \in Nat \ {0} /\ ~(m <= 1 + i)
        BY <2>6, <2>11
      <3>2. ancestor(U, p, i) # t
        BY <2>6, <2>8, <3>1
      <3> QED
        BY <1>0, <1>1, <3>2
    <2> DEFINE j == m - 1
    <2>12. j \in Nat /\ ancestor(U, p, j) = t
           /\ \A i \in Nat : i < j => parentOf(U, ancestor(U, p, i)) = parentOf(T, ancestor(U, p, i))
      BY <2>9, <2>10, <2>11
    <2> HIDE DEF j
    <2>13. ancestor(T, p, j) = ancestor(U, p, j)
      BY <2>12, SameChain
    <2> QED
      BY <2>12, <2>13
  <1> QED
    BY <1>4, <1>5

\* What a walk of an unedited forest has collected, and where it stands.
Follows(T, leaf, chain, L, cursor) ==
    /\ leaf.parent \in {Null} \cup DOMAIN T
    /\ \A i \in Nat : i < L => /\ ancestor(T, leaf.parent, i) # Null
                               /\ chain[i + 1] = T[ancestor(T, leaf.parent, i)]
    /\ cursor = ancestor(T, leaf.parent, L)

\* A walk that ended at the root or at the cap collected the lineage.
LEMMA ChainIsLineage ==
    ASSUME NEW T, NEW leaf, NEW chain, NEW L \in Nat, NEW cursor, Follows(T, leaf, chain, L, cursor),
           NEW d \in Nat, L <= d, cursor = Null \/ L >= d
    PROVE  lineage(T, leaf, d) = [i \in 1..L |-> chain[i]]
  <1> DEFINE p == leaf.parent
             S == {n \in 0..(d - 1) : ancestor(T, p, n) # Null}
  <1>1. S = 0..(L - 1)
    <2>1. ASSUME NEW n \in 0..(L - 1) PROVE n \in S
      <3>1. n \in Nat /\ n < L /\ n \in 0..(d - 1)
        OBVIOUS
      <3> QED
        BY <3>1 DEF Follows
    <2>2. ASSUME NEW n \in 0..(d - 1), n \notin 0..(L - 1) PROVE n \notin S
      <3>1. n \in Nat /\ L <= n /\ ~(L >= d)
        BY <2>2
      <3>2. ancestor(T, p, L) = Null
        BY <3>1 DEF Follows
      <3>3. ancestor(T, p, n) = Null
        BY <3>1, <3>2, PastTheRoot
      <3> QED
        BY <3>3
    <2>3. S \subseteq 0..(d - 1)
      OBVIOUS
    <2> HIDE DEF S
    <2> QED
      BY <2>1, <2>2, <2>3
  <1>2. Cardinality(0..(L - 1)) = L
    BY FS_Interval
  <1>3. lineage(T, leaf, d) = [n \in 1..L |-> T[ancestor(T, p, n - 1)]]
    BY <1>1, <1>2 DEF lineage
  <1>4. ASSUME NEW n \in 1..L PROVE chain[n] = T[ancestor(T, p, n - 1)]
    <2>1. n - 1 \in Nat /\ n - 1 < L /\ (n - 1) + 1 = n
      OBVIOUS
    <2> QED
      BY <2>1 DEF Follows
  <1> QED
    BY <1>3, <1>4

\* What the merge needs of a walk's templates.
AllJSON(leaf, chain, L) ==
    Len(chain) = L /\ JSONObject(leaf.ents) /\ \A i \in 1..L : JSONObject(chain[i].ents)

LEMMA ResolvedIsExpected ==
    ASSUME NEW T, NEW leaf, NEW chain, NEW L \in Nat, NEW cursor, Follows(T, leaf, chain, L, cursor),
           NEW d \in Nat, L <= d, cursor = Null \/ L >= d, AllJSON(leaf, chain, L)
    PROVE  resolvedEntitlements(leaf, chain) = expectedEntitlements(T, leaf, d)
  <1>1. lineage(T, leaf, d) = [i \in 1..L |-> chain[i]]
    BY ChainIsLineage
  <1> DEFINE line == lineage(T, leaf, d)
  <1> HIDE DEF line
  <1>2. DOMAIN line = 1..L /\ \A i \in 1..L : line[i] = chain[i]
    BY <1>1 DEF line
  <1>3. [i \in DOMAIN line |-> line[i].ents] = [i \in 1..L |-> chain[i].ents]
    BY <1>2
  <1>4. expectedEntitlements(T, leaf, d) = inherited(<<leaf.ents>> \o [i \in DOMAIN line |-> line[i].ents])
    BY Zenon DEF expectedEntitlements, line
  <1>5. resolvedEntitlements(leaf, chain) = inherited(<<leaf.ents>> \o [i \in 1..L |-> chain[i].ents])
    BY MergeIsInherited DEF AllJSON
  <1> QED
    BY <1>3, <1>4, <1>5

-----------------------------------------------------------------------------
(* Walks over the forest.                                                   *)

LEMMA RowsAreJSON ==
    ASSUME NEW r \in TemplateRows PROVE JSONObject(r.ents)
  <1>1. JSONObject(<<>>)
    BY DEF JSONObject
  <1>2. r.ents \in EntSets \cup {<<>>}
    BY DEF TemplateRows
  <1> QED
    BY <1>1, <1>2, TemplatesAssumption

\* The templates a walk has met are different ones.
Distinct(leaf, chain, L) ==
    /\ \A i \in 1..L : chain[i].id # leaf.id
    /\ \A i, j \in 1..L : i # j => chain[i].id # chain[j].id

\* A walk over the forest T with depth cap d, and the call it is part of until
\* its license is created.  Nothing ties it to T once T is edited.
Walk(c, T, d, L) ==
    /\ c.leaf \in TemplateRows /\ c.chain \in Seq(TemplateRows) /\ L = Len(c.chain) /\ L <= d
    /\ Distinct(c.leaf, c.chain, L)
    /\ c.cursor \in {Null} \cup DOMAIN T
    /\ c.edits \in Nat
    /\ c.edits = 0 => /\ c.leaf.id \in DOMAIN T /\ T[c.leaf.id] = c.leaf
                      /\ Follows(T, c.leaf, c.chain, L, c.cursor)
                      /\ c.pc = "walk" \/ c.cursor = Null \/ L >= d

WalkOK(c, T, d) ==
    /\ c.pc = "walk" => c.tpl # Null
    /\ c.pc \in {"walk", "trial", "purge", "create"} /\ c.op = "issue" =>
         IF c.tpl = Null THEN c.leaf = Null ELSE Walk(c, T, d, Len(c.chain))
    /\ c.pc = "create" /\ c.op = "template" => c.leaf \in TemplateRows

TemplatesInv ==
    /\ cap \in Nat /\ ForestOK(templates) /\ Acyclic(templates)
    /\ \A p \in Procs : WalkOK(call[p], templates, cap)
    /\ InheritanceExact /\ GraceFollowsExpiry

\* A walk is not moved by a new template.
LEMMA WalkGrows ==
    ASSUME NEW T, NEW U, NEW c, NEW d, NEW L \in Nat, Walk(c, T, d, L),
           \A t \in DOMAIN T : t \in DOMAIN U /\ U[t] = T[t],
           \A s \in {Null} \cup DOMAIN T, n \in Nat :
               ancestor(U, s, n) = ancestor(T, s, n) /\ ancestor(T, s, n) \in {Null} \cup DOMAIN T
    PROVE  Walk(c, U, d, L)
  <1>1. Follows(T, c.leaf, c.chain, L, c.cursor) => Follows(U, c.leaf, c.chain, L, c.cursor)
    <2> SUFFICES ASSUME Follows(T, c.leaf, c.chain, L, c.cursor)
                 PROVE  Follows(U, c.leaf, c.chain, L, c.cursor)
      OBVIOUS
    <2> DEFINE p == c.leaf.parent
    <2>1. p \in {Null} \cup DOMAIN T /\ p \in {Null} \cup DOMAIN U
      BY DEF Follows
    <2>2. \A n \in Nat : ancestor(U, p, n) = ancestor(T, p, n) /\ ancestor(T, p, n) \in {Null} \cup DOMAIN T
      BY <2>1
    <2>3. c.cursor = ancestor(U, p, L)
      BY <2>2 DEF Follows
    <2>4. ASSUME NEW i \in Nat, i < L
          PROVE  ancestor(U, p, i) # Null /\ c.chain[i + 1] = U[ancestor(U, p, i)]
      BY <2>2, <2>4 DEF Follows
    <2> QED
      BY <2>1, <2>3, <2>4 DEF Follows
  <1> QED
    BY <1>1 DEF Walk

\* The first step: nothing collected, the cursor at the parent.
LEMMA WalkStarts ==
    ASSUME NEW T, ForestOK(T), NEW t \in DOMAIN T, NEW d \in Nat, NEW c,
           c.leaf = T[t], c.chain = <<>>, c.cursor = T[t].parent, c.edits = 0, c.pc = "walk"
    PROVE  Walk(c, T, d, Len(c.chain))
  <1>1. Len(c.chain) = 0 /\ c.chain \in Seq(TemplateRows)
    OBVIOUS
  <1>2. Distinct(c.leaf, c.chain, 0)
    BY DEF Distinct
  <1>3. T[t] \in TemplateRows /\ T[t].id = t /\ T[t].parent \in {Null} \cup DOMAIN T
    BY DEF ForestOK
  <1>4. Follows(T, c.leaf, c.chain, 0, c.cursor)
    BY <1>3, AncestorZero DEF Follows
  <1> QED
    BY <1>1, <1>2, <1>3, <1>4 DEF Walk

\* In a forest a walk meets no template again.
LEMMA NoRevisit ==
    ASSUME NEW T, ForestOK(T), Acyclic(T), NEW c, NEW d, NEW L \in Nat, Walk(c, T, d, L),
           c.edits = 0, c.cursor # Null, DOMAIN c.chain = 1..L
    PROVE  c.cursor \notin visited(c)
  <1> DEFINE p == c.leaf.parent
             t == c.leaf.id
  <1>1. /\ t \in DOMAIN T /\ T[t] = c.leaf /\ p \in {Null} \cup DOMAIN T
        /\ \A i \in Nat : i < L => ancestor(T, p, i) # Null /\ c.chain[i + 1] = T[ancestor(T, p, i)]
        /\ c.cursor = ancestor(T, p, L)
    BY DEF Walk, Follows
  <1>2. ASSUME NEW n \in Nat PROVE ancestor(T, t, 1 + n) = ancestor(T, p, n)
    <2>1. ancestor(T, t, 0 + 1) = parentOf(T, ancestor(T, t, 0))
      BY AncestorStep
    <2>2. t # Null
      BY <1>1, CooldownAssumption DEF ForestOK
    <2>3. ancestor(T, t, 1) = p
      BY <1>1, <2>1, <2>2, AncestorZero DEF parentOf
    <2> QED
      BY <2>3, AncestorAdds
  <1>3. c.cursor # t
    <2>1. 1 + L \in Nat \ {0} /\ ancestor(T, t, 1 + L) = c.cursor
      BY <1>1, <1>2
    <2> QED
      BY <1>1, <2>1 DEF Acyclic
  <1>4. ASSUME NEW i \in 1..L PROVE c.chain[i].id # c.cursor
    <2> DEFINE m == i - 1
               x == ancestor(T, p, m)
    <2>1. m \in Nat /\ m < L /\ m + 1 = i /\ L - m \in Nat \ {0} /\ m + (L - m) = L
      OBVIOUS
    <2>2. c.chain[i] = T[x] /\ x \in DOMAIN T
      BY <1>1, <2>1, AncestorType
    <2>3. c.chain[i].id = x
      BY <2>2 DEF ForestOK
    <2> HIDE DEF m
    <2>4. ancestor(T, p, m + (L - m)) = ancestor(T, x, L - m)
      BY <2>1, AncestorAdds
    <2>5. ancestor(T, x, L - m) # x
      BY <2>1, <2>2 DEF Acyclic
    <2> QED
      BY <1>1, <2>1, <2>3, <2>4, <2>5
  <1> QED
    BY <1>3, <1>4 DEF visited

\* One more ancestor.
LEMMA WalkOn ==
    ASSUME NEW T, ForestOK(T), NEW c, NEW d \in Nat, Walk(c, T, d, Len(c.chain)), c.pc = "walk",
           c.cursor # Null, ~(Len(c.chain) >= d), c.cursor \notin visited(c),
           NEW b, b.pc = "walk", b.leaf = c.leaf, b.edits = c.edits,
           b.chain = Append(c.chain, T[c.cursor]), b.cursor = T[c.cursor].parent
    PROVE  Walk(b, T, d, Len(b.chain))
  <1> DEFINE L == Len(c.chain)
             node == T[c.cursor]
  <1>1. c.chain \in Seq(TemplateRows) /\ c.cursor \in DOMAIN T
    BY DEF Walk
  <1>2. node \in TemplateRows /\ node.id = c.cursor /\ node.parent \in {Null} \cup DOMAIN T
    BY <1>1 DEF ForestOK
  <1>3. /\ L \in Nat /\ DOMAIN c.chain = 1..L /\ b.chain \in Seq(TemplateRows) /\ Len(b.chain) = L + 1
        /\ b.chain[L + 1] = node /\ \A i \in 1..L : b.chain[i] = c.chain[i]
    BY <1>1, <1>2
  <1> HIDE DEF node
  <1>4. \A i \in 1..L : c.chain[i].id # c.cursor
    BY <1>3 DEF visited
  <1>5. c.leaf.id # c.cursor
    BY DEF visited
  <1> HIDE DEF L
  <1>6. Distinct(b.leaf, b.chain, L + 1)
    <2>1. Distinct(c.leaf, c.chain, L)
      BY DEF Walk, L
    <2>2. \A i \in 1..(L + 1) : i = L + 1 \/ i \in 1..L
      BY <1>3
    <2>3. ASSUME NEW i \in 1..(L + 1) PROVE b.chain[i].id # b.leaf.id
      BY <1>2, <1>3, <1>5, <2>1, <2>2 DEF Distinct
    <2>4. ASSUME NEW i \in 1..(L + 1), NEW j \in 1..(L + 1), i # j PROVE b.chain[i].id # b.chain[j].id
      <3>1. CASE i \in 1..L /\ j \in 1..L
        BY <1>3, <2>1, <2>4, <3>1 DEF Distinct
      <3>2. CASE i = L + 1 /\ j \in 1..L
        BY <1>2, <1>3, <1>4, <3>2
      <3>3. CASE i \in 1..L /\ j = L + 1
        BY <1>2, <1>3, <1>4, <3>3
      <3> QED
        BY <2>2, <2>4, <3>1, <3>2, <3>3
    <2> QED
      BY <2>3, <2>4 DEF Distinct
  <1>7. ASSUME c.edits = 0 PROVE Follows(T, b.leaf, b.chain, L + 1, b.cursor)
    <2> DEFINE p == c.leaf.parent
    <2>1. Follows(T, c.leaf, c.chain, L, c.cursor)
      BY <1>7 DEF Walk, L
    <2>2. ancestor(T, p, L + 1) = parentOf(T, ancestor(T, p, L))
      BY <1>3, AncestorStep
    <2>3. b.cursor = ancestor(T, p, L + 1)
      BY <2>1, <2>2 DEF Follows, parentOf
    <2>4. ASSUME NEW i \in Nat, i < L + 1
          PROVE  ancestor(T, p, i) # Null /\ b.chain[i + 1] = T[ancestor(T, p, i)]
      <3>1. CASE i = L
        BY <1>3, <2>1, <3>1 DEF Follows, node
      <3>2. CASE i < L
        <4>1. i + 1 \in 1..L
          BY <1>3, <3>2
        <4> QED
          BY <1>3, <2>1, <3>2, <4>1 DEF Follows
      <3> QED
        BY <1>3, <2>4, <3>1, <3>2
    <2> QED
      BY <2>1, <2>3, <2>4 DEF Follows
  <1>8. L <= d /\ ~(L >= d)
    BY DEF Walk, L
  <1>9. L + 1 <= d
    BY <1>3, <1>8
  <1>10. /\ b.leaf \in TemplateRows /\ b.edits \in Nat /\ b.cursor \in {Null} \cup DOMAIN T
         /\ b.edits = 0 => b.leaf.id \in DOMAIN T /\ T[b.leaf.id] = b.leaf
    BY <1>2 DEF Walk, node
  <1> QED
    BY <1>3, <1>6, <1>7, <1>9, <1>10 DEF Walk

-----------------------------------------------------------------------------
(* What each step does to the walks.                                        *)

\* A call of no walk.
LEMMA EndedWalkOK ==
    ASSUME NEW r, NEW T, NEW d PROVE WalkOK(ended(r), T, d)
  BY EndedIdle DEF WalkOK

\* A step of p that leaves the templates alone.
LEMMA WalkStep ==
    ASSUME TrialInv, TemplatesInv, UNCHANGED <<cap, templates>>, NEW p \in Procs, NEW rec, step(p, rec),
           WalkOK(rec, templates, cap), InheritanceExact', GraceFollowsExpiry'
    PROVE  TemplatesInv'
  <1>1. /\ call'[p] = rec /\ \A q \in Procs : q # p => call'[q] = call[q]
    BY StepCall DEF TrialInv, CallsOK
  <1> QED
    BY <1>1 DEF TemplatesInv

\* The same, and no license is made.
LEMMA QuietStep ==
    ASSUME TrialInv, TemplatesInv, UNCHANGED <<cap, templates, licenses>>, NEW p \in Procs, NEW rec,
           step(p, rec), WalkOK(rec, templates, cap)
    PROVE  TemplatesInv'
  <1>1. InheritanceExact' /\ GraceFollowsExpiry'
    BY DEF TemplatesInv, InheritanceExact, GraceFollowsExpiry
  <1> QED
    BY <1>1, WalkStep

LEMMA IssueWalks ==
    ASSUME TrialInv, TemplatesInv, NEW p \in Procs, issue(p)
    PROVE  TemplatesInv'
  <1>1. PICK t \in {Null} \cup DOMAIN templates, fp \in IF focus = "trials" THEN Fps ELSE {Null} :
          /\ t = Null => focus = "trials"
          /\ step(p, [pc |-> IF t = Null THEN "trial" ELSE "walk", op |-> "issue", fp |-> fp, tpl |-> t,
                      leaf |-> IF t = Null THEN Null ELSE templates[t], chain |-> <<>>,
                      cursor |-> IF t = Null THEN Null ELSE templates[t].parent,
                      found |-> Null, edits |-> 0])
    BY Zenon DEF issue
  <1> DEFINE rec == [pc |-> IF t = Null THEN "trial" ELSE "walk", op |-> "issue", fp |-> fp, tpl |-> t,
                      leaf |-> IF t = Null THEN Null ELSE templates[t], chain |-> <<>>,
                      cursor |-> IF t = Null THEN Null ELSE templates[t].parent,
                      found |-> Null, edits |-> 0]
  <1>2. /\ rec.op = "issue" /\ rec.tpl = t /\ rec.chain = <<>> /\ rec.edits = 0
        /\ rec.pc = (IF t = Null THEN "trial" ELSE "walk")
        /\ rec.leaf = (IF t = Null THEN Null ELSE templates[t])
        /\ rec.cursor = (IF t = Null THEN Null ELSE templates[t].parent)
    OBVIOUS
  <1> HIDE DEF rec
  <1>3. t # Null => Walk(rec, templates, cap, Len(rec.chain))
    BY <1>1, <1>2, WalkStarts DEF TemplatesInv
  <1>4. WalkOK(rec, templates, cap)
    BY <1>2, <1>3 DEF WalkOK
  <1>5. UNCHANGED <<cap, templates, licenses>>
    BY DEF issue, catalogue
  <1> QED
    BY <1>1, <1>4, <1>5, QuietStep DEF rec

\* The record of a call that is past its walk, or stays where it was.
LEMMA PastWalk ==
    ASSUME NEW c, NEW T, NEW d, NEW L, Walk(c, T, d, L), NEW b,
           b.leaf = c.leaf, b.chain = c.chain, b.cursor = c.cursor, b.edits = c.edits,
           c.pc # "walk" \/ c.edits # 0 \/ c.cursor = Null \/ L >= d
    PROVE  Walk(b, T, d, L)
  BY DEF Walk

LEMMA ResolveWalks ==
    ASSUME TrialInv, TemplatesInv, NEW p \in Procs, resolveTemplate(p)
    PROVE  TemplatesInv'
  <1> DEFINE c == call[p]
             node == templates[c.cursor]
             more == [c EXCEPT !.chain = Append(@, node), !.cursor = node.parent]
             on == [c EXCEPT !.pc = IF c.fp = Null THEN "create" ELSE "trial"]
             stop == c.cursor = Null \/ Len(c.chain) >= cap \/ c.cursor \in visited(c)
  <1>1. UNCHANGED <<cap, templates, licenses>>
    BY DEF resolveTemplate, catalogue
  <1>2. c.pc = "walk" /\ CallOK(c, focus, templates, licenses, now) /\ WalkOK(c, templates, cap)
    BY DEF TrialInv, CallsOK, TemplatesInv, resolveTemplate
  <1>3. IF stop THEN step(p, on) ELSE step(p, more)
    BY Zenon DEF resolveTemplate
  <1>4. DOMAIN c = Fields /\ c.op = "issue"
    BY <1>2 DEF CallOK, TrialCall, OtherCall
  <1>5. c.tpl # Null /\ Walk(c, templates, cap, Len(c.chain))
    BY <1>2, <1>4 DEF WalkOK
  <1>6. /\ more.pc = "walk" /\ more.op = "issue" /\ more.tpl = c.tpl /\ more.leaf = c.leaf
        /\ more.edits = c.edits /\ more.chain = Append(c.chain, node) /\ more.cursor = node.parent
    BY <1>2, <1>4 DEF Fields
  <1>7. /\ on.pc \in {"create", "trial"} /\ on.op = "issue" /\ on.tpl = c.tpl /\ on.leaf = c.leaf
        /\ on.edits = c.edits /\ on.chain = c.chain /\ on.cursor = c.cursor
    BY <1>4 DEF Fields
  <1> HIDE DEF more, on
  <1>8. CASE ~stop /\ step(p, more)
    <2>1. Walk(more, templates, cap, Len(more.chain))
      BY <1>2, <1>5, <1>6, <1>8, WalkOn DEF TemplatesInv
    <2>2. WalkOK(more, templates, cap)
      BY <1>5, <1>6, <2>1 DEF WalkOK
    <2> QED
      BY <1>1, <1>8, <2>2, QuietStep
  <1>9. CASE stop /\ step(p, on)
    <2>0. Len(c.chain) \in Nat /\ DOMAIN c.chain = 1..Len(c.chain)
      BY <1>5 DEF Walk
    <2>1. c.edits # 0 \/ c.cursor = Null \/ Len(c.chain) >= cap
      BY <1>5, <1>9, <2>0, NoRevisit DEF TemplatesInv
    <2>2. Walk(on, templates, cap, Len(c.chain))
      BY <1>5, <1>7, <2>1, PastWalk
    <2>3. WalkOK(on, templates, cap)
      BY <1>5, <1>7, <2>2 DEF WalkOK
    <2> QED
      BY <1>1, <1>9, <2>3, QuietStep
  <1> QED
    BY <1>3, <1>8, <1>9

LEMMA TrialStepsWalk ==
    ASSUME TrialInv, TemplatesInv, NEW p \in Procs, checkTrial(p) \/ deleteTrialIssuance(p)
    PROVE  TemplatesInv'
  <1> DEFINE c == call[p]
  <1>1. UNCHANGED <<cap, templates, licenses>>
    BY DEF checkTrial, deleteTrialIssuance, catalogue
  <1>2. c.pc \in {"trial", "purge"} /\ CallOK(c, focus, templates, licenses, now) /\ WalkOK(c, templates, cap)
    BY DEF TrialInv, CallsOK, TemplatesInv, checkTrial, deleteTrialIssuance
  <1>3. DOMAIN c = Fields /\ c.op = "issue"
    BY <1>2 DEF CallOK, TrialCall, OtherCall
  <1>4. ASSUME NEW b, b.pc \in {"purge", "create"}, b.op = "issue", b.tpl = c.tpl, b.leaf = c.leaf,
               b.edits = c.edits, b.chain = c.chain, b.cursor = c.cursor
        PROVE  WalkOK(b, templates, cap)
    <2>1. c.tpl # Null => Walk(b, templates, cap, Len(c.chain))
      BY <1>2, <1>3, <1>4, PastWalk DEF WalkOK
    <2> QED
      BY <1>2, <1>3, <1>4, <2>1 DEF WalkOK
  <1>5. \E b : step(p, b) /\ WalkOK(b, templates, cap)
    <2> DEFINE free == [c EXCEPT !.pc = "create"]
    <2>1. WalkOK(free, templates, cap)
      <3>1. /\ free.pc = "create" /\ free.op = "issue" /\ free.tpl = c.tpl /\ free.leaf = c.leaf
            /\ free.edits = c.edits /\ free.chain = c.chain /\ free.cursor = c.cursor
        BY <1>3 DEF Fields
      <3> HIDE DEF free
      <3> QED
        BY <1>4, <3>1
    <2>2. CASE deleteTrialIssuance(p)
      BY <2>1, <2>2 DEF deleteTrialIssuance
    <2>3. CASE checkTrial(p)
      <3> DEFINE rows == {r \in trials : r.tpl = c.tpl /\ r.fp = c.fp}
                 purge == [c EXCEPT !.pc = "purge", !.found = CHOOSE r \in rows : TRUE]
      <3>1. WalkOK(purge, templates, cap)
        <4>1. /\ purge.pc = "purge" /\ purge.op = "issue" /\ purge.tpl = c.tpl /\ purge.leaf = c.leaf
              /\ purge.edits = c.edits /\ purge.chain = c.chain /\ purge.cursor = c.cursor
          BY <1>3 DEF Fields
        <4> HIDE DEF purge
        <4> QED
          BY <1>4, <4>1
      <3>2. step(p, free) \/ step(p, ended("TrialAlreadyIssued")) \/ step(p, purge)
        BY <2>3 DEF checkTrial
      <3> HIDE DEF purge, free
      <3> QED
        BY <2>1, <3>1, <3>2, EndedWalkOK
    <2> QED
      BY <2>2, <2>3
  <1> QED
    BY <1>1, <1>5, QuietStep

\* The license of a walk nobody disturbed carries what its template implies.
LEMMA CreateLicenseWalks ==
    ASSUME TrialInv, TemplatesInv, NEW p \in Procs, createLicense(p)
    PROVE  TemplatesInv'
  <1> DEFINE c == call[p]
             terms == issueTerms(c)
             want == IF focus = "templates" /\ c.edits = 0 /\ c.leaf # Null
                     THEN expectedEntitlements(templates, c.leaf, cap) ELSE Null
             made == [n |-> Cardinality(licenses) + 1, tpl |-> c.tpl, fp |-> c.fp, at |-> now, via |-> "issue", given |-> Unset,
                      expires |-> terms.expires, grace |-> terms.grace, ents |-> terms.ents, want |-> want]
  <1>1. UNCHANGED <<cap, templates>> /\ licenses' = licenses \cup {made}
    BY Zenon DEF createLicense
  <1>2. c.pc = "create" /\ c.op = "issue" /\ WalkOK(c, templates, cap)
    BY DEF TemplatesInv, createLicense
  <1>3. want # Null => c.edits = 0 /\ c.leaf # Null
    OBVIOUS
  <1>4. ASSUME c.edits = 0, c.leaf # Null
        PROVE  resolvedEntitlements(c.leaf, c.chain) = expectedEntitlements(templates, c.leaf, cap)
    <2> DEFINE L == Len(c.chain)
    <2>1. Walk(c, templates, cap, L)
      BY <1>2, <1>4 DEF WalkOK
    <2>2. /\ L \in Nat /\ L <= cap /\ c.leaf \in TemplateRows
          /\ \A i \in 1..L : c.chain[i] \in TemplateRows
      BY <2>1 DEF Walk
    <2>3. Follows(templates, c.leaf, c.chain, L, c.cursor) /\ (c.cursor = Null \/ L >= cap)
      BY <1>2, <1>4, <2>1 DEF Walk
    <2>4. AllJSON(c.leaf, c.chain, L)
      BY <2>2, RowsAreJSON DEF AllJSON
    <2> HIDE DEF L
    <2> QED
      BY <2>2, <2>3, <2>4, ResolvedIsExpected DEF TemplatesInv
  <1>5. made.via = "issue" /\ made.want = want /\ made.ents = terms.ents /\ made.grace = terms.grace
    OBVIOUS
  <1>6. terms.grace = Null /\ (c.leaf # Null => terms.ents = resolvedEntitlements(c.leaf, c.chain))
    BY DEF issueTerms
  <1>7. want # Null => terms.ents = want
    BY <1>3, <1>4, <1>6
  <1> HIDE DEF made, want, terms
  <1>8. InheritanceExact'
    BY <1>1, <1>5, <1>7 DEF TemplatesInv, InheritanceExact
  <1>9. GraceFollowsExpiry'
    BY <1>1, <1>5, <1>6 DEF TemplatesInv, GraceFollowsExpiry
  <1>10. \E b : step(p, b) /\ WalkOK(b, templates, cap)
    <2> DEFINE rec == [c EXCEPT !.pc = "record"]
    <2>1. rec.pc = "record"
      <3>1. DOMAIN c = Fields
        BY <1>2 DEF TrialInv, CallsOK, CallOK, TrialCall, OtherCall
      <3> QED
        BY <3>1 DEF Fields
    <2>2. WalkOK(rec, templates, cap)
      BY <2>1 DEF WalkOK
    <2>3. step(p, ended("ok")) \/ step(p, rec)
      BY DEF createLicense
    <2> QED
      BY <2>2, <2>3, EndedWalkOK
  <1> QED
    BY <1>1, <1>8, <1>9, <1>10, WalkStep

\* Grace counts from the expiry it follows.
LEMMA GraceAfterExpiry ==
    ASSUME NEW n \in Nat, NEW leaf \in TemplateRows, NEW e \in {Unset, Null, 2}, NEW g \in {Unset, Null, 2},
           NEW expires, expires = override(e, computeExpiresAt(n, leaf.trial)),
           NEW grace, grace = override(g, computeGraceUntil(expires, leaf.grace)), grace # Null
    PROVE  g # Unset \/ (expires # Null /\ expires < grace)
  <1> SUFFICES ASSUME g = Unset PROVE expires # Null /\ expires < grace
    OBVIOUS
  <1> DEFINE trial == leaf.trial
             wait == leaf.grace
  <1>1. trial \in Nat /\ wait \in Nat
    BY DEF TemplateRows
  <1>2. grace = computeGraceUntil(expires, wait)
    BY DEF override
  <1> HIDE DEF trial, wait
  <1>3. expires # Null /\ ~(wait <= 0) /\ grace = expires + wait
    BY <1>2 DEF computeGraceUntil
  <1>4. expires \in Nat
    <2>1. CASE e = Unset
      BY <1>1, <1>3, <2>1 DEF override, computeExpiresAt, trial
    <2>2. CASE e # Unset
      BY <1>3, <2>2 DEF override
    <2> QED
      BY <2>1, <2>2
  <1> QED
    BY <1>1, <1>3, <1>4

LEMMA FromTemplateWalks ==
    ASSUME TrialInv, TemplatesInv, NEW p \in Procs, createFromTemplate(p)
    PROVE  TemplatesInv'
  <1> DEFINE c == call[p]
             expires(e) == override(e, computeExpiresAt(now, c.leaf.trial))
             grace(e, g) == override(g, computeGraceUntil(expires(e), c.leaf.grace))
             made(e, g) == [n |-> Cardinality(licenses) + 1, tpl |-> c.tpl, fp |-> Null,
                         at |-> now, via |-> "template", expires |-> expires(e), grace |-> grace(e, g), given |-> g,
                         ents |-> c.leaf.ents, want |-> Null]
  <1>1. UNCHANGED <<cap, templates>>
    BY DEF createFromTemplate
  <1>2. now \in Nat /\ c.leaf \in TemplateRows
    BY DEF TrialInv, CallsOK, TemplatesInv, createFromTemplate, WalkOK
  <1>3. PICK e \in {Unset, Null, 2}, g \in {Unset, Null, 2} :
           \/ step(p, ended("check")) /\ licenses' = licenses
           \/ licenses' = licenses \cup {made(e, g)} /\ step(p, ended("ok"))
    BY ZenonT(30) DEF createFromTemplate
  <1> DEFINE x == expires(e)
             y == grace(e, g)
             l == made(e, g)
  <1>4. l.via = "template" /\ l.grace = y /\ l.expires = x /\ l.given = g
    OBVIOUS
  <1>5. y # Null => g # Unset \/ (x # Null /\ x < y)
    BY <1>2, GraceAfterExpiry
  <1>6. licenses' = licenses \/ licenses' = licenses \cup {l}
    BY <1>3
  <1>7. \E r : step(p, ended(r))
    BY <1>3
  <1> HIDE DEF x, y, l, made, grace, expires
  <1>8. InheritanceExact'
    BY <1>4, <1>6 DEF TemplatesInv, InheritanceExact
  <1>9. GraceFollowsExpiry'
    BY <1>4, <1>5, <1>6 DEF TemplatesInv, GraceFollowsExpiry
  <1> QED
    BY <1>1, <1>7, <1>8, <1>9, EndedWalkOK, WalkStep

LEMMA OtherCallsWalk ==
    ASSUME TrialInv, TemplatesInv, NEW p \in Procs,
           \/ createLicenseFromTemplate(p) \/ recordTrialIssuance(p) \/ ensureSigningKey(p)
           \/ generateRootKey(p) \/ issueInitialSigningKey(p) \/ Fail(p)
    PROVE  TemplatesInv'
  <1>1. UNCHANGED <<cap, templates, licenses>>
    BY DEF createLicenseFromTemplate, recordTrialIssuance, ensureSigningKey, generateRootKey,
       issueInitialSigningKey, Fail, catalogue
  <1>2. ASSUME NEW r, step(p, ended(r)) PROVE TemplatesInv'
    BY <1>1, <1>2, EndedWalkOK, QuietStep
  <1>3. CASE createLicenseFromTemplate(p)
    <2>1. PICK t \in DOMAIN templates :
             step(p, [pc |-> "create", op |-> "template", leaf |-> templates[t], tpl |-> t, edits |-> 0])
      BY <1>3 DEF createLicenseFromTemplate
    <2> DEFINE rec == [pc |-> "create", op |-> "template", leaf |-> templates[t], tpl |-> t, edits |-> 0]
    <2>2. rec.pc = "create" /\ rec.op = "template" /\ rec.leaf = templates[t]
      OBVIOUS
    <2>3. templates[t] \in TemplateRows
      BY DEF TemplatesInv, ForestOK
    <2> HIDE DEF rec
    <2>4. WalkOK(rec, templates, cap)
      BY <2>2, <2>3 DEF WalkOK
    <2> QED
      BY <1>1, <2>1, <2>4, QuietStep DEF rec
  <1>4. CASE recordTrialIssuance(p)
    BY <1>2, <1>4, Zenon DEF recordTrialIssuance
  <1>5. CASE ensureSigningKey(p)
    <2>1. ASSUME NEW s, NEW alg, step(p, [pc |-> "root", scope |-> s, alg |-> alg]) PROVE TemplatesInv'
      <3>1. WalkOK([pc |-> "root", scope |-> s, alg |-> alg], templates, cap)
        BY DEF WalkOK
      <3> QED
        BY <1>1, <2>1, <3>1, QuietStep
    <2> QED
      BY <1>2, <1>5, <2>1, Zenon DEF ensureSigningKey
  <1>6. CASE generateRootKey(p)
    <2> DEFINE c == call[p]
               on == [c EXCEPT !.pc = "signing"]
    <2>1. DOMAIN c = {"pc", "scope", "alg"} /\ step(p, on)
      BY <1>6 DEF generateRootKey, TrialInv, CallsOK, CallOK, TrialCall, OtherCall
    <2>2. on.pc = "signing"
      BY <2>1
    <2>3. WalkOK(on, templates, cap)
      BY <2>2 DEF WalkOK
    <2> QED
      BY <1>1, <2>1, <2>3, QuietStep
  <1>7. CASE issueInitialSigningKey(p)
    <2>1. WalkOK(lostRace(call[p]), templates, cap)
      BY DEF WalkOK, lostRace
    <2>2. step(p, lostRace(call[p])) => TemplatesInv'
      BY <1>1, <2>1, QuietStep
    <2> QED
      BY <1>2, <1>7, <2>2, Zenon DEF issueInitialSigningKey
  <1>8. CASE Fail(p)
    BY <1>2, <1>8 DEF Fail
  <1> QED
    BY <1>3, <1>4, <1>5, <1>6, <1>7, <1>8

\* A new template, next to any calls.
LEMMA RowOfTerms ==
    ASSUME NEW t \in Nat, NEW par \in {Null} \cup Nat, NEW terms \in Terms, NEW low \in Nat
    PROVE  LET r == withTerms(t, par, terms, low)
           IN  r \in TemplateRows /\ r.id = t /\ r.parent = par
  <1>1. /\ terms.ents \in EntSets \cup {<<>>} /\ terms.trial \in Nat /\ terms.grace \in Nat
        /\ terms.cooldown \in TrialCooldowns \cup {Null} /\ terms.force \in {Null}
    BY DEF Terms
  <1>2. effective(terms.cooldown) \in Nat
    BY CooldownAssumption DEF Terms, effective
  <1> QED
    BY <1>1, <1>2 DEF withTerms, TemplateRows

LEMMA CreateTemplateWalks ==
    ASSUME TrialInv, TemplatesInv, handleCreateTemplate
    PROVE  TemplatesInv'
  <1>1. PICK t \in (IF focus = "templates" THEN TemplateIds ELSE {1}) \ DOMAIN templates,
             par \in {Null} \cup DOMAIN templates, terms \in Terms :
          /\ focus # "signers" /\ (focus = "templates" => walking = {})
          /\ \A u \in TemplateIds : u < t => u \in DOMAIN templates
          /\ templates' = [u \in {t} \cup DOMAIN templates |->
               IF u # t THEN templates[u] ELSE withTerms(t, par, terms, effective(terms.cooldown))]
          /\ UNCHANGED <<focus, cap, now, licenses, trialVars, keyVars, fails, call>>
    BY Zenon DEF handleCreateTemplate
  <1> DEFINE r == withTerms(t, par, terms, effective(terms.cooldown))
  <1>2. t \in Nat /\ t \notin DOMAIN templates /\ par \in {Null} \cup Nat
    BY TemplatesAssumption DEF TemplatesInv, ForestOK
  <1>3. effective(terms.cooldown) \in Nat
    BY CooldownAssumption DEF Terms, effective
  <1>4. r \in TemplateRows /\ r.id = t /\ r.parent = par
    BY <1>2, <1>3, RowOfTerms
  <1>5. templates' = [u \in {t} \cup DOMAIN templates |-> IF u # t THEN templates[u] ELSE r]
    BY <1>1
  <1> HIDE DEF r
  <1>6. /\ ForestOK(templates') /\ Acyclic(templates')
        /\ \A s \in {Null} \cup DOMAIN templates, n \in Nat : ancestor(templates', s, n) = ancestor(templates, s, n)
    BY <1>2, <1>4, <1>5, ForestGrows, SMTT(30) DEF TemplatesInv
  <1>7. \A u \in DOMAIN templates : u \in DOMAIN templates' /\ templates'[u] = templates[u]
    BY <1>2, <1>5
  <1>8. \A s \in {Null} \cup DOMAIN templates, n \in Nat :
            /\ ancestor(templates', s, n) = ancestor(templates, s, n)
            /\ ancestor(templates, s, n) \in {Null} \cup DOMAIN templates
    BY <1>6, AncestorType DEF TemplatesInv
  <1>9. ASSUME NEW p \in Procs PROVE WalkOK(call[p], templates', cap)
    <2> DEFINE c == call[p]
               L == Len(c.chain)
    <2>1. WalkOK(c, templates, cap)
      BY DEF TemplatesInv
    <2>2. Walk(c, templates, cap, L) => L \in Nat
      BY DEF Walk
    <2>3. Walk(c, templates, cap, L) => Walk(c, templates', cap, L)
      BY <1>7, <1>8, <2>2, WalkGrows
    <2> QED
      BY <2>1, <2>3 DEF WalkOK
  <1>10. UNCHANGED <<cap, licenses, call>>
    BY <1>1
  <1>11. InheritanceExact' /\ GraceFollowsExpiry'
    BY <1>10 DEF TemplatesInv, InheritanceExact, GraceFollowsExpiry
  <1> QED
    BY <1>6, <1>9, <1>10, <1>11 DEF TemplatesInv

\* Templates that are not above p and not p are none of its ancestors.
LEMMA AboveIsAll ==
    ASSUME TemplatesInv, NEW t \in DOMAIN templates, NEW par \in {Null} \cup DOMAIN templates,
           par # t, t \notin above(par)
    PROVE  \A n \in Nat : ancestor(templates, par, n) # t
  <1> SUFFICES ASSUME NEW n \in Nat, ancestor(templates, par, n) = t PROVE FALSE
    OBVIOUS
  <1>1. n # 0
    BY AncestorZero
  <1>2. t # Null
    BY CooldownAssumption DEF TemplatesInv, ForestOK
  <1>3. n + 1 <= Cardinality(DOMAIN templates)
    BY <1>2, ChainIsShort DEF TemplatesInv
  <1>4. Cardinality(DOMAIN templates) \in Nat
    BY FS_CardinalityType DEF TemplatesInv, ForestOK
  <1>5. n \in 1..Cardinality(DOMAIN templates)
    BY <1>1, <1>3, <1>4
  <1> QED
    BY <1>5 DEF above

\* Templates that keep their parents keep their ancestors.
LEMMA SameParentsAcyclic ==
    ASSUME NEW T, ForestOK(T), Acyclic(T), NEW U, DOMAIN U = DOMAIN T,
           \A x \in {Null} \cup DOMAIN T : parentOf(T, x) = parentOf(U, x)
    PROVE  Acyclic(U)
  <1> SUFFICES ASSUME NEW u \in DOMAIN T, NEW n \in Nat \ {0} PROVE ancestor(U, u, n) # u
    BY DEF Acyclic
  <1>1. \A k \in Nat : parentOf(T, ancestor(T, u, k)) = parentOf(U, ancestor(T, u, k))
    BY AncestorType
  <1>2. ancestor(U, u, n) = ancestor(T, u, n)
    BY <1>1, SameChain
  <1> QED
    BY <1>2 DEF Acyclic

\* An edit of one column of one template.
LEMMA EditedForest ==
    ASSUME NEW T, ForestOK(T), Acyclic(T), NEW t \in DOMAIN T, NEW r \in TemplateRows, r.id = t,
           r.parent = T[t].parent \/ \A n \in Nat : ancestor(T, r.parent, n) # t,
           r.parent \in {Null} \cup DOMAIN T,
           NEW U, U = [u \in DOMAIN U |-> U[u]], DOMAIN U = DOMAIN T, U[t] = r,
           \A u \in DOMAIN T : u # t => U[u] = T[u]
    PROVE  ForestOK(U) /\ Acyclic(U)
  <1>2. ForestOK(U)
    BY DEF ForestOK
  <1>3. CASE r.parent = T[t].parent
    <2>1. \A x \in {Null} \cup DOMAIN T : parentOf(T, x) = parentOf(U, x)
      BY <1>3 DEF parentOf
    <2> QED
      BY <1>2, <2>1, SameParentsAcyclic
  <1>4. CASE \A n \in Nat : ancestor(T, r.parent, n) # t
    BY <1>2, <1>4, MoveIsAcyclic
  <1> QED
    BY <1>2, <1>3, <1>4

LEMMA UpdateTemplateWalks ==
    ASSUME TrialInv, TemplatesInv, handleUpdateTemplate
    PROVE  TemplatesInv'
  <1>1. /\ UNCHANGED <<cap, licenses>>
        /\ call' = [p \in Procs |->
              IF p \in walking THEN [call[p] EXCEPT !.edits = @ + 1] ELSE call[p]]
    BY DEF handleUpdateTemplate, edit
  <1>2. PICK t \in DOMAIN templates :
          \/ \E par \in {Null} \cup DOMAIN templates :
                /\ par # t /\ t \notin above(par)
                /\ templates' = [templates EXCEPT ![t].parent = par]
          \/ \E terms \in Terms :
                templates' = [templates EXCEPT ![t] = withTerms(t, @.parent, terms, @.low)]
    BY DEF handleUpdateTemplate
  <1> DEFINE old == templates[t]
  <1>3. /\ ForestOK(templates) /\ Acyclic(templates) /\ old \in TemplateRows /\ old.id = t
        /\ old.parent \in {Null} \cup DOMAIN templates /\ DOMAIN templates \subseteq Nat
    BY DEF TemplatesInv, ForestOK
  <1>4. ForestOK(templates') /\ Acyclic(templates') /\ DOMAIN templates' = DOMAIN templates
    <2>1. CASE \E par \in {Null} \cup DOMAIN templates :
                /\ par # t /\ t \notin above(par)
                /\ templates' = [templates EXCEPT ![t].parent = par]
      <3>1. PICK par \in {Null} \cup DOMAIN templates :
                /\ par # t /\ t \notin above(par)
                /\ templates' = [templates EXCEPT ![t].parent = par]
        BY <2>1
      <3> DEFINE r == [old EXCEPT !.parent = par]
      <3>2. r \in TemplateRows /\ r.id = t /\ r.parent = par
        BY <1>3 DEF TemplateRows
      <3>3. /\ DOMAIN templates' = DOMAIN templates /\ templates'[t] = r
            /\ \A u \in DOMAIN templates : u # t => templates'[u] = templates[u]
            /\ templates' = [u \in DOMAIN templates' |-> templates'[u]]
        BY <3>1
      <3>4. \A n \in Nat : ancestor(templates, par, n) # t
        BY <3>1, AboveIsAll
      <3> HIDE DEF r, old
      <3> QED
        BY <1>3, <3>2, <3>3, <3>4, EditedForest
    <2>2. CASE \E terms \in Terms :
                templates' = [templates EXCEPT ![t] = withTerms(t, @.parent, terms, @.low)]
      <3>1. PICK terms \in Terms :
                templates' = [templates EXCEPT ![t] = withTerms(t, @.parent, terms, @.low)]
        BY <2>2
      <3> DEFINE r == withTerms(t, old.parent, terms, old.low)
      <3>2. r \in TemplateRows /\ r.id = t /\ r.parent = old.parent
        <4>1. t \in Nat /\ old.parent \in {Null} \cup Nat /\ old.low \in Nat
          BY <1>3 DEF TemplateRows
        <4> QED
          BY <4>1, RowOfTerms
      <3>3. /\ DOMAIN templates' = DOMAIN templates /\ templates'[t] = r
            /\ \A u \in DOMAIN templates : u # t => templates'[u] = templates[u]
            /\ templates' = [u \in DOMAIN templates' |-> templates'[u]]
        BY <3>1
      <3>4. r.parent = templates[t].parent /\ r.parent \in {Null} \cup DOMAIN templates
        BY <1>3, <3>2
      <3> HIDE DEF r, old
      <3> QED
        BY <1>3, <3>2, <3>3, <3>4, EditedForest
    <2> QED
      BY <1>2, <2>1, <2>2
  <1>5. ASSUME NEW p \in Procs PROVE WalkOK(call'[p], templates', cap)
    <2> DEFINE c == call[p]
               b == [c EXCEPT !.edits = @ + 1]
    <2>1. WalkOK(c, templates, cap) /\ CallOK(c, focus, templates, licenses, now)
      BY DEF TemplatesInv, TrialInv, CallsOK
    <2>2. CASE p \notin walking
      <3>1. call'[p] = c /\ c.pc \notin {"walk", "create", "trial", "purge"}
        BY <1>1, <2>2 DEF walking
      <3> QED
        BY <3>1 DEF WalkOK
    <2>3. CASE p \in walking
      <3>1. call'[p] = b /\ c.pc \in {"walk", "trial", "purge", "create"}
        BY <1>1, <2>3 DEF walking
      <3>2. CASE c.op = "template"
        <4>1. DOMAIN c = {"pc", "op", "leaf", "tpl", "edits"} /\ c.pc = "create"
          BY <2>1, <3>1, <3>2 DEF CallOK, TrialCall, OtherCall
        <4>2. b.pc = "create" /\ b.op = "template" /\ b.leaf = c.leaf
          BY <3>2, <4>1
        <4> HIDE DEF b
        <4> QED
          BY <2>1, <3>1, <3>2, <4>1, <4>2 DEF WalkOK
      <3>3. CASE c.op # "template"
        <4>1. DOMAIN c = Fields /\ c.op = "issue"
          BY <2>1, <3>1, <3>3 DEF CallOK, TrialCall, OtherCall
        <4>2. /\ b.pc = c.pc /\ b.op = c.op /\ b.leaf = c.leaf /\ b.tpl = c.tpl /\ b.chain = c.chain
              /\ b.cursor = c.cursor /\ b.edits = c.edits + 1
          BY <4>1 DEF Fields
        <4> HIDE DEF b
        <4>3. IF c.tpl = Null THEN c.leaf = Null ELSE Walk(c, templates, cap, Len(c.chain))
          BY <2>1, <3>1, <4>1 DEF WalkOK
        <4>4. c.tpl # Null => Walk(b, templates', cap, Len(c.chain))
          <5> SUFFICES ASSUME c.tpl # Null PROVE Walk(b, templates', cap, Len(c.chain))
            OBVIOUS
          <5>1. c.edits \in Nat /\ c.edits + 1 # 0 /\ c.edits + 1 \in Nat
            BY <4>3 DEF Walk
          <5> QED
            BY <1>4, <4>2, <4>3, <5>1 DEF Walk
        <4> QED
          BY <2>1, <3>1, <4>1, <4>2, <4>4 DEF WalkOK
      <3> QED
        BY <3>2, <3>3
    <2> QED
      BY <2>2, <2>3
  <1>6. InheritanceExact' /\ GraceFollowsExpiry'
    BY <1>1 DEF TemplatesInv, InheritanceExact, GraceFollowsExpiry
  <1> QED
    BY <1>1, <1>4, <1>5, <1>6 DEF TemplatesInv

LEMMA QuietWalks ==
    ASSUME TemplatesInv, rotateSigningKey \/ Tick \/ UNCHANGED issuanceVars
    PROVE  TemplatesInv'
  <1>1. UNCHANGED <<cap, templates, licenses, call>>
    BY DEF rotateSigningKey, Tick, issuanceVars, catalogue
  <1> QED
    BY <1>1 DEF TemplatesInv, InheritanceExact, GraceFollowsExpiry

\* The inductive invariant of the walks: the forest has no cycle, whoever edits
\* it, and a walk that saw no edit has collected a prefix of its lineage.
THEOREM TemplatesInvariant == Spec => []TemplatesInv
  <1>1. Init => TemplatesInv
    <2> SUFFICES ASSUME Init PROVE TemplatesInv
      OBVIOUS
    <2>1. /\ templates = <<>> /\ licenses = {} /\ cap \in Nat
          /\ \A p \in Procs : call[p].pc = "idle"
      BY DepthsAssumption DEF Init, idle
    <2>2. ForestOK(templates) /\ Acyclic(templates)
      <3>1. DOMAIN templates = {} /\ templates = [t \in DOMAIN templates |-> templates[t]]
        BY <2>1
      <3>2. IsFiniteSet({})
        BY FS_EmptySet
      <3> QED
        BY <3>1, <3>2 DEF ForestOK, Acyclic
    <2>3. InheritanceExact /\ GraceFollowsExpiry
      BY <2>1 DEF InheritanceExact, GraceFollowsExpiry
    <2>4. \A p \in Procs : WalkOK(call[p], templates, cap)
      BY <2>1 DEF WalkOK
    <2> QED
      BY <2>1, <2>2, <2>3, <2>4 DEF TemplatesInv
  <1>2. TrialInv /\ TemplatesInv /\ [Next]_issuanceVars => TemplatesInv'
    BY UpdateTemplateWalks, CreateTemplateWalks, QuietWalks, IssueWalks, ResolveWalks, TrialStepsWalk,
       CreateLicenseWalks, FromTemplateWalks, OtherCallsWalk DEF Next, Proceed
  <1> QED
    BY <1>1, <1>2, TrialInvariant, PTL DEF Spec

\* However admins edit and re-parent templates meanwhile, a walk meets none
\* twice and stops at the cap; a license issued in a quiet moment carries, for
\* any number of ancestors and any objects, what the closest template says key
\* by key; and a grace period the template implies follows an expiry.
THEOREM TemplatesAreExact == Spec => []TemplatesExact
  <1>1. TrialInv /\ TemplatesInv => TemplatesExact
    <2> SUFFICES ASSUME TrialInv, TemplatesInv, NEW p \in Procs, call[p].pc = "walk"
                 PROVE  /\ IsInjective(<<call[p].leaf.id>> \o [i \in DOMAIN call[p].chain |-> call[p].chain[i].id])
                        /\ Len(call[p].chain) <= cap
      BY Zenon DEF TemplatesInv, TemplatesExact, WalkIsBounded
    <2> DEFINE c == call[p]
               L == Len(c.chain)
               s == [i \in 1..L |-> c.chain[i].id]
               ids == <<c.leaf.id>> \o s
    <2>1. c.op = "issue"
      BY DEF TrialInv, CallsOK, CallOK, TrialCall, OtherCall
    <2>2. Walk(c, templates, cap, L)
      BY <2>1 DEF TemplatesInv, WalkOK
    <2>3. L \in Nat /\ L <= cap /\ DOMAIN c.chain = 1..L /\ Distinct(c.leaf, c.chain, L)
      BY <2>2 DEF Walk
    <2>4. DOMAIN ids = 1..(L + 1) /\ ids[1] = c.leaf.id /\ \A i \in 1..L : ids[i + 1] = c.chain[i].id
      BY <2>3
    <2>5. ids = <<c.leaf.id>> \o [i \in DOMAIN c.chain |-> c.chain[i].id]
      BY <2>3
    <2> HIDE DEF ids, L
    <2>6. ASSUME NEW a \in 1..(L + 1), NEW b \in 1..(L + 1), a # b PROVE ids[a] # ids[b]
      <3>1. \A i \in 1..(L + 1) : i = 1 \/ (i - 1 \in 1..L /\ (i - 1) + 1 = i)
        BY <2>3
      <3>2. \A i \in 1..(L + 1) : i # 1 => ids[i] = c.chain[i - 1].id /\ i - 1 \in 1..L
        BY <2>4, <3>1
      <3>3. CASE a = 1 \/ b = 1
        <4>1. \A i \in 1..(L + 1) : i # 1 => ids[i] # c.leaf.id
          BY <2>3, <3>2 DEF Distinct
        <4> QED
          BY <2>4, <2>6, <3>3, <4>1
      <3>4. CASE a # 1 /\ b # 1
        <4>1. a - 1 # b - 1
          BY <2>3, <2>6
        <4> QED
          BY <2>3, <3>2, <3>4, <4>1 DEF Distinct
      <3> QED
        BY <3>3, <3>4
    <2>7. IsInjective(ids)
      BY <2>4, <2>6 DEF IsInjective
    <2> QED
      BY <2>3, <2>5, <2>7 DEF L
  <1> QED
    BY <1>1, TemplatesInvariant, TrialInvariant, PTL
=============================================================================
