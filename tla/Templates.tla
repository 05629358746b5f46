----------------------------- MODULE Templates -----------------------------
(* templates/resolve.ts and the arithmetic of template-service.ts: what a    *)
(* template and its ancestors give a license.  A JSON object is a function   *)
(* from keys to values; a value is a primitive or an object of primitives,   *)
(* so the merge's recursion is unrolled once.                                *)
EXTENDS Naturals, Sequences, Functions, FiniteSets, TLC

CONSTANT Null

prim(x) == [obj |-> FALSE, v |-> x]
object(o) == [obj |-> TRUE, v |-> o]

\* The JSON objects of the model.
JSONObject(e) ==
    /\ e = [k \in DOMAIN e |-> e[k]]
    /\ \A k \in DOMAIN e :
          \/ e[k] = prim(e[k].v)
          \/ e[k] = object([s \in DOMAIN e[k].v |-> e[k].v[s]])

\* `{...base, ...override}`, for objects of primitives.
overlaid(base, override) ==
    [k \in DOMAIN base \cup DOMAIN override |-> IF k \in DOMAIN override THEN override[k] ELSE base[k]]

\* Mistake: nested objects are replaced like primitives.
deepMergeJson_Shallow(base, override) == overlaid(base, override)

\* Objects merge, anything else is replaced by the override.
deepMergeJson(base, override) ==
    [k \in DOMAIN base \cup DOMAIN override |->
        IF k \notin DOMAIN override THEN base[k]
        ELSE IF k \in DOMAIN base /\ base[k].obj /\ override[k].obj
             THEN object(overlaid(base[k].v, override[k].v))
             ELSE override[k]]

\* `chain` holds the ancestors, closest first: merged root to leaf, leaf last.
resolvedEntitlements(leaf, chain) ==
    LET merged[n \in 0..Len(chain)] ==   \* the n ancestors next to the root
          IF n = 0 THEN [k \in {} |-> Null]
          ELSE deepMergeJson(merged[n - 1], chain[(Len(chain) + 1) - n].ents)
    IN  deepMergeJson(merged[Len(chain)], leaf.ents)

computeExpiresAt(now, trial) == IF trial <= 0 THEN Null ELSE now + trial

computeGraceUntil(expires, grace) == IF expires = Null \/ grace <= 0 THEN Null ELSE expires + grace

\* The n-th ancestor of template t, Null past the root.
ancestor(forest, t, n) ==
    LET up[k \in 0..n] == IF k = 0 THEN t
                          ELSE IF up[k - 1] = Null THEN Null ELSE forest[up[k - 1]].parent
    IN  up[n]

-----------------------------------------------------------------------------
(* The reference: what a reader of the rules expects, key by key.            *)

\* The ancestors of an acyclic forest, at most `cap` of them.
lineage(forest, leaf, cap) ==
    LET depth == Cardinality({n \in 0..(cap - 1) : ancestor(forest, leaf.parent, n) # Null})
    IN  [n \in 1..depth |-> forest[ancestor(forest, leaf.parent, n - 1)]]

closest(S) == CHOOSE i \in S : \A j \in S : i <= j

\* Each key from the closest template that has it; if that is an object, each
\* of its keys from the closest template below any that puts a primitive there.
inherited(generations) ==
    LET has(k) == {i \in DOMAIN generations : k \in DOMAIN generations[i]}
        objects(k) == {i \in has(k) : \A j \in has(k) : j <= i => generations[j][k].obj}
        deeper(k) == UNION {DOMAIN generations[i][k].v : i \in objects(k)}
        from(k, s) == closest({i \in objects(k) : s \in DOMAIN generations[i][k].v})
    IN  [k \in UNION {DOMAIN generations[i] : i \in DOMAIN generations} |->
            LET top == generations[closest(has(k))][k]
            IN  IF ~top.obj THEN top
                ELSE object([s \in deeper(k) |-> generations[from(k, s)][k].v[s]])]

expectedEntitlements(forest, leaf, cap) ==
    LET line == lineage(forest, leaf, cap)
    IN  inherited(<<leaf.ents>> \o [i \in DOMAIN line |-> line[i].ents])
=============================================================================
