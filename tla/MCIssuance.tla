----------------------------- MODULE MCIssuance -----------------------------
EXTENDS Issuance

\* Objects that overlap, nest and contradict each other's shape.
Objects == { [seats |-> prim("x")],
             [seats |-> object([c |-> "x"])],
             [seats |-> object([d |-> "y"]), sso |-> prim("y")] }

\* The default, and one that outlasts the default.
CooldownChoices == {Null, 2}

GlobalAndOne == {Null, "s1"}

Symmetry == Permutations(Procs)
=============================================================================
