----------------------------- MODULE MCStorage -----------------------------
EXTENDS StorageSessions

SqlFocuses == {"catalogue", "licenses", "seats", "keys", "trials"}

\* Where an adapter is claimed to implement the contract.
Conforming == ({"sqlite", "postgres"} \X SqlFocuses) \cup ({"memory"} \X {"seats", "keys", "trials"})
              \cup ({"memory", "sqlite"} \X {"pages", "tx"})

\* The two places where the memory adapter checks less than the schema.
MemoryTemplates == {<<"memory", "catalogue">>}
MemoryLicenses  == {<<"memory", "licenses">>}

\* Where a cursor loses what the server's clock resolves.
PostgresPages == {<<"postgres", "pages">>}

RowBounds == [t \in Tables |->
    CASE t = "scopes" -> 1 [] t \in {"audit", "usages", "trials"} -> 2 [] OTHER -> 3]
=============================================================================
