------------------------------- MODULE KeyCli -------------------------------
(***************************************************************************)
(* The licensing-keys command (typescript/src/cli/main.ts) over its file   *)
(* (cli/json-keystore.ts).  A command loads the whole file once, works on  *)
(* its copy, and each put or update rewrites the file by an atomic rename. *)
(* There is no transaction around the steps of KeyHierarchy: a command     *)
(* that throws, or is killed, leaves what it has flushed.  The operator    *)
(* runs one command at a time.                                             *)
(***************************************************************************)
EXTENDS KeyHierarchy

CONSTANTS MaxKills          \* bound: commands killed half-way

ASSUME KillsAssumption == MaxKills \in Nat

VARIABLES file,             \* the keys on disk
          cmd,              \* the command being run
          kills

cliVars == <<file, cmd, kills>>

Command == [op    : {"idle", "make-root", "issue-signing", "rotate"},
            at    : {"-", "put", "demote", "link"},
            mem   : [Kids -> LicenseKey],           \* JsonFileKeyStore.#byId
            scope : Scopes \cup {Null},
            alg   : Algs \cup {Null},
            root  : Kids \cup {Null},               \* --root-kid
            date  : Dates \cup {Null},              \* --not-after, --retire-at
            out   : Kids \cup {Null},               \* the key being rotated out
            new   : Kids \cup {Null}]               \* the key just put
NoCommand == [op |-> "idle", at |-> "-", mem |-> [k \in Kids |-> NoKey],
              scope |-> Null, alg |-> Null, root |-> Null, date |-> Null,
              out |-> Null, new |-> Null]

----------------------------------------------------------------------------
\* #loadIfNeeded
loaded(f) == f

\* put or update, then #flush
flush(table, next) == file' = table /\ cmd' = next
exit == cmd' = NoCommand /\ UNCHANGED file

Run(op, scope, alg, root, date) ==
    /\ cmd.op = "idle" /\ Unused(file) # {}                        \* bound
    /\ cmd' = [NoCommand EXCEPT !.op = op, !.mem = loaded(file), !.scope = scope,
                           !.alg = alg, !.root = root, !.date = date,
                           !.at = IF op = "rotate" THEN "demote" ELSE "put"]
    /\ UNCHANGED file

\* generateRoot
MakeRoot ==
    /\ cmd.op = "make-root" /\ cmd.at = "put"
    /\ \E k \in Unused(cmd.mem) :
       flush([cmd.mem EXCEPT ![k] = rootRecord(cmd.scope, cmd.alg)], NoCommand)

\* rotateSigning up to its first update.
Demote ==
    LET out == actives(cmd.mem, cmd.scope, cmd.alg) IN
    /\ cmd.op = "rotate" /\ cmd.at = "demote"
    /\ IF Cardinality(out) # 1 THEN exit
       ELSE \E k \in out :
              LET ks == [cmd.mem EXCEPT ![k] = demoted(@, cmd.date)] IN
              flush(ks, [cmd EXCEPT !.at = "put", !.mem = ks, !.out = k])

\* issueSigning, alone or inside rotateSigning.  It throws when an active
\* key of this scope and algorithm exists, when --root-kid names no root of
\* them, and when the passphrase does not open that root.
CliIssueSigning ==
    /\ cmd.op \in {"issue-signing", "rotate"} /\ cmd.at = "put"
    /\ \/ /\ actives(cmd.mem, cmd.scope, cmd.alg) = {}
          /\ isRootFor(cmd.mem, cmd.root, cmd.scope, cmd.alg)
          /\ \E k \in Unused(cmd.mem) :
               LET ks == [cmd.mem EXCEPT ![k] =
                            signingRecord(cmd.scope, cmd.alg, cmd.root,
                                          IF cmd.op = "rotate" THEN Null ELSE cmd.date)] IN
               flush(ks, IF cmd.op = "issue-signing" THEN NoCommand
                         ELSE [cmd EXCEPT !.at = "link", !.mem = ks, !.new = k])
       \/ exit

\* rotateSigning's second update.
Link ==
    /\ cmd.op = "rotate" /\ cmd.at = "link"
    /\ flush([cmd.mem EXCEPT ![cmd.new] = linked(@, cmd.out)], NoCommand)

Kill == /\ cmd.op # "idle" /\ kills < MaxKills /\ kills' = kills + 1
        /\ exit

----------------------------------------------------------------------------
CliInit == file = [k \in Kids |-> NoKey] /\ cmd = NoCommand /\ kills = 0

CliNext ==
    \/ /\ \/ \E op \in {"make-root", "issue-signing", "rotate"}, s \in Scopes, a \in Algs,
                r \in Kids \cup {Null}, d \in Dates \cup {Null} :
                /\ op = "make-root" => d = Null
                /\ op = "make-root" <=> r = Null
                /\ Run(op, s, a, r, d)
          \/ MakeRoot \/ Demote \/ CliIssueSigning \/ Link
       /\ UNCHANGED kills
    \/ Kill

CliSpec == CliInit /\ [][CliNext]_cliVars

----------------------------------------------------------------------------
\* The file and the command are well formed.
CliTypeOK == /\ file \in [Kids -> LicenseKey]
             /\ cmd \in Command
             /\ kills \in 0..MaxKills

\* Commands that fail or are killed between two flushes never leave two
\* active signing keys of one scope and algorithm, which rotate refuses as
\* "not recoverable here".
CliOneActivePerScopeAlg ==
    \A j, k \in Kids :
        /\ file[j].role = "signing" /\ file[j].state = "active"
        /\ file[k].role = "signing" /\ file[k].state = "active"
        /\ file[j].scope = file[k].scope /\ file[j].alg = file[k].alg
        => j = k

\* Tokens outlive rotations because the key they name stays in the file: no
\* command, finished or not, drops a key or changes whose it is.
CliKeysStay ==
    [][\A k \in Kids :
         file[k].role # "none" =>
           /\ file'[k].role = file[k].role /\ file'[k].scope = file[k].scope
           /\ file'[k].alg = file[k].alg]_cliVars

\* key-hierarchy.ts: methods "either complete fully and persist, or throw
\* before persisting partial state".  Between commands, a scope and algorithm
\* that ever had a signer has one.
CliSignerNeverLost == cmd.op = "idle" => RetiredHasSuccessor(file)

\* key-hierarchy.ts: "At most one active signing key per (scope_id, role)".
CliOneActivePerScope == OneActivePerScope(file)

\* key-hierarchy.ts: verifyAttestation serves "a post-rotation audit": every
\* signing key of the file passes it.
CliKeysAttested == AttestationsHold(file)
=============================================================================
