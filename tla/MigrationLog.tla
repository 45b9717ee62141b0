----------------------------- MODULE MigrationLog -----------------------------
(***************************************************************************)
(* What operators rely on when several processes migrate one database      *)
(* (internal/migration): the schema is a log of migrations.  A migration   *)
(* is only ever appended to it, one at a time, in the order of the         *)
(* versions; none is skipped, repeated, replaced or taken back.            *)
(***************************************************************************)
EXTENDS Naturals, Sequences

CONSTANT Migrations     \* checksums of migration files

VARIABLE log            \* what was run on the database, in order

Init == log = <<>>

Migrate ==
    \E m \in Migrations :
        log' = Append(log, [version |-> Len(log) + 1, migration |-> m])

Spec == Init /\ [][Migrate]_log
=============================================================================
