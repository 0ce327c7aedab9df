----------------------------- MODULE Migrations -----------------------------
(***************************************************************************)
(* The migrations of the database (internal/store/db.go: RunMigrations;    *)
(* migrations/*.sql).                                                      *)
(*                                                                         *)
(* A start of the server goes through the files in order.  Each statement  *)
(* changes the schema at once: MySQL commits around every CREATE and ALTER,*)
(* whatever the transaction, and so does the INSERT of the version that    *)
(* follows.  A statement that fails ends the start, and module Server may  *)
(* end the process between any two steps.                                  *)
(***************************************************************************)
EXTENDS Integers, Sequences

CONSTANTS
    Schema,     \* for each file in order, its statements: "once" fails when it
                \* was executed before, "again" (IF NOT EXISTS, or conditional) does not
    Edited,     \* the files that may be edited
    NoSum

ASSUME MigrationsAssumption ==
    /\ Schema \in Seq(Seq({"once", "again"}))
    /\ NoSum \notin BOOLEAN

VARIABLES
    tables,     \* statements that took effect
    versions,   \* schema_versions: the checksum of each file that was recorded
    sums,       \* the checksum of each file now; an edit leaves its statements
    at          \* how far the process has come

schemaVars == <<tables, versions, sums, at>>

Migration == 1..Len(Schema)
Statements(m) == {m} \X (1..Len(Schema[m]))

Sums == BOOLEAN
Idle == [file |-> 0, stmt |-> 0, sum |-> NoSum]
LoopTop(m) == [file |-> m, stmt |-> 0, sum |-> NoSum]
Done == LoopTop(Len(Schema) + 1)

MigrationsTypeOK ==
    /\ tables \subseteq UNION {Statements(m) : m \in Migration}
    /\ versions \in [Migration -> Sums \cup {NoSum}]
    /\ sums \in [Migration -> Sums]
    /\ \/ at = Idle
       \/ \E m \in 1..Len(Schema) + 1 : at = LoopTop(m)
       \/ /\ at.file \in Migration
          /\ at \in [file : {at.file}, stmt : 1..Len(Schema[at.file]) + 1, sum : Sums]

MigrationsInit ==
    /\ tables = {}
    /\ versions = [m \in Migration |-> NoSum]
    /\ sums = [m \in Migration |-> TRUE]
    /\ at = Idle

EditMigration(m) ==
    /\ sums' = [sums EXCEPT ![m] = ~@]
    /\ UNCHANGED <<tables, versions, at>>

-----------------------------------------------------------------------------
(* RunMigrations *)

\* CREATE TABLE IF NOT EXISTS schema_versions, and the versions it holds: one
\* process runs, so that they stay as they are but for what it records itself.
ReadVersions ==
    /\ at = Idle
    /\ at' = LoopTop(1)
    /\ UNCHANGED <<tables, versions, sums>>

InLoop == at.file \in Migration
Opening == InLoop /\ at.stmt = 0
Executing == InLoop /\ at.stmt \in 1..Len(Schema[at.file])
Recording == InLoop /\ at.stmt = Len(Schema[at.file]) + 1

SkipApplied ==
    /\ Opening
    /\ versions[at.file] = sums[at.file]
    /\ at' = LoopTop(at.file + 1)
    /\ UNCHANGED <<tables, versions, sums>>

\* "checksum has changed": the start fails.
ChecksumChanged == Opening /\ versions[at.file] \notin {NoSum, sums[at.file]}

\* Mutant: the version is recorded before the statements.
OpenRecorded ==
    /\ Opening
    /\ versions[at.file] = NoSum
    /\ versions' = [versions EXCEPT ![at.file] = sums[at.file]]
    /\ at' = [at EXCEPT !.stmt = 1, !.sum = sums[at.file]]
    /\ UNCHANGED <<tables, sums>>

OpenFile ==
    /\ Opening
    /\ versions[at.file] = NoSum
    /\ at' = [at EXCEPT !.stmt = 1, !.sum = sums[at.file]]
    /\ UNCHANGED <<tables, versions, sums>>

\* Mutant: every statement can be executed again.
ExistsNever == FALSE

\* The table or the column is there: the statement fails.
Exists ==
    /\ Executing
    /\ Schema[at.file][at.stmt] = "once"
    /\ <<at.file, at.stmt>> \in tables

Execute ==
    /\ Executing
    /\ ~Exists
    /\ tables' = tables \cup {<<at.file, at.stmt>>}
    /\ at' = [at EXCEPT !.stmt = @ + 1]
    /\ UNCHANGED <<versions, sums>>

InsertVersion == versions' = [versions EXCEPT ![at.file] = at.sum]

Record ==
    /\ Recording
    /\ InsertVersion
    /\ at' = LoopTop(at.file + 1)
    /\ UNCHANGED <<tables, sums>>

Migrate == ReadVersions \/ SkipApplied \/ OpenFile \/ Execute \/ Record

-----------------------------------------------------------------------------
(* Properties *)

Recorded(m) == versions[m] # NoSum

\* A file whose version is recorded has had all its effects, and so has every
\* file before it.
RecordedIsWhole ==
    \A m \in Migration : Recorded(m) =>
        /\ Statements(m) \subseteq tables
        /\ \A l \in Migration : l < m => Recorded(l)

\* The files before the one in hand are recorded, and its statements so far executed.
AtIsSound ==
    /\ at.file > 0 => \A l \in Migration : l < at.file => Recorded(l)
    /\ at.stmt > 0 => \A i \in 1..Len(Schema[at.file]) : i < at.stmt => <<at.file, i>> \in tables

\* A file that was cut short after a statement that cannot be executed again.
Torn(m) ==
    /\ ~Recorded(m)
    /\ \E i \in 1..Len(Schema[m]) : Schema[m][i] = "once" /\ <<m, i>> \in tables
    /\ ~(at.file = m /\ \A i \in 1..Len(Schema[m]) :
            Schema[m][i] = "once" /\ <<m, i>> \in tables => i < at.stmt)
=============================================================================
