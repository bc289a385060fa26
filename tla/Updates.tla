------------------------------- MODULE Updates -------------------------------
(***************************************************************************)
(* How the database gets its structure and its base data: the commands     *)
(* serve, seed and migrate (cmd/), each run by an operator in a process of *)
(* its own, one at a time; db.Migrator (pkg/db/migration.go) and           *)
(* app.Updater (internal/app/update.go).  What a command has done to the   *)
(* database stays when its process is killed or a statement of it fails.   *)
(*                                                                         *)
(* External: golang-migrate, which marks the schema version dirty before a *)
(* migration and clean behind it, refuses to work on a dirty one, and whose*)
(* Drop drops one table behind the other, that of the version among them;  *)
(* MySQL, where each CREATE and DROP TABLE commits by itself; polluter,    *)
(* which inserts all rows or none.  The tables of one migration come and go*)
(* together here.                                                          *)
(***************************************************************************)
EXTENDS Integers

CONSTANTS
    MaxSchema,    \* the number of migrations
    ParamsSchema, \* the migration that creates systemparams
    SeedTables,   \* the migrations that create the tables of base.yml
    Strict,       \* the migrations that fail if their tables are there
    Last,         \* the index of the last update function
    Commands,     \* the commands operators run
    FaultPoints,  \* where a process may fail or be killed
    MaxFaults     \* bound: failures and kills in one behaviour

AllCommands == {"serve", "seed", "up", "down", "fresh"}
AllFaultPoints == {"kill", "drop", "migration", "load", "update", "store"}

ASSUME UpdatesAssumption ==
    /\ MaxSchema \in Nat /\ ParamsSchema \in 2..MaxSchema
    /\ SeedTables \subseteq 1..MaxSchema /\ SeedTables # {}
    /\ Strict \subseteq 1..MaxSchema /\ ParamsSchema \in Strict
    /\ Last \in Nat /\ MaxFaults \in Nat
    /\ Commands \subseteq AllCommands /\ FaultPoints \subseteq AllFaultPoints

VARIABLES
    \* the database
    schema,  \* the version in schema_migrations
    dirty,   \* its dirty flag
    tables,  \* the migrations whose tables are there
    rows,    \* those among SeedTables that have the rows of base.yml
    version, \* update_version in systemparams; -1 if there is none
    \* the process
    command, \* the command that runs
    pc,      \* where it is
    initial, current, failed, \* Updater.Run: initial, current, resultingError
    exit,    \* how the last process ended
    \* bound
    faults,
    \* history: how often each update function has succeeded on the tables
    \* there are now (2 stands for more than once); has a process dropped
    \* tables and left others, or their version, behind?
    ran, torn

content  == <<tables, rows, version, ran, torn>>
database == <<schema, dirty, content>>
updater  == <<initial, current, failed>>
vars     == <<database, command, pc, updater, exit, faults>>

Updates == 0..Last
Never == [v \in Updates |-> 0]

Init ==
    /\ schema = 0 /\ dirty = FALSE /\ tables = {} /\ rows = {} /\ version = -1
    /\ command = "none" /\ pc = "none"
    /\ initial = -1 /\ current = -1 /\ failed = FALSE
    /\ exit = "ok" /\ faults = 0 /\ ran = Never /\ torn = FALSE

(* The process is over; all it leaves is in the database.                  *)
Exit(how) ==
    /\ command' = "none" /\ pc' = "none" /\ exit' = how
    /\ initial' = -1 /\ current' = -1 /\ failed' = FALSE

Goto(label) == pc' = label /\ UNCHANGED <<command, updater, exit>>

Fault(point) == point \in FaultPoints /\ faults < MaxFaults /\ faults' = faults + 1

Start(c) ==
    /\ pc = "none"
    /\ command' = c
    /\ pc' = CASE c \in {"serve", "up"} -> "up" [] c = "down" -> "down" [] OTHER -> "drop"
    /\ UNCHANGED <<database, updater, exit, faults>>

-----------------------------------------------------------------------------
(* Migrator                                                                *)

(* DROP TABLE IF EXISTS for the tables of a migration: what the updates put*)
(* into them is gone, and update_version with systemparams.                *)
DropTable(t) ==
    /\ tables' = tables \ {t} /\ rows' = rows \ {t}
    /\ version' = IF t = ParamsSchema THEN -1 ELSE version
    /\ ran' = IF tables' = {} THEN Never
              ELSE [ran EXCEPT ![0] = IF t \in SeedTables THEN 0 ELSE @]
    /\ torn' = (tables' # {} \/ schema # 0)

DropVersion ==
    /\ schema' = 0 /\ dirty' = FALSE
    /\ torn' = (tables # {})
    /\ UNCHANGED <<tables, rows, version, ran>>

Bare == tables = {} /\ schema = 0 /\ ~ dirty

(* Fresh: Drop, then, unless it failed, Up.                                *)
Drop ==
    /\ pc = "drop"
    /\ \/ Bare /\ Goto("up") /\ UNCHANGED <<database, faults>>
       \/ /\ ~ Bare
          /\ \/ /\ Goto("drop") /\ UNCHANGED faults
                /\ \/ \E t \in tables : DropTable(t) /\ UNCHANGED <<schema, dirty>>
                   \/ (schema # 0 \/ dirty) /\ DropVersion
             \/ Fault("drop") /\ Exit("failed") /\ UNCHANGED database

(* What follows Up: Updater.Run, the seeds, or nothing.                    *)
AfterUp ==
    CASE command = "serve" -> Goto("load")
      [] command = "seed"  -> Goto("pollute")
      [] OTHER             -> Exit("ok")

(* Mutant: ErrNoChange is an error.                                        *)
UpNoChange ==
    /\ pc = "up"
    /\ \/ (dirty \/ schema = MaxSchema) /\ Exit("failed") /\ UNCHANGED <<schema, dirty>>
       \/ ~ dirty /\ schema < MaxSchema /\ Goto("migrating")
          /\ schema' = schema + 1 /\ dirty' = TRUE
    /\ UNCHANGED <<content, faults>>

Up ==
    /\ pc = "up"
    /\ \/ dirty /\ Exit("failed") /\ UNCHANGED <<schema, dirty>>
       \/ ~ dirty /\ schema = MaxSchema /\ AfterUp /\ UNCHANGED <<schema, dirty>>
       \/ ~ dirty /\ schema < MaxSchema /\ Goto("migrating")
          /\ schema' = schema + 1 /\ dirty' = TRUE
    /\ UNCHANGED <<content, faults>>

(* Down goes from version to version too, and marks the one it comes to.   *)
Down ==
    /\ pc = "down"
    /\ \/ dirty /\ Exit("failed") /\ UNCHANGED <<schema, dirty>>
       \/ ~ dirty /\ schema = 0 /\ Exit("ok") /\ UNCHANGED <<schema, dirty>>
       \/ ~ dirty /\ schema > 0 /\ Goto("migrating")
          /\ schema' = schema - 1 /\ dirty' = TRUE
    /\ UNCHANGED <<content, faults>>

CreateTable(t) ==
    /\ t \in tables => t \notin Strict
    /\ tables' = tables \cup {t}
    /\ UNCHANGED <<rows, version, ran, torn>>

(* The statements of a migration; if they fail the version stays dirty.    *)
RunMigration ==
    /\ pc = "migrating"
    /\ \/ /\ IF command = "down" THEN DropTable(schema + 1) ELSE CreateTable(schema)
          /\ Goto("clean")
          /\ UNCHANGED faults
       \/ /\ \/ Fault("migration")
             \/ command # "down" /\ schema \in tables \cap Strict /\ UNCHANGED faults
          /\ Exit("failed")
          /\ UNCHANGED content
    /\ UNCHANGED <<schema, dirty>>

Migrated ==
    /\ pc = "clean"
    /\ dirty' = FALSE
    /\ Goto(IF command = "down" THEN "down" ELSE "up")
    /\ UNCHANGED <<schema, content, faults>>

-----------------------------------------------------------------------------
(* Updater and the seed command                                            *)

(* getCurrentVersion fails if there is no table to read it from.           *)
Load ==
    /\ pc = "load"
    /\ \/ /\ ParamsSchema \in tables
          /\ initial' = version /\ current' = version
          /\ pc' = "update"
          /\ UNCHANGED <<command, failed, exit, faults>>
       \/ /\ Fault("load") \/ (ParamsSchema \notin tables /\ UNCHANGED faults)
          /\ Exit("failed")
    /\ UNCHANGED database

(* The first update inserts the base rows, which needs their tables without*)
(* a row of them; the others are placeholders in the code.                 *)
Applies(v) == v = 0 => rows = {} /\ SeedTables \subseteq tables
Effect(v)  == IF v = 0 THEN SeedTables ELSE rows

(* Mutants: a failed update is passed over; it is counted; the result is   *)
(* lost.                                                                   *)
RunsOn == current' = current + 1 /\ UNCHANGED <<pc, failed>>
CountsFailed == current' = current + 1 /\ failed' = TRUE /\ pc' = "store"
FailsQuietly == pc' = "store" /\ UNCHANGED <<current, failed>>

(* What an update that failed leaves in the database: nothing.             *)
FailedEffect == UNCHANGED rows

(* The loop is left with an error.                                         *)
Break == failed' = TRUE /\ pc' = "store" /\ UNCHANGED current

(* The loop of Run: the next update behind current, or the end.  The ones  *)
(* it skips are those up to current.                                       *)
RunUpdate ==
    /\ pc = "update"
    /\ \/ /\ current = Last
          /\ pc' = "store"
          /\ UNCHANGED <<rows, ran, current, failed, faults>>
       \/ LET v == current + 1
          IN /\ v <= Last
             /\ Applies(v)
             /\ rows' = Effect(v)
             /\ ran' = [ran EXCEPT ![v] = IF @ = 0 THEN 1 ELSE 2]
             /\ current' = v
             /\ UNCHANGED <<pc, failed, faults>>
       \/ /\ current < Last
          /\ \/ Fault("update")
             \/ ~ Applies(current + 1) /\ UNCHANGED faults
          /\ FailedEffect /\ Break
          /\ UNCHANGED ran
    /\ UNCHANGED <<schema, dirty, tables, version, torn, command, initial, exit>>

(* setCurrentVersion gets the last update that succeeded.                  *)
NewVersion == current

(* The end of Run: nothing to update, or the version is stored, after an   *)
(* error too.                                                              *)
Store ==
    /\ pc = "store"
    /\ \/ /\ initial = current /\ ~ failed
          /\ Goto("serving")
          /\ UNCHANGED <<version, faults>>
       \/ /\ initial # current \/ failed
          /\ \/ /\ version' = NewVersion
                /\ IF failed THEN Exit("failed") ELSE Goto("serving")
                /\ UNCHANGED faults
             \/ Fault("store") /\ Exit("failed") /\ UNCHANGED version
    /\ UNCHANGED <<schema, dirty, tables, rows, ran, torn>>

(* The rows of base.yml again, this time by the seed command.              *)
Pollute ==
    /\ pc = "pollute"
    /\ \/ Applies(0) /\ rows' = Effect(0) /\ Exit("ok") /\ UNCHANGED faults
       \/ /\ Fault("update") \/ (~ Applies(0) /\ UNCHANGED faults)
          /\ FailedEffect /\ Exit("failed")
    /\ UNCHANGED <<schema, dirty, tables, version, ran, torn>>

(* The server is stopped by a signal.                                      *)
Stop == pc = "serving" /\ Exit("ok") /\ UNCHANGED <<database, faults>>

(* The process is killed, at any point.                                    *)
Kill == pc # "none" /\ Fault("kill") /\ Exit("killed") /\ UNCHANGED database

Step == Drop \/ Up \/ Down \/ RunMigration \/ Migrated
        \/ Load \/ RunUpdate \/ Store \/ Pollute

Next == Step \/ Stop \/ Kill \/ \E c \in Commands : Start(c)

Spec == Init /\ [][Next]_vars

(* A process that runs goes on, and whatever else operators do between,    *)
(* they start the server again and again.                                  *)
FairSpec == Spec /\ WF_vars(Step) /\ SF_vars(Start("serve"))

-----------------------------------------------------------------------------
TypeOK ==
    /\ schema \in 0..MaxSchema /\ dirty \in BOOLEAN /\ torn \in BOOLEAN
    /\ tables \subseteq 1..MaxSchema /\ rows \subseteq SeedTables
    /\ version \in -1..Last
    /\ command \in AllCommands \cup {"none"}
    /\ pc \in {"none", "drop", "up", "down", "migrating", "clean", "load", "update",
               "store", "pollute", "serving"}
    /\ initial \in -1..Last /\ current \in -1..Last /\ failed \in BOOLEAN
    /\ exit \in {"ok", "failed", "killed"}
    /\ faults \in 0..MaxFaults
    /\ ran \in [Updates -> 0..2]

(* The stored version never covers an update that has not succeeded on     *)
(* these tables, wherever Run failed or was killed and whatever migrate    *)
(* did to the tables between two runs.  Excepted are tables that a down or *)
(* a drop left behind when it was killed or failed in the middle.          *)
VersionHonest == ~ torn => \A v \in Updates : v <= version => ran[v] > 0

(* An update never runs on tables that an earlier one has not prepared,    *)
(* with the same exception.                                                *)
AppliedInOrder ==
    ~ torn => \A v \in Updates : ran[v] > 0 => \A w \in 0..v : ran[w] > 0

(* The server is only started when the schema's version is the last and    *)
(* clean and the stored version the last.  If no down or drop was broken   *)
(* off in the middle, then all tables are there, all updates have succeeded*)
(* on them, and the base rows are in.                                      *)
ServingUpToDate ==
    pc = "serving" =>
        /\ schema = MaxSchema /\ ~ dirty /\ version = Last
        /\ ~ torn => /\ tables = 1..MaxSchema /\ rows = SeedTables
                     /\ \A v \in Updates : ran[v] > 0

(* Without the exception it does not hold: a server comes up on tables that*)
(* a broken-off down has emptied, or a broken-off drop has taken away.     *)
ServingOnBaseRows == pc = "serving" => rows = SeedTables

(* Only migrate fresh or down, or a hand, gets the database out of this    *)
(* state.                                                                  *)
Stuck ==
    \/ dirty
    \/ ParamsSchema \in (1..schema) \ tables
    \/ version = -1 /\ (rows # {} \/ ~ (SeedTables \cap (1..schema) \subseteq tables))

(* update.go: "Failed ones are retried."  Updates that fail do not keep the*)
(* server down: it comes up again and again, or the database is stuck again*)
(* and again in a state that no update can change.                         *)
FailedAreRetried == []<>(pc = "serving") \/ []<>Stuck

(* update.go: someUpdate is there "to show that this method is only run    *)
(* once when starting the server."                                         *)
OnlyRunOnce == \A v \in Updates : ran[v] <= 1

(* README.md: "Use the `seed` command to populate the database with        *)
(* initial seed data", then "the `serve` command to start the backend      *)
(* server": unless something failed before, no command fails.              *)
CommandsSucceed == exit = "failed" => faults > 0
=============================================================================
