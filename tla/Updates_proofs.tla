---------------------------- MODULE Updates_proofs ----------------------------
(***************************************************************************)
(* What is proved of the migrator and the updater for any number of        *)
(* migrations and updates, any tables that they create, any set of commands*)
(* and any number of failures: the stored version, the updates that have   *)
(* run and the tables agree, up to what a broken-off drop leaves behind.   *)
(***************************************************************************)
EXTENDS Updates, TLAPS

(* All updates up to the k-th have succeeded on the tables there are.      *)
Covered(k) == \A v \in Updates : v <= k => ran[v] > 0

(* From the end of Up on the schema is complete: nothing moves it before   *)
(* the process ends.                                                       *)
SchemaComplete ==
    pc \in {"load", "update", "store", "serving"} => schema = MaxSchema /\ ~ dirty

(* Between the two marks of a migration the version is dirty.  If nothing  *)
(* was broken off, a clean version tells which tables there are.           *)
TablesFit ==
    /\ pc \in {"migrating", "clean"} => dirty
    /\ pc \in {"drop", "up"} => command # "down"
    /\ pc = "down" => command = "down"
    /\ pc = "migrating" /\ command # "down" => schema > 0
    /\ pc = "migrating" /\ command = "down" => schema < MaxSchema
    /\ ~ torn =>
         /\ ~ dirty \/ pc = "clean" => tables = 1..schema
         /\ pc = "migrating" =>
              tables = 1..(IF command = "down" THEN schema + 1 ELSE schema - 1)

(* What the tables hold: systemparams the stored version, the tables of    *)
(* base.yml the effect of the first update.                                *)
ContentFits ==
    /\ ParamsSchema \notin tables => version = -1
    /\ pc \in {"update", "store", "serving"} => ParamsSchema \in tables
    /\ tables = {} => ran = Never
    /\ ran[0] > 0 => rows = SeedTables

(* What the loop of Run has in its variables is true of the database; Store*)
(* turns it into the stored version.                                       *)
RunHonest ==
    /\ pc \in {"update", "store"} => initial = version /\ (~ torn => Covered(current))
    /\ pc = "store" /\ ~ failed => current = Last
    /\ pc = "serving" => version = Last

IInv == /\ VersionHonest /\ AppliedInOrder /\ SchemaComplete
        /\ TablesFit /\ ContentFits /\ RunHonest

-----------------------------------------------------------------------------
(* Types                                                                   *)

LEMMA InitTypes == Init => TypeOK
<1> SUFFICES ASSUME Init
             PROVE  TypeOK
  OBVIOUS
<1>1. dirty \in BOOLEAN /\ torn \in BOOLEAN /\ failed \in BOOLEAN
  BY Zenon DEF Init
<1> QED
  BY <1>1, UpdatesAssumption DEF Init, TypeOK, Never, AllCommands, Updates

(* The Boolean variables.                                                  *)
LEMMA BooleansStay ==
  TypeOK /\ [Next]_vars => dirty' \in BOOLEAN /\ torn' \in BOOLEAN /\ failed' \in BOOLEAN
<1> SUFFICES ASSUME TypeOK, [Next]_vars
             PROVE  dirty' \in BOOLEAN /\ torn' \in BOOLEAN /\ failed' \in BOOLEAN
  OBVIOUS
<1>0. dirty \in BOOLEAN /\ torn \in BOOLEAN /\ failed \in BOOLEAN
  BY DEF TypeOK
<1>1. CASE Drop
  BY <1>0, <1>1, Zenon DEF Drop, DropTable, DropVersion, Goto, Exit, updater, database, content
<1>2. CASE Up
  BY <1>0, <1>2, Zenon DEF Up, AfterUp, Goto, Exit, updater, content
<1>3. CASE Down
  BY <1>0, <1>3, Zenon DEF Down, Goto, Exit, updater, content
<1>4. CASE RunMigration
  BY <1>0, <1>4, Zenon DEF RunMigration, DropTable, CreateTable, Goto, Exit, updater, content
<1>5. CASE Migrated
  BY <1>0, <1>5, Zenon DEF Migrated, Goto, updater, content
<1>6. CASE Load
  BY <1>0, <1>6, Zenon DEF Load, Exit, database, content
<1>7. CASE RunUpdate
  BY <1>0, <1>7, Zenon DEF RunUpdate, Break
<1>8. CASE Store
  BY <1>0, <1>8, Zenon DEF Store, Goto, Exit, updater
<1>9. CASE Pollute
  BY <1>0, <1>9, Zenon DEF Pollute, Exit
<1>10. CASE Stop \/ Kill
  BY <1>0, <1>10, Zenon DEF Stop, Kill, Exit, database, content
<1>11. ASSUME NEW c \in Commands, Start(c)
       PROVE  dirty' \in BOOLEAN /\ torn' \in BOOLEAN /\ failed' \in BOOLEAN
  BY <1>0, <1>11, Zenon DEF Start, database, content, updater
<1>12. CASE UNCHANGED vars
  BY <1>0, <1>12, Zenon DEF vars, database, content, updater
<1> QED
  BY <1>1, <1>2, <1>3, <1>4, <1>5, <1>6, <1>7, <1>8, <1>9, <1>10, <1>11, <1>12 DEF Next, Step

(* A fault counts, within its bound.                                       *)
LEMMA FaultCounts ==
  ASSUME TypeOK, NEW point, Fault(point)
  PROVE  faults' \in 0..MaxFaults
BY UpdatesAssumption DEF TypeOK, Fault

(* Dropping a table keeps the types of what is in the database.            *)
LEMMA DropTypes ==
  ASSUME TypeOK, NEW t \in 1..MaxSchema, DropTable(t)
  PROVE  /\ tables' \subseteq 1..MaxSchema /\ rows' \subseteq SeedTables
         /\ version' \in -1..Last /\ ran' \in [Updates -> 0..2]
<1>1. tables' \subseteq 1..MaxSchema /\ rows' \subseteq SeedTables
  BY DEF DropTable, TypeOK
<1>2. version' \in -1..Last
  BY UpdatesAssumption DEF DropTable, TypeOK
<1>3. Never \in [Updates -> 0..2]
  BY DEF Never
<1>4. [ran EXCEPT ![0] = IF t \in SeedTables THEN 0 ELSE @] \in [Updates -> 0..2]
  BY UpdatesAssumption DEF TypeOK, Updates
<1> QED
  BY <1>1, <1>2, <1>3, <1>4 DEF DropTable

LEMMA NextTypes == TypeOK /\ TablesFit /\ [Next]_vars => TypeOK'
<1> SUFFICES ASSUME TypeOK, TablesFit, [Next]_vars
             PROVE  TypeOK'
  OBVIOUS
<1>0. dirty' \in BOOLEAN /\ torn' \in BOOLEAN /\ failed' \in BOOLEAN
  BY BooleansStay
<1> USE <1>0, UpdatesAssumption, FaultCounts
<1>1. CASE Drop
  <2>1. /\ tables' \subseteq 1..MaxSchema /\ rows' \subseteq SeedTables
        /\ version' \in -1..Last /\ ran' \in [Updates -> 0..2]
    <3>1. CASE \E t \in tables : DropTable(t)
      BY <3>1, DropTypes DEF TypeOK
    <3>2. CASE UNCHANGED <<tables, rows, version, ran>>
      BY <3>2 DEF TypeOK
    <3> QED
      BY <1>1, <3>1, <3>2 DEF Drop, DropVersion, database, content
  <2>2. schema' \in {schema, 0}
    BY <1>1 DEF Drop, DropVersion, database
  <2>3. /\ command' \in {command, "none"} /\ pc' \in {"up", "drop", "none"}
        /\ initial' \in -1..Last /\ current' \in -1..Last
        /\ exit' \in {exit, "failed"} /\ faults' \in 0..MaxFaults
    BY <1>1 DEF Drop, Goto, Exit, updater, TypeOK
  <2> QED
    BY <2>1, <2>2, <2>3 DEF TypeOK
<1>2. CASE Up
  <2>1. UNCHANGED content /\ schema' \in {schema, schema + 1} /\ schema' \in 0..MaxSchema
    BY <1>2 DEF Up, TypeOK
  <2>2. /\ command' \in {command, "none"} /\ pc' \in {"none", "migrating", "load", "pollute"}
        /\ initial' \in -1..Last /\ current' \in -1..Last
        /\ exit' \in {exit, "ok", "failed"} /\ faults' = faults
    BY <1>2 DEF Up, AfterUp, Goto, Exit, updater, TypeOK
  <2> QED
    BY <2>1, <2>2 DEF content, TypeOK
<1>3. CASE Down
  <2>1. UNCHANGED content /\ schema' \in 0..MaxSchema
    BY <1>3 DEF Down, TypeOK
  <2>2. /\ command' \in {command, "none"} /\ pc' \in {"none", "migrating"}
        /\ initial' \in -1..Last /\ current' \in -1..Last
        /\ exit' \in {exit, "ok", "failed"} /\ faults' = faults
    BY <1>3 DEF Down, Goto, Exit, updater, TypeOK
  <2> QED
    BY <2>1, <2>2 DEF content, TypeOK
<1>4. CASE RunMigration
  <2>0. pc = "migrating" /\ (command = "down" => schema + 1 \in 1..MaxSchema)
        /\ (command # "down" => schema \in 1..MaxSchema)
    BY <1>4 DEF RunMigration, TablesFit, TypeOK
  <2>1. /\ tables' \subseteq 1..MaxSchema /\ rows' \subseteq SeedTables
        /\ version' \in -1..Last /\ ran' \in [Updates -> 0..2]
    <3>1. CASE command = "down" /\ DropTable(schema + 1)
      BY <2>0, <3>1, DropTypes
    <3>2. CASE command # "down" /\ CreateTable(schema)
      BY <2>0, <3>2 DEF CreateTable, TypeOK
    <3>3. CASE UNCHANGED content
      BY <3>3 DEF content, TypeOK
    <3> QED
      BY <1>4, <3>1, <3>2, <3>3 DEF RunMigration
  <2>2. /\ command' \in {command, "none"} /\ pc' \in {"clean", "none"} /\ schema' = schema
        /\ initial' \in -1..Last /\ current' \in -1..Last
        /\ exit' \in {exit, "failed"} /\ faults' \in 0..MaxFaults
    BY <1>4 DEF RunMigration, Goto, Exit, updater, TypeOK
  <2> QED
    BY <2>1, <2>2 DEF TypeOK
<1>5. CASE Migrated
  BY <1>5 DEF Migrated, Goto, updater, content, TypeOK
<1>6. CASE Load
  BY <1>6 DEF Load, Exit, database, content, TypeOK
<1>7. CASE RunUpdate
  <2>1. ran' \in [Updates -> 0..2] /\ current' \in -1..Last
    BY <1>7 DEF RunUpdate, Break, TypeOK, Updates
  <2>2. pc' \in {"update", "store"} /\ faults' \in 0..MaxFaults
    BY <1>7 DEF RunUpdate, Break, TypeOK
  <2>3. rows' \subseteq SeedTables
    BY <1>7 DEF RunUpdate, FailedEffect, Effect, TypeOK
  <2> QED
    BY <1>7, <2>1, <2>2, <2>3 DEF RunUpdate, TypeOK
<1>8. CASE Store
  <2>1. /\ UNCHANGED <<schema, dirty, tables, rows, ran, torn>>
        /\ version' \in -1..Last /\ faults' \in 0..MaxFaults
    BY <1>8 DEF Store, NewVersion, TypeOK
  <2>2. /\ command' \in {command, "none"} /\ pc' \in {"none", "serving"}
        /\ initial' \in -1..Last /\ current' \in -1..Last /\ exit' \in {exit, "failed"}
    BY <1>8 DEF Store, Goto, Exit, updater, TypeOK
  <2> QED
    BY <2>1, <2>2 DEF TypeOK
<1>9. CASE Pollute
  <2>1. /\ UNCHANGED <<schema, dirty, tables, version, ran, torn>>
        /\ rows' \subseteq SeedTables /\ faults' \in 0..MaxFaults
    BY <1>9 DEF Pollute, Effect, FailedEffect, TypeOK
  <2>2. /\ command' = "none" /\ pc' = "none"
        /\ initial' \in -1..Last /\ current' \in -1..Last /\ exit' \in {"ok", "failed"}
    BY <1>9 DEF Pollute, Exit
  <2> QED
    BY <2>1, <2>2 DEF TypeOK
<1>10. CASE Stop \/ Kill
  <2>1. UNCHANGED database /\ faults' \in 0..MaxFaults
    BY <1>10 DEF Stop, Kill, TypeOK
  <2>2. /\ command' = "none" /\ pc' = "none"
        /\ initial' \in -1..Last /\ current' \in -1..Last /\ exit' \in {"ok", "killed"}
    BY <1>10 DEF Stop, Kill, Exit
  <2> QED
    BY <2>1, <2>2 DEF database, content, TypeOK
<1>11. ASSUME NEW c \in Commands, Start(c)
       PROVE  TypeOK'
  BY <1>11 DEF Start, database, content, updater, TypeOK, AllCommands
<1>12. CASE UNCHANGED vars
  BY <1>12 DEF vars, database, content, updater, TypeOK
<1> QED
  BY <1>1, <1>2, <1>3, <1>4, <1>5, <1>6, <1>7, <1>8, <1>9, <1>10, <1>11, <1>12 DEF Next, Step

-----------------------------------------------------------------------------
(* The invariant                                                           *)

LEMMA InitEstablishes == Init => IInv
BY UpdatesAssumption
DEF Init, IInv, VersionHonest, AppliedInOrder, SchemaComplete, TablesFit, ContentFits,
    RunHonest, Never, Updates

(* A step that leaves the database alone and ends a process, or begins one,*)
(* keeps the invariant.                                                    *)
LEMMA DatabaseKept ==
  ASSUME IInv, UNCHANGED database, pc' \in {"none", "drop", "up", "down"},
         pc' \in {"drop", "up"} => command' # "down",
         pc' = "down" => command' = "down"
  PROVE  IInv'
BY DEF IInv, VersionHonest, AppliedInOrder, SchemaComplete, TablesFit, ContentFits,
       RunHonest, database, content

(* Away from Run, the parts about what the updates have done follow from   *)
(* the content alone.                                                      *)
LEMMA ContentKept ==
  ASSUME IInv, UNCHANGED content, pc' \notin {"update", "store", "serving"}
  PROVE  VersionHonest' /\ AppliedInOrder' /\ ContentFits' /\ RunHonest'
BY DEF IInv, VersionHonest, AppliedInOrder, ContentFits, RunHonest, content

(* A dropped table takes with it what the updates put into it; only the    *)
(* last one ends the exception.                                            *)
LEMMA DropKeeps ==
  ASSUME TypeOK, IInv, NEW t \in 1..MaxSchema, DropTable(t),
         pc' \notin {"update", "store", "serving"}
  PROVE  /\ VersionHonest' /\ AppliedInOrder' /\ ContentFits' /\ RunHonest'
         /\ ~ torn' => tables' = {} /\ schema = 0
<1>1. ~ torn' => tables' = {} /\ schema = 0
  BY DEF DropTable
<1>2. ParamsSchema \notin tables' => version' = -1
  BY DEF DropTable, IInv, ContentFits
<1>3. tables' = {} => ran' = Never /\ version' = -1
  BY <1>2 DEF DropTable
<1>4. VersionHonest' /\ AppliedInOrder'
  BY <1>1, <1>3, UpdatesAssumption DEF VersionHonest, AppliedInOrder, Never, Updates
<1>5. ran'[0] > 0 => rows' = SeedTables
  <2>1. CASE tables' = {}
    BY <1>3, <2>1, UpdatesAssumption DEF Never, Updates
  <2>2. CASE tables' # {}
    <3>1. 0 \in Updates /\ ran' = [ran EXCEPT ![0] = IF t \in SeedTables THEN 0 ELSE @]
      BY <2>2, UpdatesAssumption DEF DropTable, Updates
    <3>2. ran'[0] > 0 => t \notin SeedTables /\ ran[0] > 0
      BY <3>1 DEF TypeOK
    <3> QED
      BY <3>2 DEF DropTable, IInv, ContentFits
  <2> QED
    BY <2>1, <2>2
<1> QED
  BY <1>1, <1>2, <1>3, <1>4, <1>5 DEF ContentFits, RunHonest

(* The migrator.                                                           *)
LEMMA MigratorPreserves ==
  ASSUME TypeOK, TypeOK', IInv, Drop \/ Up \/ Down \/ RunMigration \/ Migrated
  PROVE  IInv'
<1> USE UpdatesAssumption
<1>1. CASE Drop
  <2>0. /\ pc' \in {"up", "drop", "none"}
        /\ pc' \in {"up", "drop"} => command' # "down"
    BY <1>1 DEF Drop, Goto, Exit, IInv, TablesFit
  <2>1. ASSUME NEW t \in tables, DropTable(t), UNCHANGED <<schema, dirty>>
        PROVE  IInv'
    <3>1. t \in 1..MaxSchema
      BY DEF TypeOK
    <3>2. /\ VersionHonest' /\ AppliedInOrder' /\ ContentFits' /\ RunHonest'
          /\ ~ torn' => tables' = {} /\ schema = 0
      BY <2>0, <2>1, <3>1, DropKeeps
    <3>3. 1..0 = {}
      OBVIOUS
    <3> QED
      BY <2>0, <2>1, <3>2, <3>3 DEF IInv, SchemaComplete, TablesFit
  <2>2. CASE DropVersion
    <3>0. ~ torn' => tables' = {} /\ version' = -1 /\ ran' = Never /\ schema' = 0
      BY <2>2 DEF DropVersion, IInv, ContentFits
    <3>1. VersionHonest' /\ AppliedInOrder'
      BY <3>0 DEF VersionHonest, AppliedInOrder, Never, Updates
    <3>2. TablesFit'
      <4>1. 1..0 = {}
        OBVIOUS
      <4> QED
        BY <2>0, <3>0, <4>1 DEF TablesFit
    <3> QED
      BY <2>0, <2>2, <3>1, <3>2 DEF DropVersion, IInv, ContentFits, SchemaComplete, RunHonest
  <2>3. CASE UNCHANGED database
    BY <2>0, <2>3, DatabaseKept
  <2> QED
    BY <1>1, <2>1, <2>2, <2>3 DEF Drop
<1>2. CASE Up
  <2>1. UNCHANGED content
    BY <1>2 DEF Up
  <2>2. \/ pc' \in {"none", "pollute"} /\ UNCHANGED <<schema, dirty>>
        \/ pc' = "migrating" /\ ~ dirty /\ dirty' /\ schema' = schema + 1
           /\ command' = command
        \/ pc' = "load" /\ schema = MaxSchema /\ ~ dirty /\ UNCHANGED <<schema, dirty>>
    BY <1>2 DEF Up, AfterUp, Goto, Exit
  <2>3. VersionHonest' /\ AppliedInOrder' /\ ContentFits' /\ RunHonest'
    BY <2>1, <2>2, ContentKept
  <2>4. TablesFit' /\ SchemaComplete'
    <3>0. tables' = tables /\ torn' = torn /\ command # "down"
      BY <1>2, <2>1 DEF content, Up, IInv, TablesFit
    <3>1. ~ torn /\ ~ dirty => tables = 1..schema
      BY DEF IInv, TablesFit
    <3>2. schema \in Int /\ (schema + 1) - 1 = schema
      BY DEF TypeOK
    <3> QED
      BY <2>2, <3>0, <3>1, <3>2 DEF SchemaComplete, TablesFit, TypeOK
  <2> QED
    BY <2>3, <2>4 DEF IInv
<1>3. CASE Down
  <2>1. UNCHANGED content
    BY <1>3 DEF Down
  <2>2. \/ pc' = "none" /\ UNCHANGED <<schema, dirty>>
        \/ pc' = "migrating" /\ ~ dirty /\ dirty' /\ schema' = schema - 1 /\ schema > 0
           /\ command' = command
    BY <1>3 DEF Down, Goto, Exit
  <2>3. VersionHonest' /\ AppliedInOrder' /\ ContentFits' /\ RunHonest'
    BY <2>1, <2>2, ContentKept
  <2>4. TablesFit' /\ SchemaComplete'
    <3>0. tables' = tables /\ torn' = torn /\ command = "down"
      BY <1>3, <2>1 DEF content, Down, IInv, TablesFit
    <3>1. ~ torn /\ ~ dirty => tables = 1..schema
      BY DEF IInv, TablesFit
    <3>2. schema \in 0..MaxSchema /\ (schema - 1) + 1 = schema
      BY DEF TypeOK
    <3> QED
      BY <2>2, <3>0, <3>1, <3>2 DEF SchemaComplete, TablesFit
  <2> QED
    BY <2>3, <2>4 DEF IInv
<1>4. CASE RunMigration
  <2>0. /\ pc = "migrating" /\ pc' \in {"clean", "none"} /\ UNCHANGED <<schema, dirty>>
        /\ dirty /\ dirty'
    BY <1>4 DEF RunMigration, Goto, Exit, IInv, TablesFit
  <2>1. CASE command = "down" /\ DropTable(schema + 1)
    <3>1. schema + 1 \in 1..MaxSchema
      BY <2>0, <2>1 DEF IInv, TablesFit, TypeOK
    <3>2. /\ VersionHonest' /\ AppliedInOrder' /\ ContentFits' /\ RunHonest'
          /\ ~ torn' => tables' = {} /\ schema = 0
      BY <2>0, <2>1, <3>1, DropKeeps
    <3>3. 1..0 = {}
      OBVIOUS
    <3> QED
      BY <2>0, <3>2, <3>3 DEF IInv, SchemaComplete, TablesFit
  <2>2. CASE command # "down" /\ CreateTable(schema)
    <3>1. tables' = tables \cup {schema} /\ UNCHANGED <<rows, version, ran, torn>>
      BY <2>2 DEF CreateTable
    <3>2. ~ torn => tables' = 1..schema
      BY <2>0, <2>2, <3>1 DEF IInv, TablesFit, TypeOK
    <3> QED
      BY <2>0, <3>1, <3>2 DEF IInv, VersionHonest, AppliedInOrder, ContentFits, RunHonest,
                              SchemaComplete, TablesFit
  <2>3. CASE pc' = "none" /\ UNCHANGED content
    BY <2>0, <2>3, DatabaseKept DEF database
  <2> QED
    BY <1>4, <2>1, <2>2, <2>3 DEF RunMigration, Exit
<1>5. CASE Migrated
  <2>1. pc = "clean" /\ pc' \in {"up", "down"} /\ UNCHANGED <<schema, content>> /\ ~ dirty'
    BY <1>5 DEF Migrated, Goto
  <2>2. pc' = "up" => command' # "down"
    BY <1>5 DEF Migrated, Goto
  <2>3. pc' = "down" => command' = "down"
    BY <1>5 DEF Migrated, Goto
  <2> QED
    BY <2>1, <2>2, <2>3, ContentKept DEF IInv, SchemaComplete, TablesFit, content
<1> QED
  BY <1>1, <1>2, <1>3, <1>4, <1>5

(* Run and the seed command.                                               *)
LEMMA UpdaterPreserves ==
  ASSUME TypeOK, TypeOK', IInv, Load \/ RunUpdate \/ Store \/ Pollute
  PROVE  IInv'
<1> USE UpdatesAssumption
<1>1. CASE Load
  <2>1. CASE pc' = "update"
    <3>1. /\ UNCHANGED database /\ initial' = version /\ current' = version /\ pc = "load"
          /\ ParamsSchema \in tables
      BY <1>1, <2>1 DEF Load, Exit
    <3> QED
      BY <2>1, <3>1 DEF IInv, VersionHonest, AppliedInOrder, SchemaComplete, TablesFit,
                        ContentFits, RunHonest, Covered, database, content
  <2>2. CASE pc' # "update"
    BY <1>1, <2>2, DatabaseKept DEF Load, Exit
  <2> QED
    BY <2>1, <2>2
<1>2. CASE RunUpdate
  <2>1. /\ pc = "update" /\ pc' \in {"update", "store"}
        /\ UNCHANGED <<schema, dirty, tables, version, torn, initial>>
    BY <1>2 DEF RunUpdate, Break
  <2>2. SchemaComplete' /\ TablesFit'
    BY <2>1 DEF IInv, SchemaComplete, TablesFit
  <2>3. \/ ran' = ran /\ current' = current /\ rows' = rows
        \/ /\ current' = current + 1 /\ current + 1 \in Updates
           /\ ran' = [ran EXCEPT ![current + 1] = IF @ = 0 THEN 1 ELSE 2]
           /\ rows' = IF current + 1 = 0 THEN SeedTables ELSE rows
    BY <1>2 DEF RunUpdate, Break, FailedEffect, Effect, TypeOK, Updates
  <2>4. ~ torn => Covered(current)
    BY <2>1 DEF IInv, RunHonest
  <2>5. /\ \A v \in Updates : ran[v] > 0 => ran'[v] > 0
        /\ current' = current + 1 => ran'[current + 1] > 0
        /\ \A v \in Updates : ran'[v] > 0 => ran[v] > 0 \/ v = current'
        /\ current' \in {current, current + 1}
    BY <2>3 DEF TypeOK, Updates
  <2>6. ~ torn => Covered(current)'
    BY <2>4, <2>5 DEF Covered, Updates, TypeOK
  <2>7. VersionHonest'
    BY <2>1, <2>5 DEF IInv, VersionHonest
  <2>8. AppliedInOrder'
    BY <2>1, <2>5, <2>6 DEF IInv, AppliedInOrder, Covered, Updates, TypeOK
  <2>9. pc' = "store" /\ ~ failed' => current' = Last
    BY <1>2 DEF RunUpdate, Break
  <2>10. ran'[0] > 0 => rows' = SeedTables
    <3>1. CASE ran' = ran /\ rows' = rows
      BY <3>1 DEF IInv, ContentFits
    <3>2. CASE current + 1 = 0 /\ rows' = SeedTables
      BY <3>2
    <3>3. CASE /\ current + 1 # 0 /\ rows' = rows
               /\ ran' = [ran EXCEPT ![current + 1] = IF @ = 0 THEN 1 ELSE 2]
      <4>1. ran'[0] = ran[0]
        BY <3>3 DEF TypeOK, Updates
      <4> QED
        BY <3>3, <4>1 DEF IInv, ContentFits
    <3> QED
      BY <2>3, <3>1, <3>2, <3>3
  <2>11. ContentFits'
    BY <2>1, <2>10 DEF IInv, ContentFits
  <2> QED
    BY <2>1, <2>2, <2>6, <2>7, <2>8, <2>9, <2>11 DEF IInv, RunHonest
<1>3. CASE Store
  <2>1. /\ pc = "store" /\ pc' \in {"none", "serving"}
        /\ UNCHANGED <<schema, dirty, tables, rows, ran, torn>>
        /\ version' \in {version, current}
        /\ pc' = "serving" => version' = current /\ ~ failed
    BY <1>3 DEF Store, NewVersion, Goto, Exit, IInv, RunHonest
  <2>2. (~ torn => Covered(current)) /\ (~ failed => current = Last)
        /\ ParamsSchema \in tables
    BY <2>1 DEF IInv, RunHonest, ContentFits
  <2>3. VersionHonest' /\ AppliedInOrder'
    BY <2>1, <2>2 DEF IInv, VersionHonest, AppliedInOrder, Covered
  <2> QED
    BY <2>1, <2>2, <2>3 DEF IInv, SchemaComplete, TablesFit, ContentFits, RunHonest
<1>4. CASE Pollute
  <2>1. /\ UNCHANGED <<schema, dirty, tables, version, ran, torn>> /\ pc' = "none"
        /\ rows' = rows \/ rows' = SeedTables
    BY <1>4 DEF Pollute, Effect, FailedEffect, Exit
  <2> QED
    BY <2>1 DEF IInv, VersionHonest, AppliedInOrder, SchemaComplete, TablesFit, ContentFits,
                RunHonest
<1> QED
  BY <1>1, <1>2, <1>3, <1>4

LEMMA NextPreserves == TypeOK /\ TypeOK' /\ IInv /\ [Next]_vars => IInv'
<1> SUFFICES ASSUME TypeOK, TypeOK', IInv, [Next]_vars
             PROVE  IInv'
  OBVIOUS
<1>1. CASE Drop \/ Up \/ Down \/ RunMigration \/ Migrated
  BY <1>1, MigratorPreserves
<1>2. CASE Load \/ RunUpdate \/ Store \/ Pollute
  BY <1>2, UpdaterPreserves
<1>3. CASE Stop \/ Kill
  BY <1>3, DatabaseKept DEF Stop, Kill, Exit
<1>4. ASSUME NEW c \in Commands, Start(c)
      PROVE  IInv'
  BY <1>4, DatabaseKept DEF Start
<1>5. CASE UNCHANGED vars
  BY <1>5 DEF vars, database, content, updater, IInv, VersionHonest, AppliedInOrder,
              SchemaComplete, TablesFit, ContentFits, RunHonest, Covered
<1> QED
  BY <1>1, <1>2, <1>3, <1>4, <1>5 DEF Next, Step

THEOREM Invariance == Spec => [](TypeOK /\ IInv)
<1>1. Init => TypeOK /\ IInv
  BY InitTypes, InitEstablishes
<1>2. TypeOK /\ IInv /\ [Next]_vars => TypeOK' /\ IInv'
  BY NextTypes, NextPreserves DEF IInv
<1> QED
  BY <1>1, <1>2, PTL DEF Spec

(* The types: versions, counters and tables stay in their ranges, so no    *)
(* migration is run that is not there.                                     *)
THEOREM TypeCorrect == Spec => []TypeOK
BY Invariance, PTL

(* VersionHonest: setCurrentVersion never stores a version that covers an  *)
(* update which has not succeeded on the tables there are, however Run,    *)
(* migrate and seed fail, are killed and follow each other, until a down or*)
(* a drop is broken off; and again once one has gone to the end.           *)
THEOREM StoredVersionIsHonest == Spec => []VersionHonest
<1>1. IInv => VersionHonest
  BY DEF IInv
<1> QED
  BY <1>1, Invariance, PTL

(* AppliedInOrder: the updates run in the order of the list in update.go,  *)
(* and none is left out of the tables there are, with the same exception.  *)
THEOREM UpdatesAreOrdered == Spec => []AppliedInOrder
<1>1. IInv => AppliedInOrder
  BY DEF IInv
<1> QED
  BY <1>1, Invariance, PTL

(* ServingUpToDate: serve starts the server only behind all migrations and *)
(* all updates, as far as the two versions tell; and, unless a down or a   *)
(* drop was broken off, with every table and with the base rows in them.   *)
THEOREM ServedDatabaseIsUpToDate == Spec => []ServingUpToDate
<1>1. TypeOK /\ IInv => ServingUpToDate
  <2> SUFFICES ASSUME TypeOK, IInv, pc = "serving"
               PROVE  /\ schema = MaxSchema /\ ~ dirty /\ version = Last
                      /\ ~ torn => /\ tables = 1..MaxSchema /\ rows = SeedTables
                                   /\ \A v \in Updates : ran[v] > 0
    BY DEF ServingUpToDate
  <2>1. schema = MaxSchema /\ ~ dirty /\ version = Last
    BY DEF IInv, SchemaComplete, RunHonest
  <2>2. ~ torn => \A v \in Updates : ran[v] > 0
    BY <2>1 DEF IInv, VersionHonest, Updates
  <2>3. ~ torn => tables = 1..MaxSchema
    BY <2>1 DEF IInv, TablesFit
  <2>4. ~ torn => rows = SeedTables
    BY <2>2, UpdatesAssumption DEF IInv, ContentFits, Updates
  <2> QED
    BY <2>1, <2>2, <2>3, <2>4
<1> QED
  BY <1>1, Invariance, PTL
=============================================================================
