------------------------------- MODULE Migrations -------------------------------
(***************************************************************************)
(* Opening the database (SqliteStorage::open, migration/runner.rs,         *)
(* migration/versioning.rs, migrations/001 and 002), by several processes  *)
(* at once: the server, and a CLI command that opens the same file.        *)
(*                                                                         *)
(* execute_batch wraps the statements of a version in no transaction: each *)
(* commits on its own, an exit leaves the ones already done, and another   *)
(* process may run between two of them.  Statement 5 of version 1 records  *)
(* the version; version 2 records nothing, so every opening runs it again. *)
(***************************************************************************)
EXTENDS Naturals, Sequences

CONSTANTS
  Processes,   (* processes that open the database                         *)
  Memories,    (* memories with a summary                                  *)
  None,        (* no memory                                                *)
  MaxOpens,    (* bound: openings                                          *)
  MaxFaults,   (* bound: statements that fail, connections refused         *)
  MaxKills     (* bound: exits of a process at an arbitrary point          *)

ASSUME MigrationsAssumption ==
  /\ None \notin Memories
  /\ MaxOpens \in Nat
  /\ MaxFaults \in Nat
  /\ MaxKills \in Nat

(* CURRENT_VERSION                                                         *)
Current == 2
Versions == 1 .. Current
Sessions == 1 .. MaxOpens

VARIABLES
  step,      (* step[p]: what the process does next                        *)
  at,        (* at[p]: the version and the statement it runs               *)
  session,   (* session[p]: the number of its latest opening               *)
  pending,   (* pending[p]: the memory whose index row it still owes       *)
  tables,    (* the tables of the database                                 *)
  recorded,  (* the rows of schema_version                                 *)
  rows,      (* the rows of memories                                       *)
  fts,       (* fts[m]: how many rows of memories_fts name m               *)
  log,       (* log[s][v]: the row of migration_log for that attempt       *)
  seen,      (* history: rows when the process began to open               *)
  hurt,      (* history: openings in which a statement failed              *)
  opens,     (* openings so far                                            *)
  faults,    (* failures so far                                            *)
  kills      (* exits so far                                               *)

database == <<tables, recorded, rows, fts>>
history == <<session, seen, opens>>
vars == <<step, at, pending, database, log, hurt, history, faults, kills>>

Base == {"schema_version", "migration_log", "memories", "others"}
AllTables == Base \cup {"memories_fts"}
Steps == {"closed", "check", "read", "log", "run", "succeed", "fail",
          "reader", "open", "index", "refused", "failed"}
Statuses == {"none", "in_progress", "success", "failed"}

(* get_current_version: no table and no row both read as 0.                *)
Newest == IF recorded = {} THEN 0 ELSE CHOOSE v \in recorded : \A w \in recorded : w <= v

(* Mutant of Statements: the version is recorded before its tables exist.  *)
StatementsVersionFirst(v) ==
  IF v = 1
  THEN <<"schema_version", "record", "migration_log", "memories", "others">>
  ELSE <<"memories_fts", "populate">>

(* Mutant of Statements: version 2 is recorded, so it runs only once.      *)
StatementsOnce(v) ==
  IF v = 1
  THEN <<"schema_version", "migration_log", "memories", "others", "record">>
  ELSE <<"memories_fts", "populate", "record">>

(* The SQL of a version.  A table's name stands for its CREATE TABLE IF    *)
(* NOT EXISTS; "others" for the tables and indexes nothing here reads;     *)
(* "record" for INSERT OR IGNORE INTO schema_version; "populate" for the   *)
(* INSERT ... SELECT of all memories into the full-text index.             *)
Statements(v) ==
  IF v = 1
  THEN <<"schema_version", "migration_log", "memories", "others", "record">>
  ELSE <<"memories_fts", "populate">>

(* Stores a process may find: none, one of the first release, and one that *)
(* a later release has migrated.                                           *)
Fresh == tables = {} /\ recorded = {} /\ rows = {}
FirstRelease == tables = Base /\ recorded = {1} /\ rows \in SUBSET Memories
LaterRelease == tables = AllTables /\ recorded = {1, Current + 1} /\ rows \in SUBSET Memories

Init ==
  /\ step = [p \in Processes |-> "closed"]
  /\ at = [p \in Processes |-> [version |-> 1, next |-> 1]]
  /\ session = [p \in Processes |-> 0]
  /\ pending = [p \in Processes |-> None]
  /\ Fresh \/ FirstRelease \/ LaterRelease
  /\ fts = [m \in Memories |-> 0]
  /\ log = [s \in Sessions |-> [v \in Versions |-> "none"]]
  /\ seen = [p \in Processes |-> {}]
  /\ hurt = {}
  /\ opens = 0
  /\ faults = 0
  /\ kills = 0

Goto(p, s) == step' = [step EXCEPT ![p] = s]
Statement(p) == Statements(at[p].version)[at[p].next]

(* A process starts, or one that was refused tries again.                  *)
Open(p) ==
  /\ step[p] \in {"closed", "refused", "failed"}
  /\ opens < MaxOpens
  /\ opens' = opens + 1
  /\ session' = [session EXCEPT ![p] = opens + 1]
  /\ seen' = [seen EXCEPT ![p] = rows]
  /\ Goto(p, "check")
  /\ UNCHANGED <<at, pending, database, log, hurt, faults, kills>>

(* check_compatibility.                                                    *)
Check(p) ==
  /\ step[p] = "check"
  /\ Goto(p, IF Newest > Current THEN "refused" ELSE "read")
  /\ UNCHANGED <<at, pending, database, log, hurt, history, faults, kills>>

(* run_migrations reads the version a second time and starts behind it.    *)
ReadVersion(p) ==
  /\ step[p] = "read"
  /\ IF Newest >= Current
     THEN Goto(p, "reader") /\ UNCHANGED at
     ELSE /\ Goto(p, "log")
          /\ at' = [at EXCEPT ![p] = [version |-> Newest + 1, next |-> 1]]
  /\ UNCHANGED <<pending, database, log, hurt, history, faults, kills>>

(* A write to migration_log.  Its error is dropped: a missing table, or a  *)
(* failure that Faulty counts.  The UPDATE finds only rows that exist.     *)
LogRow(p) == log[session[p]][at[p].version]
SetLog(p, status) == log' = [log EXCEPT ![session[p]][at[p].version] = status]

Unlogged ==
  /\ UNCHANGED log
  /\ faults < MaxFaults
  /\ faults' = faults + 1

LogStart(p) ==
  /\ step[p] = "log"
  /\ Goto(p, "run")
  /\ \/ Unlogged
     \/ /\ IF "migration_log" \in tables THEN SetLog(p, "in_progress") ELSE UNCHANGED log
        /\ UNCHANGED faults
  /\ UNCHANGED <<at, pending, database, hurt, history, kills>>

(* Mutant of Refused: CREATE TABLE without IF NOT EXISTS.                  *)
RefusedIfThere(s) ==
  IF s \in AllTables THEN s \in tables
  ELSE IF s = "record" THEN "schema_version" \notin tables
  ELSE ~ ({"memories", "memories_fts"} \subseteq tables)

(* SQLite refuses a statement only for a table it needs: what is there     *)
(* already is no error, for CREATE IF NOT EXISTS and for INSERT OR IGNORE. *)
Refused(s) ==
  IF s \in AllTables THEN FALSE
  ELSE IF s = "record" THEN "schema_version" \notin tables
  ELSE ~ ({"memories", "memories_fts"} \subseteq tables)

Advance(p) ==
  /\ at' = [at EXCEPT ![p].next = @ + 1]
  /\ Goto(p, IF at[p].next < Len(Statements(at[p].version)) THEN "run" ELSE "succeed")

(* One statement of execute_batch, committed by itself.                    *)
CreateTable(p) ==
  /\ step[p] = "run"
  /\ Statement(p) \in AllTables
  /\ ~ Refused(Statement(p))
  /\ tables' = tables \cup {Statement(p)}
  /\ Advance(p)
  /\ UNCHANGED <<pending, recorded, rows, fts, log, hurt, history, faults, kills>>

RecordVersion(p) ==
  /\ step[p] = "run"
  /\ Statement(p) = "record"
  /\ ~ Refused(Statement(p))
  /\ recorded' = recorded \cup {at[p].version}
  /\ Advance(p)
  /\ UNCHANGED <<pending, tables, rows, fts, log, hurt, history, faults, kills>>

(* INSERT INTO memories_fts ... SELECT, for memories indexed already too.  *)
Populate(p) ==
  /\ step[p] = "run"
  /\ Statement(p) = "populate"
  /\ ~ Refused(Statement(p))
  /\ fts' = [m \in Memories |-> IF m \in rows THEN fts[m] + 1 ELSE fts[m]]
  /\ Advance(p)
  /\ UNCHANGED <<pending, tables, recorded, rows, log, hurt, history, faults, kills>>

(* The statement fails: refused by what it finds, or by a full disk or a   *)
(* lock that stays taken, and then the opening is hurt.                    *)
StatementFails(p) ==
  /\ step[p] = "run"
  /\ Refused(Statement(p)) \/ faults < MaxFaults
  /\ IF Refused(Statement(p))
     THEN UNCHANGED <<hurt, faults>>
     ELSE faults' = faults + 1 /\ hurt' = hurt \cup {session[p]}
  /\ Goto(p, "fail")
  /\ UNCHANGED <<at, pending, database, log, history, kills>>

(* log_migration_complete with "success", and on to the next version.      *)
Succeed(p) ==
  /\ step[p] = "succeed"
  /\ \/ Unlogged
     \/ /\ IF LogRow(p) = "none" THEN UNCHANGED log ELSE SetLog(p, "success")
        /\ UNCHANGED faults
  /\ IF at[p].version < Current
     THEN /\ at' = [at EXCEPT ![p] = [version |-> at[p].version + 1, next |-> 1]]
          /\ Goto(p, "log")
     ELSE Goto(p, "reader") /\ UNCHANGED at
  /\ UNCHANGED <<pending, database, hurt, history, kills>>

(* log_migration_complete with "failed"; open returns the error.           *)
FailMigration(p) ==
  /\ step[p] = "fail"
  /\ \/ Unlogged
     \/ /\ IF LogRow(p) = "none" THEN UNCHANGED log ELSE SetLog(p, "failed")
        /\ UNCHANGED faults
  /\ Goto(p, "failed")
  /\ UNCHANGED <<at, pending, database, hurt, history, kills>>

(* The read connection; open fails if it cannot be had.                    *)
OpenReader(p) ==
  /\ step[p] = "reader"
  /\ \/ Goto(p, "open") /\ UNCHANGED <<hurt, faults>>
     \/ /\ faults < MaxFaults
        /\ faults' = faults + 1
        /\ hurt' = hurt \cup {session[p]}
        /\ Goto(p, "failed")
  /\ UNCHANGED <<at, pending, database, log, history, kills>>

(* do_retain on an open database: the row, then its index row.             *)
RetainRow(p, m) ==
  /\ step[p] = "open"
  /\ m \notin rows
  /\ "memories" \in tables
  /\ rows' = rows \cup {m}
  /\ pending' = [pending EXCEPT ![p] = m]
  /\ Goto(p, "index")
  /\ UNCHANGED <<at, tables, recorded, fts, log, hurt, history, faults, kills>>

(* The index row of a retain.  Its error is dropped.                       *)
RetainIndex(p) ==
  /\ step[p] = "index"
  /\ \/ /\ IF "memories_fts" \in tables
           THEN fts' = [fts EXCEPT ![pending[p]] = @ + 1]
           ELSE UNCHANGED fts
        /\ UNCHANGED faults
     \/ faults < MaxFaults /\ faults' = faults + 1 /\ UNCHANGED fts
  /\ pending' = [pending EXCEPT ![p] = None]
  /\ Goto(p, "open")
  /\ UNCHANGED <<at, tables, recorded, rows, log, hurt, history, kills>>

(* The process ends: the command is done, or it exits wherever it is.      *)
Close(p) ==
  /\ step[p] # "closed"
  /\ \/ step[p] \in {"open", "refused", "failed"} /\ UNCHANGED kills
     \/ /\ step[p] \notin {"open", "refused", "failed"}
        /\ kills < MaxKills
        /\ kills' = kills + 1
  /\ pending' = [pending EXCEPT ![p] = None]
  /\ Goto(p, "closed")
  /\ UNCHANGED <<at, database, log, hurt, history, faults>>

Next ==
  \E p \in Processes :
    \/ Open(p) \/ Check(p) \/ ReadVersion(p) \/ LogStart(p)
    \/ CreateTable(p) \/ RecordVersion(p) \/ Populate(p) \/ StatementFails(p)
    \/ Succeed(p) \/ FailMigration(p) \/ OpenReader(p)
    \/ \E m \in Memories : RetainRow(p, m)
    \/ RetainIndex(p) \/ Close(p)

Spec == Init /\ [][Next]_vars

--------------------------------------------------------------------------------
Ready == {"reader", "open", "index"}
Indexed == {m \in Memories : fts[m] > 0}

(* Type invariant of the database and of the processes that open it; only  *)
(* the three kinds of stores and what migrating them leaves exist.         *)
TypeOK ==
  /\ step \in [Processes -> Steps]
  /\ at \in [Processes -> [version : Versions, next : 1 .. 6]]
  /\ session \in [Processes -> 0 .. MaxOpens]
  /\ pending \in [Processes -> Memories \cup {None}]
  /\ tables \subseteq AllTables
  /\ recorded \subseteq {1, Current + 1}
  /\ rows \subseteq Memories
  /\ fts \in [Memories -> Nat]
  /\ log \in [Sessions -> [Versions -> Statuses]]
  /\ seen \in [Processes -> SUBSET Memories]
  /\ hurt \subseteq Sessions
  /\ opens \in 0 .. MaxOpens
  /\ faults \in 0 .. MaxFaults
  /\ kills \in 0 .. MaxKills

(* A process that has opened the database finds every table it will use,   *)
(* and no schema it does not know, whatever exits, failures and other      *)
(* openings went before.  It holds because the version is recorded by the  *)
(* last statement of migrations/001, so who reads it can rely on the rest. *)
OpenIsReady ==
  \A p \in Processes : step[p] \in Ready => tables = AllTables /\ Newest <= Current

(* An opening fails only if something failed in that very opening: no      *)
(* half-done migration of an earlier exit, and no concurrent one, can make *)
(* a statement of run_migrations fail.                                     *)
OnlyFaultsFail ==
  \A p \in Processes : step[p] = "failed" => session[p] \in hurt

(* Opening the database repairs the full-text index: each memory that was  *)
(* there when a process began to open is in the index once it has opened,  *)
(* also one whose index row do_retain lost, by an exit or a dropped error. *)
(* (It is the repeated version 2 that repairs.)                            *)
OpenRepairsIndex ==
  \A p \in Processes : step[p] \in Ready => seen[p] \subseteq Indexed

(* migration_log can be believed: an attempt logged as a success has left  *)
(* its tables, and one logged as failed belongs to an opening in which a   *)
(* statement failed.                                                       *)
LogTellsOutcome ==
  \A s \in Sessions, v \in Versions :
    /\ log[s][v] = "success" => IF v = 1 THEN Base \subseteq tables ELSE tables = AllTables
    /\ log[s][v] = "failed" => s \in hurt

(* migration/runner.rs, test_idempotent_migration: running the migrations  *)
(* of an up-to-date database again is a no-op.  It is not: Populate has    *)
(* already indexed what it indexes again.                                  *)
RerunIsNoOp ==
  [][\A p \in Processes :
       step[p] = "run" /\ tables = AllTables /\ rows \subseteq Indexed => UNCHANGED fts]_vars
================================================================================
