------------------------------- MODULE Workspace -------------------------------
(***************************************************************************)
(* The files the crate keeps beside its storage: the backups with their    *)
(* clean-up (backup/) and the checkpoint of a reindex                      *)
(* (migration/reindex.rs).  A file is written with fs::write, which empties *)
(* it first and fills it then; another process may look in between, and    *)
(* the writing may fail.                                                   *)
(***************************************************************************)
EXTENDS Integers, Sequences, SequencesExt, Functions

CONSTANTS
    Path,            \* the paths of backup files
    NoPath,
    Retention,       \* the retention counts a clean-up may be called with
    MaxClock,        \* modification times are 0 .. MaxClock
    MaxProcessed,    \* the largest count a checkpoint holds
    MaxDiskFaults

ASSUME WorkspaceAssumption ==
    /\ NoPath \notin Path /\ Retention \subseteq Nat
    /\ MaxClock \in Nat /\ MaxProcessed \in Nat /\ MaxDiskFaults \in Nat

VARIABLES
    clock,
    backups,         \* the backup files: when each was last written, and whether it is whole
    copying,         \* the path whose file create_backup has emptied and not filled yet
    cleaning,        \* the clean-up under way
    checkpoint,      \* the file of the reindex state: Absent, Torn, or the count in it
    saving,          \* the count save_reindex_state is writing, NoCount if none
    started,         \* the count of the last save that began since the file was cleared, NoCount if none
    diskFaults

backupVars == <<clock, backups, copying, cleaning>>
checkpointVars == <<checkpoint, saving, started>>
workspaceVars == <<clock, backups, copying, cleaning, checkpoint, saving, started, diskFaults>>

Absent == -1
Torn == -2
NoCount == -1

NotCleaning == [keep |-> 0, unread |-> {}, listed |-> <<>>, left |-> <<>>, busy |-> FALSE]

WorkspaceInit ==
    /\ clock = 0 /\ backups = <<>> /\ copying = NoPath /\ cleaning = NotCleaning
    /\ checkpoint = Absent /\ saving = NoCount /\ started = NoCount
    /\ diskFaults = 0

DiskFault == diskFaults < MaxDiskFaults /\ diskFaults' = diskFaults + 1

Tick == clock < MaxClock /\ clock' = clock + 1
        /\ UNCHANGED <<backups, copying, cleaning, diskFaults>> /\ UNCHANGED checkpointVars

------------------------------------------------------------------------------
(* Backups.                                                                *)

\* create_backup up to the point where the file is there and empty.
BeginBackup(path) ==
    /\ copying = NoPath
    /\ copying' = path
    /\ backups' = [p \in DOMAIN backups \cup {path} |->
                     IF p = path THEN [mtime |-> clock, whole |-> FALSE] ELSE backups[p]]
    /\ UNCHANGED <<clock, cleaning, diskFaults>> /\ UNCHANGED checkpointVars

\* What is written to a file that was removed meanwhile is lost.
WriteBackup ==
    /\ copying # NoPath
    /\ copying' = NoPath
    /\ backups' = IF copying \in DOMAIN backups
                  THEN [backups EXCEPT ![copying] = [mtime |-> clock, whole |-> TRUE]] ELSE backups
    /\ UNCHANGED <<clock, cleaning, diskFaults>> /\ UNCHANGED checkpointVars

\* The write fails or the process ends: the file stays as it is.
BreakBackup ==
    /\ copying # NoPath
    /\ copying' = NoPath
    /\ DiskFault
    /\ UNCHANGED <<clock, backups, cleaning>> /\ UNCHANGED checkpointVars

\* A file that is not whole is no JSON.
VerifyBackup(path) == path \in DOMAIN backups /\ backups[path].whole

\* cleanup_old_backups reads the directory entry by entry, in any order.  A file that comes or goes
\* meanwhile may be among the entries or not.
BeginCleanup(keep) ==
    /\ ~ cleaning.busy
    /\ cleaning' = [NotCleaning EXCEPT !.keep = keep, !.unread = Path, !.busy = TRUE]
    /\ UNCHANGED <<clock, backups, copying, diskFaults>> /\ UNCHANGED checkpointVars

\* Mutant of Rank: the oldest first, as an ascending sort gives it.
RankFromOldest(listed, i) ==
    Cardinality({j \in DOMAIN listed : \/ listed[j].mtime < listed[i].mtime
                                      \/ (listed[j].mtime = listed[i].mtime /\ j < i)})

\* How many entries the stable sort, newest first, puts in front of an entry.
Rank(listed, i) ==
    Cardinality({j \in DOMAIN listed : \/ listed[j].mtime > listed[i].mtime
                                      \/ (listed[j].mtime = listed[i].mtime /\ j < i)})

\* The sorted entries without the first `keep`.
Surplus(listed, keep) ==
    [k \in 1 .. Len(listed) - keep |-> listed[CHOOSE i \in DOMAIN listed : Rank(listed, i) = keep + k - 1]]

ReadEntry(path) ==
    /\ path \in cleaning.unread
    /\ LET listed == IF path \in DOMAIN backups
                     THEN Append(cleaning.listed, [path |-> path, mtime |-> backups[path].mtime])
                     ELSE cleaning.listed
       IN  cleaning' = [cleaning EXCEPT !.unread = @ \ {path}, !.listed = listed,
                                        !.left = Surplus(listed, cleaning.keep)]
    /\ UNCHANGED <<clock, backups, copying, diskFaults>> /\ UNCHANGED checkpointVars

RemoveNext ==
    /\ cleaning.busy /\ cleaning.unread = {} /\ cleaning.left # <<>>
    /\ backups' = Restrict(backups, DOMAIN backups \ {Head(cleaning.left).path})
    /\ cleaning' = [cleaning EXCEPT !.left = Tail(@)]
    /\ UNCHANGED <<clock, copying, diskFaults>> /\ UNCHANGED checkpointVars

FinishCleanup ==
    /\ cleaning.busy /\ cleaning.unread = {} /\ cleaning.left = <<>>
    /\ cleaning' = NotCleaning
    /\ UNCHANGED <<clock, backups, copying, diskFaults>> /\ UNCHANGED checkpointVars

\* An entry that cannot be read or a file that cannot be removed ends it, with what is done done.
FailCleanup ==
    /\ cleaning.busy
    /\ cleaning' = NotCleaning
    /\ DiskFault
    /\ UNCHANGED <<clock, backups, copying>> /\ UNCHANGED checkpointVars

------------------------------------------------------------------------------
(* The checkpoint of a reindex.                                            *)

BeginSave(processed) ==
    /\ saving = NoCount
    /\ saving' = processed
    /\ started' = processed
    /\ checkpoint' = Torn
    /\ UNCHANGED diskFaults /\ UNCHANGED backupVars

FinishSave ==
    /\ saving # NoCount
    /\ saving' = NoCount
    /\ checkpoint' = IF checkpoint = Absent THEN Absent ELSE saving
    /\ UNCHANGED <<started, diskFaults>> /\ UNCHANGED backupVars

BreakSave ==
    /\ saving # NoCount
    /\ saving' = NoCount
    /\ DiskFault
    /\ UNCHANGED <<checkpoint, started>> /\ UNCHANGED backupVars

ClearReindexState ==
    /\ checkpoint' = Absent
    /\ started' = NoCount
    /\ UNCHANGED <<saving, diskFaults>> /\ UNCHANGED backupVars

\* Mutant of LoadReindexState: what cannot be parsed counts as no checkpoint.
LoadOrForget ==
    IF checkpoint \in {Absent, Torn} THEN [outcome |-> "none"]
    ELSE [outcome |-> "loaded", processed |-> checkpoint]

\* load_reindex_state: nothing saved, an error, or the count.
LoadReindexState ==
    CASE checkpoint = Absent -> [outcome |-> "none"]
      [] checkpoint = Torn -> [outcome |-> "error"]
      [] OTHER -> [outcome |-> "loaded", processed |-> checkpoint]

------------------------------------------------------------------------------
BackupStep ==
    \/ Tick
    \/ \E p \in Path : BeginBackup(p)
    \/ WriteBackup
    \/ BreakBackup
    \/ \E k \in Retention : BeginCleanup(k)
    \/ \E p \in Path : ReadEntry(p)
    \/ RemoveNext
    \/ FinishCleanup
    \/ FailCleanup

CheckpointStep ==
    \/ \E n \in 0 .. MaxProcessed : BeginSave(n)
    \/ FinishSave
    \/ BreakSave
    \/ ClearReindexState

WorkspaceNext == BackupStep \/ CheckpointStep
WorkspaceSpec == WorkspaceInit /\ [][WorkspaceNext]_workspaceVars

------------------------------------------------------------------------------
(* Properties.                                                             *)

\* A clean-up that is called to keep n files removes one only while n others are there that were written
\* no earlier than the time it was listed with; and these are whole unless a write has failed or is under
\* way.  New files, rewritten ones and a removal that fails do not change that (backup/scheduler.rs,
\* cleanup_old_backups; backup/snapshot.rs, create_backup).
BackupsSurvive ==
    [][\A p \in DOMAIN backups \ DOMAIN backups' :
          \E since \in 0 .. MaxClock :
             /\ [path |-> p, mtime |-> since] \in ToSet(cleaning.listed)
             /\ cleaning.keep <= Cardinality({q \in DOMAIN backups' :
                    /\ backups'[q].mtime >= since
                    /\ VerifyBackup(q)' \/ q = copying \/ diskFaults > 0})]_workspaceVars

\* A checkpoint whose writing was broken off is reported: load_reindex_state answers that there is none
\* only if none was begun since the last clear, and with a count only if it is the last one begun, never
\* an older one (migration/reindex.rs).
TornIsReported ==
    LET answer == LoadReindexState
    IN  /\ answer.outcome = "none" <=> started = NoCount
        /\ answer.outcome = "loaded" => answer.processed = started
==============================================================================
