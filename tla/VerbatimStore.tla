----------------------------- MODULE VerbatimStore -----------------------------
(***************************************************************************)
(* VerbatimStorage (storage/verbatim.rs): transcripts in files named by    *)
(* the hash of their content, in an active and an archive directory.       *)
(*                                                                         *)
(* No lock orders the calls: each is a look at a path followed by a system *)
(* call on it, and calls on the same content interleave between the two.   *)
(* fs::write is two system calls, one that creates or truncates the file   *)
(* and one that fills it. Files are inodes, so a rename takes an open file *)
(* along.                                                                  *)
(***************************************************************************)
EXTENDS Naturals, FiniteSets

CONSTANTS
  Calls,       (* calls of store, read, archive and delete; a call also  *)
               (* names the inode it creates                             *)
  Contents,    (* contents, each standing for its hash and file name     *)
  None,        (* no file                                                *)
  MaxFaults,   (* bound: system calls that fail                          *)
  MaxKills     (* bound: exits of the process                            *)

ASSUME VerbatimAssumption ==
  /\ None \notin Calls
  /\ MaxFaults \in Nat
  /\ MaxKills \in Nat

Dirs == {"active", "archive"}
Kinds == {"store", "read", "archive", "delete"}

VARIABLES
  job,     (* job[c]: what the call does, and to which content           *)
  step,    (* step[c]: the system call that comes next                   *)
  answer,  (* answer[c]: what the call returned                          *)
  fd,      (* fd[c]: the inode the call has open for writing             *)
  file,    (* file[d][h]: the inode named h in directory d               *)
  whole,   (* inodes that hold all of their content                      *)
  faults,  (* failed system calls so far                                 *)
  kills    (* exits of the process so far                                *)

vars == <<job, step, answer, fd, file, whole, faults, kills>>
files == <<fd, file, whole>>

NoJob == [kind |-> "none"]

(* A store of h has been answered. A job keeps, as history, whether that   *)
(* was so when it began.                                                   *)
Acked(h) ==
  \E c \in Calls :
    job[c].kind = "store" /\ job[c].hash = h /\ answer[c] = "ok"

Init ==
  /\ job = [c \in Calls |-> NoJob]
  /\ step = [c \in Calls |-> "idle"]
  /\ answer = [c \in Calls |-> "none"]
  /\ fd = [c \in Calls |-> None]
  /\ file = [d \in Dirs |-> [h \in Contents |-> None]]
  /\ whole = {}
  /\ faults = 0
  /\ kills = 0

Begin(c, kind, h) ==
  /\ step[c] = "idle"
  /\ job' = [job EXCEPT ![c] = [kind |-> kind, hash |-> h, known |-> Acked(h)]]
  /\ step' = [step EXCEPT ![c] = "probe active"]
  /\ UNCHANGED <<answer, files, faults, kills>>

Path(d, c) == file[d][job[c].hash]

Goto(c, s) == step' = [step EXCEPT ![c] = s] /\ UNCHANGED answer

Return(c, a) ==
  /\ step' = [step EXCEPT ![c] = "done"]
  /\ answer' = [answer EXCEPT ![c] = a]

(* Mutant of ProbeActive: a read does not look into the archive.           *)
ProbeActiveOnly(c) ==
  /\ step[c] = "probe active"
  /\ IF Path("active", c) # None
     THEN IF job[c].kind = "store" THEN Return(c, "ok") ELSE Goto(c, "use active")
     ELSE CASE job[c].kind = "store" -> Goto(c, "create")
            [] job[c].kind = "archive" -> Return(c, "ok")
            [] job[c].kind = "read" -> Return(c, "missing")
            [] OTHER -> Goto(c, "probe archive")
  /\ UNCHANGED <<job, files, faults, kills>>

(* path.exists() on the active directory. A store finds its content there  *)
(* already, an archive finds nothing to move; the others look further.     *)
ProbeActive(c) ==
  /\ step[c] = "probe active"
  /\ IF Path("active", c) # None
     THEN IF job[c].kind = "store" THEN Return(c, "ok") ELSE Goto(c, "use active")
     ELSE CASE job[c].kind = "store" -> Goto(c, "create")
            [] job[c].kind = "archive" -> Return(c, "ok")
            [] OTHER -> Goto(c, "probe archive")
  /\ UNCHANGED <<job, files, faults, kills>>

(* archive_path.exists(): the second look of a read or a delete.           *)
ProbeArchive(c) ==
  /\ step[c] = "probe archive"
  /\ IF Path("archive", c) # None
     THEN Goto(c, "use archive")
     ELSE Return(c, IF job[c].kind = "read" THEN "missing" ELSE "ok")
  /\ UNCHANGED <<job, files, faults, kills>>

(* fs::write opens the file: a new inode, or the old one cut to nothing.   *)
Create(c) ==
  /\ step[c] = "create"
  /\ Goto(c, "write")
  /\ IF Path("active", c) = None
     THEN /\ file' = [file EXCEPT !["active"][job[c].hash] = c]
          /\ fd' = [fd EXCEPT ![c] = c]
          /\ UNCHANGED whole
     ELSE /\ fd' = [fd EXCEPT ![c] = Path("active", c)]
          /\ whole' = whole \ {Path("active", c)}
          /\ UNCHANGED file
  /\ UNCHANGED <<job, faults, kills>>

(* fs::write fills it. Another writer of the same content may have filled  *)
(* it already: the bytes it left are replaced, as many as there were.      *)
Write(c) ==
  /\ step[c] = "write"
  /\ whole' = whole \cup {fd[c]}
  /\ fd' = [fd EXCEPT ![c] = None]
  /\ Return(c, "ok")
  /\ UNCHANGED <<job, file, faults, kills>>

(* read_from_path: the file is read, decrypted and compared with its hash. *)
(* It may be gone since the call looked.                                   *)
ReadFile(c, d) ==
  /\ job[c].kind = "read"
  /\ Return(c, IF Path(d, c) = None THEN "io"
               ELSE IF Path(d, c) \in whole THEN "ok" ELSE "corrupt")
  /\ UNCHANGED files

(* fs::rename, over whatever the archive holds under this name.            *)
Rename(c) ==
  /\ job[c].kind = "archive"
  /\ IF Path("active", c) = None
     THEN Return(c, "io") /\ UNCHANGED file
     ELSE /\ Return(c, "ok")
          /\ file' = [file EXCEPT !["archive"][job[c].hash] = Path("active", c),
                                  !["active"][job[c].hash] = None]
  /\ UNCHANGED <<fd, whole>>

(* fs::remove_file, in the active directory first.                         *)
Remove(c, d) ==
  /\ job[c].kind = "delete"
  /\ IF Path(d, c) = None
     THEN Return(c, "io") /\ UNCHANGED file
     ELSE /\ file' = [file EXCEPT ![d][job[c].hash] = None]
          /\ IF d = "active" THEN Goto(c, "probe archive") ELSE Return(c, "ok")
  /\ UNCHANGED <<fd, whole>>

UseActive(c) ==
  /\ step[c] = "use active"
  /\ ReadFile(c, "active") \/ Rename(c) \/ Remove(c, "active")
  /\ UNCHANGED <<job, faults, kills>>

UseArchive(c) ==
  /\ step[c] = "use archive"
  /\ ReadFile(c, "archive") \/ Remove(c, "archive")
  /\ UNCHANGED <<job, faults, kills>>

(* Mutants of SystemCallFails: a store that fails removes its file again;  *)
(* an error of fs::write is not reported.                                  *)
SystemCallFailsCleaning(c) ==
  /\ step[c] = "write"
  /\ faults < MaxFaults
  /\ faults' = faults + 1
  /\ fd' = [fd EXCEPT ![c] = None]
  /\ file' = [file EXCEPT !["active"][job[c].hash] = None]
  /\ Return(c, "io")
  /\ UNCHANGED <<job, whole, kills>>

SystemCallFailsUnseen(c) ==
  /\ step[c] = "write"
  /\ faults < MaxFaults
  /\ fd' = [fd EXCEPT ![c] = None]
  /\ Return(c, "ok")
  /\ UNCHANGED <<job, file, whole, faults, kills>>

(* A system call of the call fails; a write may have replaced part of what *)
(* was there.                                                              *)
SystemCallFails(c) ==
  /\ step[c] \in {"create", "write", "use active", "use archive"}
  /\ faults < MaxFaults
  /\ faults' = faults + 1
  /\ fd' = [fd EXCEPT ![c] = None]
  /\ \/ whole' = whole \ {fd[c]}
     \/ UNCHANGED whole
  /\ Return(c, "io")
  /\ UNCHANGED <<job, file, kills>>

(* The process exits: its calls are gone, its files stay as they are.      *)
Kill ==
  /\ kills < MaxKills
  /\ kills' = kills + 1
  /\ step' = [c \in Calls |-> IF step[c] = "idle" THEN "idle" ELSE "done"]
  /\ fd' = [c \in Calls |-> None]
  /\ \E cut \in SUBSET {fd[c] : c \in Calls} : whole' = whole \ cut
  /\ UNCHANGED <<job, answer, file, faults>>

Step(c) ==
  \/ ProbeActive(c) \/ ProbeArchive(c) \/ Create(c) \/ Write(c)
  \/ UseActive(c) \/ UseArchive(c) \/ SystemCallFails(c)

Next ==
  \/ \E c \in Calls : \/ \E kind \in Kinds, h \in Contents : Begin(c, kind, h)
                      \/ Step(c)
  \/ Kill

Spec == Init /\ [][Next]_vars

-----------------------------------------------------------------------------
TypeOK ==
  /\ job \in [Calls -> {NoJob} \cup [kind : Kinds, hash : Contents, known : BOOLEAN]]
  /\ step \in [Calls -> {"idle", "probe active", "probe archive", "create",
                         "write", "use active", "use archive", "done"}]
  /\ \A c \in Calls : step[c] = "idle" <=> job[c] = NoJob
  /\ answer \in [Calls -> {"none", "ok", "missing", "corrupt", "io"}]
  /\ fd \in [Calls -> Calls \cup {None}]
  /\ \A c \in Calls : fd[c] # None <=> step[c] = "write"
  /\ file \in [Dirs -> [Contents -> Calls \cup {None}]]
  /\ whole \in SUBSET Calls
  /\ faults \in 0..MaxFaults
  /\ kills \in 0..MaxKills

Deleted(h) == \E c \in Calls : job[c].kind = "delete" /\ job[c].hash = h

(* The inode holds its content, or a call that is running will fill it.    *)
Filled(i) == i \in whole \/ \E c \in Calls : step[c] = "write" /\ fd[c] = i

(* Content whose store was answered keeps a file, in one directory or the  *)
(* other, whatever is stored, read and archived beside it, fails or dies:  *)
(* only a delete takes the last file away.                                 *)
AckedIsKept ==
  \A h \in Contents :
    Acked(h) /\ ~Deleted(h) => \E d \in Dirs : file[d][h] # None

(* Every file is whole or on the way to be, as long as no system call      *)
(* fails and the process stays up: stores of the same content may cut and  *)
(* fill one file in turn, and the last of them leaves it whole.            *)
FilesAreFilled ==
  (faults = 0 /\ kills = 0) =>
    \A d \in Dirs, h \in Contents : file[d][h] # None => Filled(file[d][h])

(* A read that begins after the store was answered never reports that the  *)
(* content does not exist, even while it moves to the archive: the order   *)
(* in which read looks at the directories is the order in which a file     *)
(* moves between them.                                                     *)
NeverMissing ==
  \A c \in Calls :
    (job[c].kind = "read" /\ job[c].known /\ ~Deleted(job[c].hash))
      => answer[c] # "missing"

(* The transcript is always preserved (README.md:64): the active file of   *)
(* content whose store was answered, first or again, is whole when no call *)
(* is running.                                                             *)
AckedIsWhole ==
  (\A c \in Calls : step[c] \in {"idle", "done"}) =>
    \A h \in Contents :
      Acked(h) /\ file["active"][h] # None => file["active"][h] \in whole
=============================================================================
