------------------------------ MODULE AuditChain ------------------------------
(***************************************************************************)
(* The audit log (audit/logger.rs, audit/chain.rs) as the engine uses it.  *)
(*                                                                         *)
(* retain, recall and expand answer their caller and leave the audit entry *)
(* to a detached blocking task (engine/mod.rs). Every task opens its own   *)
(* connection; the task of a retain first extracts and inserts its facts,  *)
(* which may end it in a panic. Then it makes an AuditLogger of its own,   *)
(* which reads the hash of the last row, and one later statement inserts a *)
(* row chained to that hash. The mutex of a logger guards a hash that no   *)
(* other task can see, so nothing orders the tasks but these statements.   *)
(***************************************************************************)
EXTENDS Naturals, Sequences

CONSTANTS
  Ops,            (* calls of the engine                                 *)
  MaxTaskFaults,  (* bound: statements that fail                         *)
  MaxKills        (* bound: exits of the process                         *)

ASSUME AuditAssumption == MaxTaskFaults \in Nat /\ MaxKills \in Nat

Kinds == {"retain", "recall", "expand", "forget"}

VARIABLES
  pc,          (* pc[o]: how far the call and its audit task have come   *)
  kind,        (* kind[o]: the operation called                          *)
  tail,        (* tail[o]: last_hash of the logger of the task           *)
  read,        (* read[o]: how many rows the log had when last_hash was  *)
               (* set; history, no guard looks at it                     *)
  blind,       (* calls whose read of the last hash failed; history too  *)
  log,         (* the audit_log table in the order of its rowids         *)
  taskFaults,  (* failed statements so far                               *)
  kills        (* exits of the process so far                            *)

auditVars == <<pc, kind, tail, read, blind, log, taskFaults, kills>>

GENESIS_HASH == <<>>

(* SHA-256 over the previous hash and the content, with no collisions: the *)
(* content holds a fresh uuid, so a call stands for it.                    *)
ChainHash(prev, content) == <<prev, content>>

(* read_last_hash: the hash of the row with the highest rowid.             *)
LastHash == IF log = <<>> THEN GENESIS_HASH ELSE log[Len(log)].hash

(* verify_chain: every row carries the hash of the row before it.          *)
VerifyChain(entries) ==
  \A i \in 1..(Len(entries) - 1) : entries[i + 1].prev = entries[i].hash

AuditInit ==
  /\ pc = [o \in Ops |-> "new"]
  /\ kind = [o \in Ops |-> "forget"]
  /\ tail = [o \in Ops |-> GENESIS_HASH]
  /\ read = [o \in Ops |-> 0]
  /\ blind = {}
  /\ log = <<>>
  /\ taskFaults = 0
  /\ kills = 0

(* The engine answers the caller; forget spawns no audit task.             *)
Answer(o) ==
  /\ pc[o] = "new"
  /\ \E k \in Kinds :
       /\ kind' = [kind EXCEPT ![o] = k]
       /\ pc' = [pc EXCEPT ![o] = IF k = "forget" THEN "unlogged" ELSE "spawned"]
  /\ UNCHANGED <<tail, read, blind, log, taskFaults, kills>>

TaskFails ==
  /\ taskFaults < MaxTaskFaults
  /\ taskFaults' = taskFaults + 1

(* The task opens its connection; one that cannot be opened ends it.       *)
Connect(o) ==
  /\ pc[o] = "spawned"
  /\ \/ /\ pc' = [pc EXCEPT ![o] = IF kind[o] = "retain" THEN "facts" ELSE "connected"]
        /\ UNCHANGED taskFaults
     \/ /\ TaskFails
        /\ pc' = [pc EXCEPT ![o] = "unlogged"]
  /\ UNCHANGED <<kind, tail, read, blind, log, kills>>

(* The facts of a retain (FactTimeline): what fails there is ignored, but  *)
(* extract_facts panics at a slice by offsets of the lower-cased line.     *)
Extract(o) ==
  /\ pc[o] = "facts"
  /\ \E s \in {"connected", "panicked"} : pc' = [pc EXCEPT ![o] = s]
  /\ UNCHANGED <<kind, tail, read, blind, log, taskFaults, kills>>

(* Mutants of Open: the first row instead of the last one; an empty log is *)
(* an error.                                                               *)
OpenFirst(o) ==
  /\ pc[o] = "connected"
  /\ tail' = [tail EXCEPT ![o] = IF log = <<>> THEN GENESIS_HASH ELSE log[1].hash]
  /\ read' = [read EXCEPT ![o] = Len(log)]
  /\ pc' = [pc EXCEPT ![o] = "open"]
  /\ UNCHANGED <<kind, blind, log, taskFaults, kills>>

OpenNonEmpty(o) ==
  /\ pc[o] = "connected"
  /\ tail' = [tail EXCEPT ![o] = LastHash]
  /\ read' = [read EXCEPT ![o] = Len(log)]
  /\ pc' = [pc EXCEPT ![o] = IF log = <<>> THEN "unlogged" ELSE "open"]
  /\ UNCHANGED <<kind, blind, log, taskFaults, kills>>

(* AuditLogger::new: a read that fails counts as an empty log.             *)
Open(o) ==
  /\ pc[o] = "connected"
  /\ \/ /\ tail' = [tail EXCEPT ![o] = LastHash]
        /\ UNCHANGED <<blind, taskFaults>>
     \/ /\ TaskFails
        /\ tail' = [tail EXCEPT ![o] = GENESIS_HASH]
        /\ blind' = blind \cup {o}
  /\ read' = [read EXCEPT ![o] = Len(log)]
  /\ pc' = [pc EXCEPT ![o] = "open"]
  /\ UNCHANGED <<kind, log, kills>>

Entry(o) ==
  [op |-> o, prev |-> tail[o], hash |-> ChainHash(tail[o], o), read |-> read[o]]

(* Mutant of Insert: hash and previous_hash swapped in the parameters.     *)
InsertSwapped(o) ==
  /\ pc[o] = "open"
  /\ log' = Append(log, [Entry(o) EXCEPT !.prev = Entry(o).hash, !.hash = Entry(o).prev])
  /\ tail' = [tail EXCEPT ![o] = Entry(o).hash]
  /\ pc' = [pc EXCEPT ![o] = "logged"]
  /\ UNCHANGED <<kind, read, blind, taskFaults, kills>>

(* AuditLogger::log: the INSERT, then last_hash. Its error is ignored.     *)
Insert(o) ==
  /\ pc[o] = "open"
  /\ \/ /\ log' = Append(log, Entry(o))
        /\ tail' = [tail EXCEPT ![o] = Entry(o).hash]
        /\ pc' = [pc EXCEPT ![o] = "logged"]
        /\ UNCHANGED taskFaults
     \/ /\ TaskFails
        /\ pc' = [pc EXCEPT ![o] = "unlogged"]
        /\ UNCHANGED <<log, tail>>
  /\ UNCHANGED <<kind, read, blind, kills>>

(* The process exits with audit tasks still to run.                        *)
Pending(o) == pc[o] \in {"spawned", "facts", "connected", "open"}

Kill ==
  /\ kills < MaxKills
  /\ kills' = kills + 1
  /\ pc' = [o \in Ops |-> IF Pending(o) THEN "unlogged" ELSE pc[o]]
  /\ UNCHANGED <<kind, tail, read, blind, log, taskFaults>>

TaskStep(o) == Connect(o) \/ Extract(o) \/ Open(o) \/ Insert(o)

AuditNext ==
  \/ \E o \in Ops : Answer(o) \/ TaskStep(o)
  \/ Kill

AuditSpec == AuditInit /\ [][AuditNext]_auditVars

(* The blocking pool works as long as it has accepted a task; each has few *)
(* steps, so in the end all have run.                                      *)
AuditFairness == WF_auditVars(\E o \in Ops : TaskStep(o))

-----------------------------------------------------------------------------
Hashes == {GENESIS_HASH} \cup {log[i].hash : i \in DOMAIN log}

(* Types; a logger's last_hash is always that of a row of the log.         *)
AuditTypeOK ==
  /\ pc \in [Ops -> {"new", "spawned", "facts", "connected", "open", "logged", "unlogged",
                     "panicked"}]
  /\ kind \in [Ops -> Kinds]
  /\ tail \in [Ops -> Hashes]
  /\ read \in [Ops -> Nat]
  /\ \A o \in Ops : read[o] <= Len(log)
  /\ blind \in SUBSET Ops
  /\ \A i \in DOMAIN log :
       /\ DOMAIN log[i] = {"op", "prev", "hash", "read"}
       /\ log[i].op \in Ops
       /\ log[i].hash = ChainHash(log[i].prev, log[i].op)
  /\ taskFaults \in 0..MaxTaskFaults
  /\ kills \in 0..MaxKills

(* The hash to which a row is chained whose task has read the log when it  *)
(* had n rows.                                                             *)
HashAt(n) == IF n = 0 THEN GENESIS_HASH ELSE log[n].hash

(* Two things break the chain, and no other: a task had read the last hash *)
(* before the row above its own was written, so two audit tasks overlapped *)
(* (whoever runs the engine) and its row is chained to what was then the   *)
(* last one, or its read of the last hash failed and it began the chain    *)
(* anew (AuditLogger::new).                                                *)
BreakHasCause ==
  \A i \in 1..(Len(log) - 1) :
    log[i + 1].prev # log[i].hash =>
      \/ log[i + 1].read < i /\ log[i + 1].prev = HashAt(log[i + 1].read)
      \/ log[i + 1].op \in blind /\ log[i + 1].prev = GENESIS_HASH

(* An operation has at most one row, and none before it was answered.      *)
LoggedOnce ==
  \A i, j \in DOMAIN log :
    /\ pc[log[i].op] = "logged"
    /\ log[i].op = log[j].op => i = j

Logged(o) == \E i \in DOMAIN log : log[i].op = o

(* A retain, a recall and an expand that were answered get their row, when *)
(* no statement fails, the process stays up and the facts of the retain    *)
(* could be extracted.                                                     *)
AnsweredGetsLogged ==
  \A o \in Ops :
    (pc[o] # "new" /\ kind[o] # "forget") ~>
      (Logged(o) \/ pc[o] = "panicked" \/ taskFaults + kills > 0)

(* "If any entry in the chain is modified or deleted after the fact, the   *)
(* chain breaks" (audit/README.md:5), and each entry is chained to the one *)
(* before it (docs/security.md:335): a log nobody touched verifies.        *)
IntactLogVerifies == VerifyChain(log)
=============================================================================
