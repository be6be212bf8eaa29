-------------------------------- MODULE Engine --------------------------------
(***************************************************************************)
(* Engine::retain and Engine::expand (engine/mod.rs) across the three      *)
(* stores: the verbatim file, then the row in SQLite, then the vector in   *)
(* LanceDB, in this order, without a transaction over them.                *)
(*                                                                         *)
(* The files are those of VerbatimStore. The write queue is used as        *)
(* SerialStore specifies it: the row appears at one instant before the     *)
(* answer, an error may leave it behind, and a caller that leaves does not *)
(* take its operation out of the channel. A retain is named by its call,   *)
(* and so is the memory it makes. Embeddings are configured.               *)
(***************************************************************************)
EXTENDS Naturals, FiniteSets

CONSTANTS
  Calls,       (* calls of retain and expand                             *)
  Contents,    (* contents, each standing for its hash                   *)
  None,        (* no file                                                *)
  MaxFaults,   (* bound: file system calls that fail                     *)
  MaxErrors,   (* bound: errors of SQLite, the model and LanceDB         *)
  MaxKills     (* bound: exits of the process                            *)

ASSUME EngineAssumption ==
  /\ None \notin Calls
  /\ MaxFaults \in Nat
  /\ MaxErrors \in Nat
  /\ MaxKills \in Nat

VARIABLES
  job, step, answer, fd, file, whole, faults, kills,   (* VerbatimStore  *)
  pc,        (* pc[c]: where the call is                                 *)
  rows,      (* the memories table                                       *)
  table,     (* LanceDB has its table                                    *)
  vectors,   (* the memories that have a vector                          *)
  errors     (* errors so far                                            *)

V == INSTANCE VerbatimStore

stores == <<rows, table, vectors>>
verbatim == <<job, step, answer, fd, file, whole, faults, kills>>
vars == <<verbatim, pc, stores, errors>>

Init ==
  /\ V!Init
  /\ pc = [c \in Calls |-> "idle"]
  /\ rows = {}
  /\ table = FALSE
  /\ vectors = {}
  /\ errors = 0

Goto(c, s) == pc' = [pc EXCEPT ![c] = s]

(* retain hands the text to verbatim.store.                                *)
Retain(c, h) ==
  /\ pc[c] = "idle"
  /\ V!Begin(c, "store", h)
  /\ Goto(c, "verbatim")
  /\ UNCHANGED <<stores, errors>>

(* expand reads the row of a memory, and then its file.                    *)
Expand(c, m) ==
  /\ pc[c] = "idle"
  /\ m \in rows
  /\ V!Begin(c, "read", job[m].hash)
  /\ Goto(c, "verbatim")
  /\ UNCHANGED <<stores, errors>>

(* The system calls of the verbatim store. Those of fs::write run on the   *)
(* blocking pool, and go on when the caller has left.                      *)
Verbatim(c) ==
  /\ \/ pc[c] = "verbatim"
     \/ pc[c] = "gone" /\ step[c] \in {"create", "write"}
  /\ V!Step(c)
  /\ UNCHANGED <<pc, stores, errors>>

(* Mutants of Stored: the row is inserted whatever store answered; before  *)
(* the file is filled.                                                     *)
StoredOrNot(c) ==
  /\ pc[c] = "verbatim"
  /\ step[c] = "done"
  /\ job[c].kind = "store"
  /\ Goto(c, "row")
  /\ UNCHANGED <<verbatim, stores, errors>>

StoredSoon(c) ==
  /\ pc[c] = "verbatim"
  /\ step[c] \in {"write", "done"}
  /\ job[c].kind = "store"
  /\ Goto(c, IF step[c] = "write" \/ answer[c] = "ok" THEN "row" ELSE "err")
  /\ UNCHANGED <<verbatim, stores, errors>>

(* verbatim.store has answered; an error ends the retain.                  *)
Stored(c) ==
  /\ pc[c] = "verbatim"
  /\ step[c] = "done"
  /\ job[c].kind = "store"
  /\ Goto(c, IF answer[c] = "ok" THEN "row" ELSE "err")
  /\ UNCHANGED <<verbatim, stores, errors>>

(* verbatim.read has answered, and so does expand.                         *)
Expanded(c) ==
  /\ pc[c] = "verbatim"
  /\ step[c] = "done"
  /\ job[c].kind = "read"
  /\ Goto(c, IF answer[c] = "ok" THEN "ok" ELSE "err")
  /\ UNCHANGED <<verbatim, stores, errors>>

(* The writer task inserts the row.                                        *)
StoreRow(c) ==
  /\ pc[c] \in {"row", "left"}
  /\ rows' = rows \cup {c}
  /\ Goto(c, IF pc[c] = "row" THEN "embed" ELSE "gone")
  /\ UNCHANGED <<verbatim, table, vectors, errors>>

(* Mutant of RowFails: retain only warns, as it does of the vector.        *)
RowFailsUnseen(c) ==
  /\ pc[c] \in {"row", "left"}
  /\ errors < MaxErrors
  /\ errors' = errors + 1
  /\ rows' = rows \/ rows' = rows \cup {c}
  /\ Goto(c, IF pc[c] = "row" THEN "embed" ELSE "gone")
  /\ UNCHANGED <<verbatim, table, vectors>>

(* One of its statements fails, with the row committed or not.             *)
RowFails(c) ==
  /\ pc[c] \in {"row", "left"}
  /\ errors < MaxErrors
  /\ errors' = errors + 1
  /\ rows' = rows \/ rows' = rows \cup {c}
  /\ Goto(c, IF pc[c] = "row" THEN "err" ELSE "gone")
  /\ UNCHANGED <<verbatim, table, vectors>>

(* The text is embedded and the table of LanceDB is looked up.             *)
OpenTable(c) ==
  /\ pc[c] = "embed"
  /\ Goto(c, IF table THEN "add" ELSE "create")
  /\ UNCHANGED <<verbatim, stores, errors>>

AddVector(c) ==
  /\ pc[c] = "add"
  /\ vectors' = vectors \cup {c}
  /\ Goto(c, "ok")
  /\ UNCHANGED <<verbatim, rows, table, errors>>

(* create_table with the vector in it. It is an error when the table has   *)
(* been created since the lookup, and retain only warns of it.             *)
CreateTable(c) ==
  /\ pc[c] = "create"
  /\ table' = TRUE
  /\ vectors' = IF table THEN vectors ELSE {c}
  /\ Goto(c, "ok")
  /\ UNCHANGED <<verbatim, rows, errors>>

(* The model or LanceDB fails, of which retain only warns. A lookup that   *)
(* fails on a table that is there ends like this too: create_table fails.  *)
VectorFails(c) ==
  /\ pc[c] \in {"embed", "add", "create"}
  /\ errors < MaxErrors
  /\ errors' = errors + 1
  /\ Goto(c, "ok")
  /\ UNCHANGED <<verbatim, stores>>

(* The caller drops the future; its WriteOp may be in the channel. A panic *)
(* of retain between file and row (the slice of the summary) ends its      *)
(* future like this too.                                                   *)
Leave(c) ==
  /\ pc[c] \in {"verbatim", "row", "embed", "add", "create"}
  /\ Goto(c, IF pc[c] = "row" THEN "left" ELSE "gone")
  /\ UNCHANGED <<verbatim, stores, errors>>

(* The process exits, and another one opens the stores.                    *)
Kill ==
  /\ V!Kill
  /\ pc' = [c \in Calls |-> IF pc[c] \in {"idle", "ok", "err"} THEN pc[c] ELSE "dead"]
  /\ UNCHANGED <<stores, errors>>

Next ==
  \/ \E c \in Calls :
       \/ \E h \in Contents : Retain(c, h)
       \/ \E m \in Calls : Expand(c, m)
       \/ Verbatim(c) \/ Stored(c) \/ Expanded(c)
       \/ StoreRow(c) \/ RowFails(c)
       \/ OpenTable(c) \/ AddVector(c) \/ CreateTable(c) \/ VectorFails(c)
       \/ Leave(c)
  \/ Kill

Spec == Init /\ [][Next]_vars

-----------------------------------------------------------------------------
Stages == {"idle", "verbatim", "row", "left", "embed", "add", "create",
           "ok", "err", "gone", "dead"}

TypeOK ==
  /\ pc \in [Calls -> Stages]
  /\ \A c \in Calls : pc[c] = "idle" => step[c] = "idle"
  /\ rows \in SUBSET Calls
  /\ \A c \in rows : job[c].kind = "store"
  /\ table \in BOOLEAN
  /\ vectors \in SUBSET Calls
  /\ errors \in 0..MaxErrors

(* A store of this text has reported an error, or the process exited       *)
(* before it could answer.                                                 *)
StoreFailed(h) ==
  \E c \in Calls :
    /\ job[c].kind = "store" /\ job[c].hash = h
    /\ \/ answer[c] = "io"
       \/ answer[c] = "none" /\ step[c] = "done"

(* Every row of memories has a file of its text on disk, whatever fails,   *)
(* is dropped or dies between the two stores (retain stores the file       *)
(* first). The file holds all of the text, or a store at work is filling   *)
(* it, unless a store of the same text failed or was cut off: that alone   *)
(* tears a transcript (VerbatimStore, AckedIsWhole).                       *)
RowHasText ==
  \A m \in rows : \E d \in V!Dirs :
    LET i == file[d][job[m].hash] IN
    i # None /\ (V!Filled(i) \/ StoreFailed(job[m].hash))

(* When no file operation fails and the process stays up, the read of an   *)
(* expand fails only at an instant at which a retain of the same text,     *)
(* which has no row yet, is writing the file.                              *)
ExpandFindsText ==
  [][\A c \in Calls :
       (/\ job[c].kind = "read" /\ answer[c] = "none"
        /\ answer'[c] \notin {"none", "ok"}
        /\ faults' = 0 /\ kills' = 0)
         => \E d \in Calls \ rows : step[d] = "write" /\ job[d].hash = job[c].hash]_vars

(* Vectors follow rows, also of callers that left and over exits: the      *)
(* index never names a memory that SQLite does not have, and as long as    *)
(* nothing fails an answered retain without a vector has lost the creation *)
(* of the table to one that has its own.                                   *)
VectorsFollowRows ==
  /\ vectors \subseteq rows
  /\ (errors = 0) =>
       \A c \in Calls :
         (pc[c] = "ok" /\ job[c].kind = "store" /\ c \notin vectors)
           => \E m \in vectors \ {c} : job[m].kind = "store"
=============================================================================
