----------------------------- MODULE EngineProofs -----------------------------
(***************************************************************************)
(* Theorems about Engine. The engine uses the verbatim store as its module *)
(* describes it, so every invariant proved of VerbatimStore holds of the   *)
(* files of the engine, and the rest is an induction over the engine's     *)
(* own state that never opens the system calls of the store again.         *)
(***************************************************************************)
EXTENDS Engine, TLAPS

P == INSTANCE VerbatimStoreProofs

LEMMA SameInit == V!Init <=> P!Init
  BY DEF V!Init, P!Init, V!NoJob, P!NoJob, V!Dirs, P!Dirs

LEMMA SameNext == V!Next <=> P!Next
  BY DEF V!Next, P!Next, V!Kill, P!Kill, V!Step, P!Step, V!Begin, P!Begin,
         V!ProbeActive, P!ProbeActive, V!ProbeArchive, P!ProbeArchive, V!Create, P!Create,
         V!Write, P!Write, V!UseActive, P!UseActive, V!UseArchive, P!UseArchive,
         V!SystemCallFails, P!SystemCallFails, V!ReadFile, P!ReadFile, V!Rename, P!Rename,
         V!Remove, P!Remove, V!Goto, P!Goto, V!Return, P!Return, V!Path, P!Path,
         V!Acked, P!Acked, V!Kinds, P!Kinds, V!files, P!files

LEMMA StoreAssumption == P!VerbatimAssumption
  BY EngineAssumption DEF P!VerbatimAssumption

-----------------------------------------------------------------------------
BeyondFiles == {"row", "left", "embed", "add", "create"}

(* A call that has reached SQLite is a retain whose file was stored.       *)
RowsAreStored ==
  \A c \in Calls :
    (pc[c] \in BeyondFiles \/ c \in rows) => job[c].kind = "store" /\ answer[c] = "ok"

(* A call that has begun has a job; nothing in the engine deletes.         *)
Begun ==
  \A c \in Calls : /\ step[c] = "idle" => pc[c] = "idle"
                   /\ job[c].kind # "delete"

(* A call that handles vectors has its row, and its vector at the end.     *)
VectorOrder ==
  /\ \A c \in Calls : pc[c] \in {"embed", "add", "create"} => c \in rows
  /\ \A c \in vectors : c \in rows /\ pc[c] = "ok"
  /\ \A c \in Calls : pc[c] = "add" => table
  /\ table <=> vectors # {}

OwnInv == TypeOK /\ RowsAreStored /\ Begun /\ VectorOrder /\ VectorsFollowRows

EngineInv == P!Inv /\ OwnInv

LEMMA RowHasJob ==
  ASSUME EngineInv, NEW m \in rows
  PROVE  m \in Calls /\ job[m].hash \in Contents
<1>1. m \in Calls /\ job[m].kind = "store"
  BY DEF EngineInv, OwnInv, TypeOK
<1>2. /\ job[m] \in {P!NoJob} \cup [kind : P!Kinds, hash : Contents, known : BOOLEAN]
  BY <1>1 DEF EngineInv, P!Inv, P!TypeOK
<1>3. P!NoJob.kind = "none"
  BY DEF P!NoJob
<1>4. job[m] # P!NoJob
  BY <1>1, <1>3
<1> QED
  BY <1>1, <1>2, <1>4

(* A step of the engine is a step of the verbatim store or leaves it alone.*)
LEMMA StepOfStore == EngineInv /\ [Next]_vars => [V!Next]_(V!vars)
<1> SUFFICES ASSUME EngineInv, [Next]_vars PROVE V!Next \/ UNCHANGED verbatim
  BY DEF V!vars, verbatim
<1>1. ASSUME NEW c \in Calls, NEW h \in Contents, Retain(c, h) PROVE V!Next
  BY <1>1 DEF Retain, V!Next, V!Kinds
<1>2. ASSUME NEW c \in Calls, NEW m \in Calls, Expand(c, m) PROVE V!Next
  <2>1. job[m].hash \in Contents
    BY <1>2, RowHasJob DEF Expand
  <2> QED
    BY <1>2, <2>1 DEF Expand, V!Next, V!Kinds
<1>3. ASSUME NEW c \in Calls, Verbatim(c) PROVE V!Next
  BY <1>3 DEF Verbatim, V!Next
<1>4. ASSUME Kill PROVE V!Next
  BY <1>4 DEF Kill, V!Next
<1> QED
  BY <1>1, <1>2, <1>3, <1>4
  DEF Next, vars, Stored, Expanded, StoreRow, RowFails, OpenTable, AddVector,
      CreateTable, VectorFails, Leave

(* What the store's own proof says of such a step.                         *)
LEMMA StoreKeeps ==
  ASSUME EngineInv, [Next]_vars
  PROVE  /\ P!Inv'
         /\ \A c \in Calls :
              pc[c] # "idle" =>
                /\ job'[c] = job[c] /\ step'[c] # "idle"
                /\ answer[c] = "ok" => answer'[c] = "ok"
<1>1. [V!Next]_(V!vars)
  BY StepOfStore
<1>2. [P!Next]_(P!vars)
  BY <1>1, SameNext DEF V!vars, P!vars
<1>3. P!Inv'
  BY <1>2, StoreAssumption, P!NextInv DEF EngineInv
<1>4. \A c \in Calls : pc[c] # "idle" => step[c] # "idle"
  BY DEF EngineInv, OwnInv, Begun
<1>5. CASE P!Next
  <2>1. P!JobsStay
    BY <1>5, StoreAssumption, P!NextGood DEF EngineInv, P!Good
  <2> QED
    BY <1>3, <1>4, <2>1 DEF P!JobsStay
<1>6. CASE UNCHANGED P!vars
  BY <1>3, <1>4, <1>6 DEF P!vars
<1> QED
  BY <1>2, <1>5, <1>6
-----------------------------------------------------------------------------
(* Steps that leave the files alone.                                       *)

LEMMA BookkeepingInv ==
  ASSUME OwnInv, NEW c \in Calls,
         Stored(c) \/ Expanded(c) \/ OpenTable(c) \/ VectorFails(c) \/ Leave(c)
  PROVE  OwnInv'
<1> USE DEF OwnInv
<1>1. UNCHANGED <<job, step, answer, rows, table, vectors>>
  BY DEF Stored, Expanded, OpenTable, VectorFails, Leave, verbatim, stores
<1>2. PICK s \in Stages \ {"idle"} : pc' = [pc EXCEPT ![c] = s]
  BY DEF Stored, Expanded, OpenTable, VectorFails, Leave, Goto, Stages
<1>3. pc[c] # "idle" /\ pc[c] # "ok"
  BY DEF Stored, Expanded, OpenTable, VectorFails, Leave
<1>4. s \in BeyondFiles => job[c].kind = "store" /\ answer[c] = "ok"
  BY <1>2 DEF Stored, Expanded, OpenTable, VectorFails, Leave, Goto, TypeOK, RowsAreStored, BeyondFiles
<1>5. s \in {"embed", "add", "create"} => c \in rows
  BY <1>2 DEF Stored, Expanded, OpenTable, VectorFails, Leave, Goto, TypeOK, VectorOrder
<1>6. errors' \in 0..MaxErrors /\ (errors' = 0 => errors = 0)
  <2>1. errors \in Nat /\ MaxErrors \in Nat /\ errors <= MaxErrors
    BY EngineAssumption DEF TypeOK
  <2> QED
    BY <2>1 DEF Stored, Expanded, OpenTable, VectorFails, Leave
<1>7. (s = "ok" /\ job[c].kind = "store") => errors' # 0
  <2>1. errors \in Nat
    BY EngineAssumption DEF TypeOK
  <2> QED
    BY <1>2, <2>1 DEF Stored, Expanded, OpenTable, VectorFails, Leave, Goto, TypeOK
<1>8. /\ \A d \in Calls : d # c => pc'[d] = pc[d]
      /\ pc'[c] = s
      /\ pc' \in [Calls -> Stages]
  BY <1>2 DEF TypeOK
<1>9. TypeOK' /\ Begun'
  BY <1>1, <1>2, <1>3, <1>6, <1>8 DEF TypeOK, Begun
<1>10. RowsAreStored' /\ VectorOrder'
  <2>1. RowsAreStored'
    BY <1>1, <1>4, <1>8 DEF RowsAreStored
  <2>2. \A d \in Calls : pc'[d] \in {"embed", "add", "create"} => d \in rows'
    BY <1>1, <1>5, <1>8 DEF VectorOrder
  <2>3. c \notin vectors
    BY <1>3 DEF VectorOrder
  <2>4. \A d \in vectors' : d \in rows' /\ pc'[d] = "ok"
    BY <1>1, <1>8, <2>3 DEF VectorOrder, TypeOK
  <2>5. table' <=> vectors' # {}
    BY <1>1, Zenon DEF VectorOrder
  <2>6. s = "add" => table
    BY <1>2 DEF Stored, Expanded, OpenTable, VectorFails, Leave, Goto, TypeOK
  <2>7. \A d \in Calls : pc'[d] = "add" => table'
    BY <1>1, <1>8, <2>6 DEF VectorOrder
  <2> QED
    BY <2>1, <2>2, <2>4, <2>5, <2>7 DEF VectorOrder
<1>11. VectorsFollowRows'
  BY <1>1, <1>6, <1>7, <1>8 DEF VectorsFollowRows
<1> QED
  BY <1>9, <1>10, <1>11

LEMMA RowInv ==
  ASSUME OwnInv, NEW c \in Calls, StoreRow(c) \/ RowFails(c)
  PROVE  OwnInv'
<1> USE DEF OwnInv
<1>1. /\ UNCHANGED <<job, step, answer, table, vectors>>
      /\ pc[c] \in {"row", "left"}
      /\ rows' = rows \/ rows' = rows \cup {c}
  BY DEF StoreRow, RowFails, verbatim
<1>2. PICK s \in {"embed", "gone", "err"} :
        /\ pc' = [pc EXCEPT ![c] = s]
        /\ s = "embed" => c \in rows'
  BY DEF StoreRow, RowFails, Goto
<1>3. job[c].kind = "store" /\ answer[c] = "ok"
  BY <1>1 DEF RowsAreStored, BeyondFiles
<1>4. errors' \in 0..MaxErrors /\ (errors' = 0 => errors = 0)
  <2>1. errors \in Nat /\ MaxErrors \in Nat /\ errors <= MaxErrors
    BY EngineAssumption DEF TypeOK
  <2> QED
    BY <2>1 DEF StoreRow, RowFails
<1>5. /\ \A d \in Calls : d # c => pc'[d] = pc[d]
      /\ pc'[c] = s
      /\ pc' \in [Calls -> Stages]
  BY <1>2 DEF TypeOK, Stages
<1>6. rows' \in SUBSET Calls /\ rows \subseteq rows' /\ \A m \in rows' : m \in rows \/ m = c
  BY <1>1 DEF TypeOK
<1>7. TypeOK' /\ Begun'
  BY <1>1, <1>2, <1>3, <1>4, <1>5, <1>6 DEF TypeOK, Begun
<1>8. RowsAreStored'
  BY <1>1, <1>3, <1>5, <1>6 DEF RowsAreStored
<1>9. VectorOrder'
  BY <1>1, <1>2, <1>5, <1>6 DEF VectorOrder
<1>10. VectorsFollowRows'
  BY <1>1, <1>2, <1>4, <1>5, <1>6 DEF VectorsFollowRows
<1> QED
  BY <1>7, <1>8, <1>9, <1>10

LEMMA VectorInv ==
  ASSUME OwnInv, NEW c \in Calls, AddVector(c) \/ CreateTable(c)
  PROVE  OwnInv'
<1> USE DEF OwnInv
<1>1. /\ UNCHANGED <<job, step, answer, rows, errors>>
      /\ pc[c] \in {"add", "create"}
      /\ pc' = [pc EXCEPT ![c] = "ok"]
  BY DEF AddVector, CreateTable, Goto, verbatim
<1>2. c \in rows /\ c \notin vectors
  BY <1>1 DEF VectorOrder
<1>3. /\ vectors' = vectors \cup {c} \/ vectors' = vectors
      /\ table' \in BOOLEAN
      /\ table' /\ vectors' # {}
      /\ vectors' = vectors => vectors # {}
  <2>1. table \in BOOLEAN /\ (table <=> vectors # {})
    BY DEF TypeOK, VectorOrder
  <2>2. CASE AddVector(c)
    <3>1. vectors' = vectors \cup {c} /\ table' = table
      BY <2>2 DEF AddVector
    <3>2. table
      BY <2>2 DEF AddVector, VectorOrder
    <3> QED
      BY <2>1, <3>1, <3>2, <1>2, Zenon
  <2>3. CASE CreateTable(c) /\ table
    BY <2>1, <2>3, Zenon DEF CreateTable
  <2>4. CASE CreateTable(c) /\ ~table
    <3>1. vectors' = {c} /\ table' = TRUE /\ vectors = {}
      BY <2>1, <2>4, Zenon DEF CreateTable
    <3> QED
      BY <3>1
  <2> QED
    BY <2>2, <2>3, <2>4
<1>4. /\ \A d \in Calls : d # c => pc'[d] = pc[d]
      /\ pc'[c] = "ok"
      /\ pc' \in [Calls -> Stages]
  BY <1>1 DEF TypeOK, Stages
<1>5. TypeOK' /\ Begun'
  BY <1>1, <1>3, <1>4 DEF TypeOK, Begun
<1>6. RowsAreStored'
  BY <1>1, <1>4 DEF RowsAreStored, BeyondFiles
<1>7. VectorOrder'
  BY <1>1, <1>2, <1>3, <1>4 DEF VectorOrder
<1>8. VectorsFollowRows'
  <2>1. vectors' \subseteq rows' /\ vectors \subseteq vectors'
    BY <1>1, <1>2, <1>3 DEF VectorsFollowRows
  <2>2. \A m \in vectors' : job[m].kind = "store"
    BY <2>1, <1>1 DEF TypeOK
  <2>3. SUFFICES ASSUME errors = 0, NEW d \in Calls, pc'[d] = "ok", job[d].kind = "store",
                        d \notin vectors'
                 PROVE  \E m \in vectors' \ {d} : job[m].kind = "store"
    BY <1>1, <2>1 DEF VectorsFollowRows
  <2>4. vectors' # {}
    BY <1>3
  <2> QED
    BY <2>2, <2>3, <2>4
<1> QED
  BY <1>5, <1>6, <1>7, <1>8
-----------------------------------------------------------------------------
(* Steps of the verbatim store.                                            *)

LEMMA IdleHasNothing ==
  ASSUME EngineInv, NEW c \in Calls, step[c] = "idle"
  PROVE  job[c].kind = "none" /\ c \notin rows /\ c \notin vectors
<1>1. job[c] = P!NoJob
  BY DEF EngineInv, P!Inv, P!TypeOK
<1>2. job[c].kind = "none"
  BY <1>1 DEF P!NoJob
<1> QED
  BY <1>2 DEF EngineInv, OwnInv, TypeOK, VectorOrder

LEMMA BeginInv ==
  ASSUME EngineInv, NEW c \in Calls, NEW k \in {"store", "read"}, NEW h \in Contents,
         V!Begin(c, k, h), pc' = [pc EXCEPT ![c] = "verbatim"],
         UNCHANGED <<stores, errors>>
  PROVE  OwnInv'
<1> USE DEF EngineInv, OwnInv
<1>1. /\ step[c] = "idle" /\ UNCHANGED <<answer, rows, table, vectors, errors>>
      /\ \A d \in Calls : d # c => /\ pc'[d] = pc[d] /\ step'[d] = step[d]
                                   /\ job'[d] = job[d]
      /\ pc'[c] = "verbatim" /\ step'[c] = "probe active"
      /\ pc' \in [Calls -> Stages]
  <2>1. job \in [Calls -> {P!NoJob} \cup [kind : P!Kinds, hash : Contents, known : BOOLEAN]]
    BY DEF P!Inv, P!TypeOK
  <2>2. step \in [Calls -> {"idle", "probe active", "probe archive", "create",
                            "write", "use active", "use archive", "done"}]
    BY DEF P!Inv, P!TypeOK
  <2>3. pc \in [Calls -> Stages]
    BY DEF TypeOK
  <2>4. \E r : job' = [job EXCEPT ![c] = r]
    BY DEF V!Begin
  <2>5. \A d \in Calls : d # c => job'[d] = job[d]
    BY <2>1, <2>4
  <2> QED
    BY <2>2, <2>3, <2>5 DEF V!Begin, stores, Stages
<1>2. job'[c].kind = k
  <2>1. job \in [Calls -> {P!NoJob} \cup [kind : P!Kinds, hash : Contents, known : BOOLEAN]]
    BY DEF P!Inv, P!TypeOK
  <2>2. job'[c] = [kind |-> k, hash |-> h, known |-> V!Acked(h)]
    BY <2>1 DEF V!Begin
  <2> QED
    BY <2>2
<1>3. c \notin rows /\ c \notin vectors
  BY <1>1, IdleHasNothing
<1>4. TypeOK'
  <2>1. \A d \in Calls : pc'[d] = "idle" => step'[d] = "idle"
    BY <1>1 DEF TypeOK
  <2>2. \A m \in rows : job'[m].kind = "store"
    BY <1>1, <1>3 DEF TypeOK
  <2>3. /\ rows \in SUBSET Calls /\ table \in BOOLEAN /\ vectors \in SUBSET Calls
        /\ errors \in 0..MaxErrors
    BY DEF TypeOK
  <2> QED
    BY <1>1, <2>1, <2>2, <2>3 DEF TypeOK
<1>5. Begun'
  BY <1>1, <1>2 DEF Begun
<1>6. RowsAreStored'
  BY <1>1, <1>3 DEF RowsAreStored, BeyondFiles
<1>7. VectorOrder'
  <2>1. table' <=> vectors' # {}
    BY <1>1, Zenon DEF VectorOrder
  <2>2. \A d \in Calls : pc'[d] = "add" => table'
    BY <1>1 DEF VectorOrder
  <2> QED
    BY <1>1, <1>3, <2>1, <2>2 DEF VectorOrder, TypeOK
<1>8. VectorsFollowRows'
  <2>1. SUFFICES ASSUME errors = 0, NEW d \in Calls, pc'[d] = "ok", job'[d].kind = "store",
                        d \notin vectors
                 PROVE  \E m \in vectors \ {d} : job'[m].kind = "store"
    BY <1>1 DEF VectorsFollowRows
  <2>2. d # c
    BY <1>1, <2>1
  <2>3. PICK m \in vectors \ {d} : job[m].kind = "store"
    BY <1>1, <2>1, <2>2 DEF VectorsFollowRows
  <2>4. m \in Calls /\ m # c
    BY <1>3 DEF TypeOK
  <2> QED
    BY <1>1, <2>3, <2>4
<1> QED
  BY <1>4, <1>5, <1>6, <1>7, <1>8

LEMMA StepIsLocal ==
  ASSUME NEW c \in Calls, V!Step(c)
  PROVE  UNCHANGED job /\ \E s : step' = [step EXCEPT ![c] = s]
<1>1. ASSUME V!UseActive(c) \/ V!UseArchive(c)
      PROVE  \E s : step' = [step EXCEPT ![c] = s]
  BY <1>1 DEF V!UseActive, V!UseArchive, V!ReadFile, V!Rename, V!Remove, V!Goto, V!Return
<1>2. UNCHANGED job
  BY DEF V!Step, V!ProbeActive, V!ProbeArchive, V!Create, V!Write, V!UseActive,
         V!UseArchive, V!SystemCallFails
<1> QED
  BY <1>1, <1>2
  DEF V!Step, V!ProbeActive, V!ProbeArchive, V!Create, V!Write, V!SystemCallFails,
      V!Goto, V!Return

LEMMA VerbatimInv ==
  ASSUME EngineInv, NEW c \in Calls, Verbatim(c), [Next]_vars
  PROVE  OwnInv'
<1> USE DEF EngineInv, OwnInv
<1>1. /\ UNCHANGED <<job, pc, rows, table, vectors, errors>>
      /\ \E s : step' = [step EXCEPT ![c] = s]
      /\ pc[c] # "idle"
  BY StepIsLocal DEF Verbatim, stores
<1>2. \A d \in Calls : d # c => step'[d] = step[d]
  <2>1. step \in [Calls -> {"idle", "probe active", "probe archive", "create",
                            "write", "use active", "use archive", "done"}]
    BY DEF P!Inv, P!TypeOK
  <2> QED
    BY <1>1, <2>1
<1>3. \A d \in Calls : pc[d] # "idle" => /\ step'[d] # "idle"
                                         /\ answer[d] = "ok" => answer'[d] = "ok"
  BY StoreKeeps
<1>4. \A d \in rows : pc[d] # "idle"
  BY IdleHasNothing DEF TypeOK
<1>5. TypeOK' /\ Begun'
  BY <1>1, <1>2, <1>3 DEF TypeOK, Begun
<1>6. RowsAreStored'
  BY <1>1, <1>3, <1>4 DEF RowsAreStored, BeyondFiles
<1>7. VectorOrder' /\ VectorsFollowRows'
  BY <1>1 DEF VectorOrder, VectorsFollowRows
<1> QED
  BY <1>5, <1>6, <1>7

LEMMA KillInv ==
  ASSUME EngineInv, Kill
  PROVE  OwnInv'
<1> USE DEF EngineInv, OwnInv
<1>1. /\ UNCHANGED <<job, answer, rows, table, vectors, errors>>
      /\ step' = [c \in Calls |-> IF step[c] = "idle" THEN "idle" ELSE "done"]
      /\ pc' = [c \in Calls |-> IF pc[c] \in {"idle", "ok", "err"} THEN pc[c] ELSE "dead"]
  BY DEF Kill, V!Kill, stores
<1>2. /\ \A c \in Calls : /\ step'[c] = "idle" <=> step[c] = "idle"
                          /\ pc'[c] \in {"idle", "ok", "err", "dead"}
                          /\ pc'[c] = "idle" <=> pc[c] = "idle"
                          /\ pc'[c] = "ok" <=> pc[c] = "ok"
      /\ pc' \in [Calls -> Stages]
  BY <1>1 DEF Stages
<1>3. TypeOK' /\ Begun'
  BY <1>1, <1>2 DEF TypeOK, Begun
<1>4. RowsAreStored'
  BY <1>1, <1>2 DEF RowsAreStored, BeyondFiles
<1>5. VectorOrder'
  <2>1. table' <=> vectors' # {}
    BY <1>1, Zenon DEF VectorOrder
  <2> QED
    BY <1>1, <1>2, <2>1 DEF VectorOrder, TypeOK
<1>6. VectorsFollowRows'
  BY <1>1, <1>2 DEF VectorsFollowRows
<1> QED
  BY <1>3, <1>4, <1>5, <1>6

-----------------------------------------------------------------------------
LEMMA EngineInit == Init => EngineInv
<1> SUFFICES ASSUME Init PROVE EngineInv
  OBVIOUS
<1>1. P!Inv
  BY SameInit, StoreAssumption, P!InitInv DEF Init
<1>2. /\ \A c \in Calls : step[c] = "idle" /\ job[c].kind = "none"
      /\ pc = [c \in Calls |-> "idle"] /\ rows = {} /\ vectors = {} /\ errors = 0
      /\ table = FALSE
  BY DEF Init, V!Init, V!NoJob
<1>3. TypeOK
  <2>1. pc \in [Calls -> Stages] /\ table \in BOOLEAN
    BY <1>2 DEF Stages
  <2>2. errors \in 0..MaxErrors
    BY <1>2, EngineAssumption
  <2> QED
    BY <1>2, <2>1, <2>2 DEF TypeOK
<1>4. RowsAreStored /\ Begun
  BY <1>2 DEF RowsAreStored, Begun, BeyondFiles
<1>5. VectorOrder /\ VectorsFollowRows
  BY <1>2 DEF VectorOrder, VectorsFollowRows
<1> QED
  BY <1>1, <1>3, <1>4, <1>5 DEF EngineInv, OwnInv

LEMMA EngineNext == EngineInv /\ [Next]_vars => EngineInv'
<1> SUFFICES ASSUME EngineInv, [Next]_vars PROVE EngineInv'
  OBVIOUS
<1>1. P!Inv'
  BY StoreKeeps
<1>2. ASSUME NEW c \in Calls, NEW h \in Contents, Retain(c, h) PROVE OwnInv'
  BY <1>2, BeginInv DEF Retain, Goto
<1>3. ASSUME NEW c \in Calls, NEW m \in Calls, Expand(c, m) PROVE OwnInv'
  BY <1>3, RowHasJob, BeginInv DEF Expand, Goto
<1>4. ASSUME NEW c \in Calls, Verbatim(c) PROVE OwnInv'
  BY <1>4, VerbatimInv
<1>5. ASSUME NEW c \in Calls,
             Stored(c) \/ Expanded(c) \/ OpenTable(c) \/ VectorFails(c) \/ Leave(c)
      PROVE  OwnInv'
  BY <1>5, BookkeepingInv DEF EngineInv
<1>6. ASSUME NEW c \in Calls, StoreRow(c) \/ RowFails(c) PROVE OwnInv'
  BY <1>6, RowInv DEF EngineInv
<1>7. ASSUME NEW c \in Calls, AddVector(c) \/ CreateTable(c) PROVE OwnInv'
  BY <1>7, VectorInv DEF EngineInv
<1>8. ASSUME Kill PROVE OwnInv'
  BY <1>8, KillInv
<1>9. ASSUME UNCHANGED vars PROVE OwnInv'
  <2>1. UNCHANGED <<job, step, answer, pc, rows, table, vectors, errors>>
    BY <1>9 DEF vars, verbatim, stores
  <2>2. TypeOK' /\ Begun'
    BY <2>1 DEF EngineInv, OwnInv, TypeOK, Begun
  <2>3. RowsAreStored' /\ VectorOrder' /\ VectorsFollowRows'
    BY <2>1 DEF EngineInv, OwnInv, RowsAreStored, VectorOrder, VectorsFollowRows
  <2> QED
    BY <2>2, <2>3 DEF OwnInv
<1> QED
  BY <1>1, <1>2, <1>3, <1>4, <1>5, <1>6, <1>7, <1>8, <1>9 DEF Next, EngineInv

LEMMA EngineInvariance == Spec => []EngineInv
  BY EngineInit, EngineNext, PTL DEF Spec

LEMMA RowsKeepFiles ==
  ASSUME EngineInv, NEW m \in rows
  PROVE  \E d \in V!Dirs : file[d][job[m].hash] # None
<1>1. m \in Calls /\ job[m].hash \in Contents
  BY RowHasJob
<1>2. job[m].kind = "store" /\ answer[m] = "ok"
  BY <1>1 DEF EngineInv, OwnInv, RowsAreStored
<1>3. P!Acked(job[m].hash)
  BY <1>1, <1>2 DEF P!Acked
<1>4. ~P!Deleted(job[m].hash)
  BY DEF EngineInv, OwnInv, Begun, P!Deleted
<1> QED
  BY <1>1, <1>3, <1>4 DEF EngineInv, P!Inv, P!AckedIsKept, P!Dirs, V!Dirs

-----------------------------------------------------------------------------
(* Types; only retains have rows, and no call handles files before it has  *)
(* begun (Engine::retain, Engine::expand).                                 *)
THEOREM EngineTypes == Spec => []TypeOK
<1>1. EngineInv => TypeOK
  BY DEF EngineInv, OwnInv
<1> QED
  BY <1>1, EngineInvariance, PTL

(* retain and expand drive the verbatim store as its module describes it.  *)
LEMMA EngineDrivesVerbatim == Spec => V!Spec
<1>1. Init => V!Init
  BY DEF Init
<1>2. EngineInv /\ [Next]_vars => [V!Next]_(V!vars)
  BY StepOfStore
<1> QED
  BY <1>1, <1>2, EngineInvariance, PTL DEF Spec, V!Spec

(* The vector index never runs ahead of the rows, and who loses his vector *)
(* without an error loses it to a retain that has one (LanceStorage::      *)
(* insert).                                                                *)
THEOREM VectorsComeAfterRows == Spec => []VectorsFollowRows
<1>1. EngineInv => VectorsFollowRows
  BY DEF EngineInv, OwnInv
<1> QED
  BY <1>1, EngineInvariance, PTL

-----------------------------------------------------------------------------
(* What a read finds.  The engine archives nothing and deletes nothing, so *)
(* the file a read is after stays in the active directory; who is writing  *)
(* has the file of its own text open, and the calls name the files.        *)
ReadsFind ==
  /\ \A c \in Calls : /\ job[c].kind \in {"none", "store", "read"}
                      /\ step[c] \notin {"probe archive", "use archive"}
  /\ \A h \in Contents : file["archive"][h] = None
  /\ \A c \in Calls : job[c].kind = "read" => file["active"][job[c].hash] # None
  /\ \A c \in Calls : step[c] = "write" => fd[c] = file["active"][job[c].hash]
  /\ \A h \in Contents :
       file["active"][h] # None =>
         /\ step[file["active"][h]] # "idle"
         /\ job[file["active"][h]].hash = h

LEMMA StoreTypes ==
  ASSUME EngineInv
  PROVE  /\ step \in [Calls -> {"idle", "probe active", "probe archive", "create",
                                "write", "use active", "use archive", "done"}]
         /\ \A c \in Calls : step[c] # "idle" => job[c].hash \in Contents
         /\ fd \in [Calls -> Calls \cup {None}]
         /\ \A c \in Calls : fd[c] # None <=> step[c] = "write"
         /\ file \in [{"active", "archive"} -> [Contents -> Calls \cup {None}]]
         /\ job \in [Calls -> {P!NoJob} \cup [kind : P!Kinds, hash : Contents, known : BOOLEAN]]
         /\ faults \in Nat /\ kills \in Nat
<1> USE DEF EngineInv, P!Inv
<1>1. faults \in Nat /\ kills \in Nat
  <2>1. faults \in 0..MaxFaults /\ kills \in 0..MaxKills
    BY DEF P!TypeOK
  <2> HIDE DEF EngineInv, P!Inv
  <2> QED BY <2>1, EngineAssumption
<1>2. \A c \in Calls : step[c] # "idle" => job[c].hash \in Contents
  BY P!JobTypes, StoreAssumption
<1>3. file \in [{"active", "archive"} -> [Contents -> Calls \cup {None}]]
  BY P!FileTypes, StoreAssumption DEF P!Dirs
<1>4. \A c \in Calls : fd[c] # None <=> step[c] = "write"
  BY P!FileTypes, StoreAssumption
<1> QED
  BY <1>1, <1>2, <1>3, <1>4 DEF P!TypeOK

(* A step that moves no file and lets nobody begin to write.               *)
LEMMA FilesAtRest ==
  ASSUME EngineInv, ReadsFind, UNCHANGED <<job, file>>,
         \A c \in Calls :
           \/ step'[c] = step[c] /\ fd'[c] = fd[c]
           \/ step'[c] = "idle" /\ step[c] = "idle"
           \/ step'[c] \in {"create", "use active", "done"}
  PROVE  ReadsFind'
<1>1. \A h \in Contents : file["active"][h] \in Calls \cup {None}
  BY StoreTypes
<1> QED
  BY <1>1 DEF ReadsFind

LEMMA BeginFinds ==
  ASSUME EngineInv, ReadsFind, NEW c \in Calls, NEW k \in {"store", "read"}, NEW h \in Contents,
         V!Begin(c, k, h), k = "read" => file["active"][h] # None
  PROVE  ReadsFind'
<1>1. /\ step[c] = "idle" /\ step'[c] = "probe active"
      /\ \A d \in Calls : d # c => step'[d] = step[d] /\ job'[d] = job[d]
      /\ UNCHANGED <<fd, file>>
      /\ job'[c].kind = k /\ job'[c].hash = h
  <2>1. job'[c] = [kind |-> k, hash |-> h, known |-> V!Acked(h)]
    BY StoreTypes DEF V!Begin
  <2>2. job' = [job EXCEPT ![c] = job'[c]]
    BY <2>1 DEF V!Begin
  <2> QED
    BY <2>1, <2>2, StoreTypes DEF V!Begin, V!files
<1>2. \A g \in Contents : file["active"][g] \in Calls \cup {None}
  BY StoreTypes
<1>3. \A g \in Contents : file["active"][g] # None => file["active"][g] # c
  <2> SUFFICES ASSUME NEW g \in Contents, file["active"][g] # None, file["active"][g] = c PROVE FALSE
    OBVIOUS
  <2>1. step[file["active"][g]] # "idle"
    BY DEF ReadsFind
  <2> QED BY <1>1, <2>1
<1>4. \A d \in Calls : job'[d].kind = "read" => file["active"][job'[d].hash] # None
  <2>1. ASSUME NEW d \in Calls, d # c, job'[d].kind = "read" PROVE file["active"][job'[d].hash] # None
    BY <1>1, <2>1 DEF ReadsFind
  <2> QED BY <1>1, <2>1
<1>5. \A d \in Calls : step'[d] = "write" => fd'[d] = file["active"][job'[d].hash]
  <2>1. ASSUME NEW d \in Calls, d # c, step'[d] = "write" PROVE fd'[d] = file["active"][job'[d].hash]
    BY <1>1, <2>1 DEF ReadsFind
  <2> QED BY <1>1, <2>1
<1>6. \A d \in Calls : /\ job'[d].kind \in {"none", "store", "read"}
                      /\ step'[d] \notin {"probe archive", "use archive"}
  BY <1>1 DEF ReadsFind
<1>7. ASSUME NEW g \in Contents, file["active"][g] # None
      PROVE  step'[file["active"][g]] # "idle" /\ job'[file["active"][g]].hash = g
  <2>1. file["active"][g] \in Calls /\ file["active"][g] # c
    BY <1>2, <1>3, <1>7
  <2>2. step[file["active"][g]] # "idle" /\ job[file["active"][g]].hash = g
    BY <1>7 DEF ReadsFind
  <2> QED BY <1>1, <2>1, <2>2
<1>8. \A g \in Contents : file["archive"][g] = None
  BY DEF ReadsFind
<1>9. file' = file
  BY <1>1
<1> QED
  <2>1. \A g \in Contents :
          file'["active"][g] # None =>
            /\ step'[file'["active"][g]] # "idle"
            /\ job'[file'["active"][g]].hash = g
    BY <1>7, <1>9
  <2>2. /\ \A d \in Calls : job'[d].kind = "read" => file'["active"][job'[d].hash] # None
        /\ \A d \in Calls : step'[d] = "write" => fd'[d] = file'["active"][job'[d].hash]
        /\ \A g \in Contents : file'["archive"][g] = None
    BY <1>4, <1>5, <1>8, <1>9
  <2> QED BY <1>6, <2>1, <2>2 DEF ReadsFind

LEMMA CreateFinds ==
  ASSUME EngineInv, ReadsFind, NEW c \in Calls, V!Create(c)
  PROVE  ReadsFind'
<1> DEFINE h == job[c].hash
<1>1. /\ step[c] = "create" /\ step'[c] = "write" /\ job' = job /\ h \in Contents
      /\ \A d \in Calls : d # c => step'[d] = step[d]
  BY StoreTypes DEF V!Create, V!Goto
<1>2. /\ fd'[c] = file'["active"][h] /\ file'["active"][h] # None
      /\ \A d \in Calls : d # c => fd'[d] = fd[d]
      /\ \A g \in Contents : g # h => file'["active"][g] = file["active"][g]
      /\ \A g \in Contents : file'["archive"][g] = file["archive"][g]
      /\ \/ file["active"][h] = None /\ file'["active"][h] = c
         \/ file["active"][h] # None /\ file'["active"][h] = file["active"][h]
  <2>0. /\ file \in [{"active", "archive"} -> [Contents -> Calls \cup {None}]]
        /\ fd \in [Calls -> Calls \cup {None}] /\ c # None
    BY StoreTypes, EngineAssumption
  <2>1. CASE file["active"][h] = None
    <3>1. /\ file' = [file EXCEPT !["active"][h] = c]
          /\ fd' = [fd EXCEPT ![c] = c]
      BY <2>1 DEF V!Create, V!Path
    <3> QED BY <1>1, <2>0, <2>1, <3>1
  <2>2. CASE file["active"][h] # None
    <3>1. /\ file' = file
          /\ fd' = [fd EXCEPT ![c] = file["active"][h]]
      BY <2>2 DEF V!Create, V!Path
    <3> QED BY <1>1, <2>0, <2>2, <3>1
  <2> QED BY <2>1, <2>2
<1>3. \A g \in Contents : file["active"][g] \in Calls \cup {None}
  BY StoreTypes
<1>4. ASSUME NEW d \in Calls, step'[d] = "write"
      PROVE  fd'[d] = file'["active"][job[d].hash]
  <2>1. CASE d = c
    BY <1>2, <2>1
  <2>2. CASE d # c
    <3>1. step[d] = "write" /\ fd[d] # None /\ job[d].hash \in Contents
      BY <1>1, <1>4, <2>2, StoreTypes
    <3>2. fd[d] = file["active"][job[d].hash]
      BY <3>1 DEF ReadsFind
    <3> QED
      BY <1>2, <2>2, <3>1, <3>2
  <2> QED BY <2>1, <2>2
<1>5. ASSUME NEW d \in Calls, job[d].kind = "read"
      PROVE  file'["active"][job[d].hash] # None
  <2>1. file["active"][job[d].hash] # None
    BY <1>5 DEF ReadsFind
  <2>2. job[d].hash \in Contents
    <3>1. P!NoJob.kind # "read"
      BY DEF P!NoJob
    <3> QED BY <1>5, <3>1, StoreTypes
  <2> QED BY <1>2, <2>1, <2>2
<1>6. ASSUME NEW g \in Contents, file'["active"][g] # None
      PROVE  /\ step'[file'["active"][g]] # "idle"
             /\ job[file'["active"][g]].hash = g
  <2>1. CASE g = h /\ file'["active"][h] = c
    BY <1>1, <2>1
  <2>2. CASE file'["active"][g] = file["active"][g]
    <3>1. /\ file["active"][g] \in Calls
          /\ step[file["active"][g]] # "idle" /\ job[file["active"][g]].hash = g
      BY <1>3, <1>6, <2>2 DEF ReadsFind
    <3>2. \A d \in Calls : step[d] # "idle" => step'[d] # "idle"
      BY <1>1
    <3> QED BY <2>2, <3>1, <3>2
  <2> QED BY <1>2, <2>1, <2>2
<1> QED
  BY <1>1, <1>2, <1>4, <1>5, <1>6 DEF ReadsFind

LEMMA StepFinds ==
  ASSUME EngineInv, ReadsFind, NEW c \in Calls, V!Step(c)
  PROVE  ReadsFind'
<1>1. CASE V!Create(c)
  BY <1>1, CreateFinds
<1>2. CASE V!ProbeActive(c)
  <2>1. /\ step[c] = "probe active" /\ UNCHANGED <<job, fd, file>>
        /\ \A d \in Calls : d # c => step'[d] = step[d]
    BY <1>2, StoreTypes DEF V!ProbeActive, V!Goto, V!Return, V!files
  <2>2. job[c].kind \in {"store", "read"}
    <3>1. job[c] \in [kind : P!Kinds, hash : Contents, known : BOOLEAN]
      BY <2>1, P!JobTypes, StoreAssumption DEF EngineInv, P!Inv
    <3> QED BY <3>1 DEF ReadsFind, P!Kinds
  <2>3. step'[c] \in {"create", "use active", "done"}
    <3>1. job[c].kind = "read" => V!Path("active", c) # None
      BY DEF ReadsFind, V!Path
    <3> QED BY <1>2, <2>2, <3>1, StoreTypes DEF V!ProbeActive, V!Goto, V!Return
  <2> QED BY <2>1, <2>3, FilesAtRest
<1>3. CASE V!Write(c) \/ V!UseActive(c) \/ V!SystemCallFails(c)
  <2>1. job[c].kind \notin {"archive", "delete"}
    BY DEF ReadsFind
  <2>2. /\ UNCHANGED <<job, file>>
        /\ \A d \in Calls : d # c => step'[d] = step[d] /\ fd'[d] = fd[d]
        /\ step'[c] = "done"
    BY <1>3, <2>1, StoreTypes
    DEF V!Write, V!UseActive, V!ReadFile, V!Rename, V!Remove, V!SystemCallFails, V!Return, V!files
  <2> QED BY <2>2, FilesAtRest
<1>4. step[c] \notin {"probe archive", "use archive"}
  BY DEF ReadsFind
<1> QED
  BY <1>1, <1>2, <1>3, <1>4 DEF V!Step, V!ProbeArchive, V!UseArchive

LEMMA EngineFinds == EngineInv /\ ReadsFind /\ [Next]_vars => ReadsFind'
<1> SUFFICES ASSUME EngineInv, ReadsFind, [Next]_vars PROVE ReadsFind'
  OBVIOUS
<1>1. ASSUME NEW c \in Calls, NEW h \in Contents, Retain(c, h) PROVE ReadsFind'
  BY <1>1, BeginFinds DEF Retain
<1>2. ASSUME NEW c \in Calls, NEW m \in Calls, Expand(c, m) PROVE ReadsFind'
  <2>1. m \in rows /\ job[m].hash \in Contents
    BY <1>2, RowHasJob DEF Expand
  <2>2. PICK d \in V!Dirs : file[d][job[m].hash] # None
    BY <2>1, RowsKeepFiles
  <2>3. file["archive"][job[m].hash] = None
    BY <2>1 DEF ReadsFind
  <2>4. file["active"][job[m].hash] # None
    BY <2>2, <2>3 DEF V!Dirs
  <2> QED BY <1>2, <2>1, <2>4, BeginFinds DEF Expand
<1>3. ASSUME NEW c \in Calls, Verbatim(c) PROVE ReadsFind'
  BY <1>3, StepFinds DEF Verbatim
<1>4. ASSUME Kill PROVE ReadsFind'
  <2>1. UNCHANGED <<job, file>>
    BY <1>4 DEF Kill, V!Kill
  <2>2. \A c \in Calls : \/ step'[c] = "idle" /\ step[c] = "idle"
                         \/ step'[c] = "done"
    BY <1>4 DEF Kill, V!Kill
  <2> QED BY <2>1, <2>2, FilesAtRest
<1>5. ASSUME UNCHANGED verbatim PROVE ReadsFind'
  BY <1>5, FilesAtRest DEF verbatim
<1> QED
  BY <1>1, <1>2, <1>3, <1>4, <1>5
  DEF Next, vars, Stored, Expanded, StoreRow, RowFails, OpenTable, AddVector,
      CreateTable, VectorFails, Leave

(* An answer of a read that is not its text, as the step of the store that *)
(* gives it.                                                               *)
LEMMA BadAnswerHasWriter ==
  ASSUME EngineInv, ReadsFind, NEW c \in Calls, V!Step(c),
         job[c].kind = "read", answer[c] = "none", answer'[c] \notin {"none", "ok"},
         faults' = 0, kills = 0
  PROVE  \E d \in Calls \ rows : step[d] = "write" /\ job[d].hash = job[c].hash
<1> DEFINE h == job[c].hash
           i == file["active"][h]
<1>1. i # None /\ i \in Calls /\ h \in Contents
  <2>1. P!NoJob.kind # "read"
    BY DEF P!NoJob
  <2>2. h \in Contents
    BY <2>1, StoreTypes
  <2>3. i # None
    BY DEF ReadsFind
  <2>4. file["active"] \in [Contents -> Calls \cup {None}]
    BY StoreTypes
  <2> QED BY <2>2, <2>3, <2>4
<1>2. answer \in [Calls -> {"none", "ok", "missing", "corrupt", "io"}]
  BY DEF EngineInv, P!Inv, P!TypeOK
<1>3. i \notin whole /\ faults = 0
  <2>0. faults \in Nat
    BY StoreTypes
  <2>1. ~V!SystemCallFails(c)
    <3>1. V!SystemCallFails(c) => faults' = faults + 1
      BY DEF V!SystemCallFails
    <3> QED BY <2>0, <3>1
  <2>2. V!UseActive(c)
    BY <1>1, <1>2, <2>1
    DEF V!Step, V!ProbeActive, V!ProbeArchive, V!Create, V!Write, V!UseArchive, V!Path,
        V!Goto, V!Return, ReadsFind
  <2> QED
    BY <1>1, <1>2, <2>2 DEF V!UseActive, V!ReadFile, V!Rename, V!Remove, V!Return, V!Path
<1>4. PICK d \in Calls : step[d] = "write" /\ fd[d] = i
  BY <1>1, <1>3 DEF EngineInv, P!Inv, P!FilesAreFilled, P!Filled, P!Dirs
<1>5. job[d].hash = h
  <2>1. job[d].hash \in Contents /\ file["active"][job[d].hash] = i
    BY <1>4, StoreTypes DEF ReadsFind
  <2>2. job[file["active"][job[d].hash]].hash = job[d].hash
    BY <1>1, <2>1 DEF ReadsFind
  <2>3. job[file["active"][h]].hash = h
    BY <1>1 DEF ReadsFind
  <2> QED BY <2>1, <2>2, <2>3
<1>6. d \notin rows
  BY <1>4 DEF EngineInv, OwnInv, RowsAreStored, P!Inv, P!AnswersWhenDone
<1> QED
  BY <1>4, <1>5, <1>6

(* While no system call fails and the process stays up, an expand fails    *)
(* only beside a retain of the same text that has no row yet and is        *)
(* writing the file (Engine::expand, VerbatimStorage::store and read).     *)
THEOREM ExpandsFindTexts == Spec => ExpandFindsText
<1>1. Init => ReadsFind
  <2> SUFFICES ASSUME Init PROVE ReadsFind
    OBVIOUS
  <2> QED BY DEF Init, V!Init, V!NoJob, V!Dirs, ReadsFind
<1>2. ASSUME EngineInv, ReadsFind, [Next]_vars, NEW c \in Calls,
             job[c].kind = "read", answer[c] = "none", answer'[c] \notin {"none", "ok"},
             faults' = 0, kills' = 0
      PROVE  \E d \in Calls \ rows : step[d] = "write" /\ job[d].hash = job[c].hash
  <2>1. ~Kill
    BY <1>2, StoreTypes DEF Kill, V!Kill
  <2>2. ~\E e \in Calls : (\E g \in Contents : Retain(e, g)) \/ (\E m \in Calls : Expand(e, m))
    BY <1>2 DEF Retain, Expand, V!Begin
  <2>3. ~UNCHANGED verbatim
    BY <1>2 DEF verbatim
  <2>4. PICK e \in Calls : Verbatim(e)
    BY <1>2, <2>1, <2>2, <2>3
    DEF Next, vars, Stored, Expanded, StoreRow, RowFails, OpenTable, AddVector,
        CreateTable, VectorFails, Leave
  <2>5. V!Step(e)
    BY <2>4 DEF Verbatim
  <2>6. e = c
    <3>1. answer \in [Calls -> {"none", "ok", "missing", "corrupt", "io"}]
      BY <1>2 DEF EngineInv, P!Inv, P!TypeOK
    <3>2. \/ UNCHANGED answer
          \/ \E a : answer' = [answer EXCEPT ![e] = a]
      BY <2>5
      DEF V!Step, V!ProbeActive, V!ProbeArchive, V!Create, V!Write, V!UseActive, V!UseArchive,
          V!SystemCallFails, V!ReadFile, V!Rename, V!Remove, V!Goto, V!Return
    <3> QED BY <1>2, <3>1, <3>2
  <2>7. kills' = kills
    BY <2>5
    DEF V!Step, V!ProbeActive, V!ProbeArchive, V!Create, V!Write, V!UseActive, V!UseArchive,
        V!SystemCallFails
  <2> QED BY <1>2, <2>5, <2>6, <2>7, BadAnswerHasWriter
<1>3. EngineInv /\ ReadsFind /\ [Next]_vars => ReadsFind'
  BY EngineFinds
<1>4. EngineInv /\ ReadsFind =>
        [ [Next]_vars =>
          \A c \in Calls :
            (/\ job[c].kind = "read" /\ answer[c] = "none"
             /\ answer'[c] \notin {"none", "ok"}
             /\ faults' = 0 /\ kills' = 0)
              => \E d \in Calls \ rows : step[d] = "write" /\ job[d].hash = job[c].hash ]_vars
  BY <1>2
<1> QED
  BY <1>1, <1>3, <1>4, EngineInvariance, PTL DEF Spec, ExpandFindsText

-----------------------------------------------------------------------------
(* What tears a transcript.                                                *)

(* Only a store writes, and a file is filled unless a store of its text    *)
(* failed or was cut off.                                                  *)
TextInv ==
  /\ \A c \in Calls : step[c] \in {"create", "write"} => job[c].kind = "store"
  /\ \A h \in Contents :
       file["active"][h] # None => V!Filled(file["active"][h]) \/ StoreFailed(h)

LEMMA AnswerTypes ==
  ASSUME EngineInv
  PROVE  /\ answer \in [Calls -> {"none", "ok", "missing", "corrupt", "io"}]
         /\ \A c \in Calls : answer[c] # "none" => step[c] = "done"
         /\ \A c \in Calls : step[c] = "idle" => job[c].kind = "none"
         /\ whole \in SUBSET Calls
<1>1. P!TypeOK /\ P!AnswersWhenDone
  BY DEF EngineInv, P!Inv
<1>2. \A c \in Calls : step[c] = "idle" => job[c].kind = "none"
  <2>1. \A c \in Calls : step[c] = "idle" <=> job[c] = P!NoJob
    BY <1>1, Zenon DEF P!TypeOK
  <2>2. P!NoJob.kind = "none"
    BY DEF P!NoJob
  <2> QED BY <2>1, <2>2
<1>3. \A c \in Calls : answer[c] # "none" => step[c] = "done"
  BY <1>1 DEF P!AnswersWhenDone
<1>4. answer \in [Calls -> {"none", "ok", "missing", "corrupt", "io"}] /\ whole \in SUBSET Calls
  BY <1>1 DEF P!TypeOK
<1> QED BY <1>2, <1>3, <1>4

(* A store that failed has failed for good.                                *)
LEMMA FailureStays ==
  ASSUME EngineInv, NEW h, StoreFailed(h),
         \A c \in Calls : step[c] = "done" => UNCHANGED <<job[c], step[c], answer[c]>>
  PROVE  StoreFailed(h)'
<1>1. PICK c \in Calls : /\ job[c].kind = "store" /\ job[c].hash = h
                         /\ \/ answer[c] = "io"
                            \/ answer[c] = "none" /\ step[c] = "done"
  BY DEF StoreFailed
<1>2. step[c] = "done"
  BY <1>1, AnswerTypes
<1> QED BY <1>1, <1>2 DEF StoreFailed

(* A step of one call that does not write leaves what is filled filled.    *)
LEMMA QuietText ==
  ASSUME EngineInv, ReadsFind, TextInv, NEW c \in Calls,
         step[c] \notin {"write", "done"}, UNCHANGED <<fd, file, whole>>,
         \A d \in Calls : d # c => UNCHANGED <<job[d], step[d], answer[d]>>,
         step'[c] \notin {"create", "write"} \/ job'[c].kind = "store"
  PROVE  TextInv'
<1>1. \A i : V!Filled(i) => V!Filled(i)'
  BY DEF V!Filled
<1>2. \A h : StoreFailed(h) => StoreFailed(h)'
  BY FailureStays
<1>3. \A d \in Calls : step'[d] \in {"create", "write"} => job'[d].kind = "store"
  BY DEF TextInv
<1> QED BY <1>1, <1>2, <1>3 DEF TextInv

LEMMA CreateText ==
  ASSUME EngineInv, ReadsFind, TextInv, NEW c \in Calls, V!Create(c)
  PROVE  TextInv'
<1>h. PICK h : h = job[c].hash
  OBVIOUS
<1>i. PICK i : i = file'["active"][h]
  OBVIOUS
<1> USE <1>h, <1>i
<1>1. /\ step[c] = "create" /\ step'[c] = "write" /\ UNCHANGED <<job, answer>> /\ h \in Contents
      /\ \A d \in Calls : d # c => step'[d] = step[d]
  BY StoreTypes DEF V!Create, V!Goto
<1>2. /\ fd'[c] = i /\ \A d \in Calls : d # c => fd'[d] = fd[d]
      /\ \A g \in Contents : g # h => file'["active"][g] = file["active"][g]
      /\ whole \ {i} \subseteq whole'
      /\ \/ i = c
         \/ i = file["active"][h] /\ i # None
  <2>0. /\ file \in [{"active", "archive"} -> [Contents -> Calls \cup {None}]]
        /\ fd \in [Calls -> Calls \cup {None}]
    BY StoreTypes
  <2>1. CASE file["active"][h] = None
    <3>1. /\ file' = [file EXCEPT !["active"][h] = c]
          /\ fd' = [fd EXCEPT ![c] = c] /\ UNCHANGED whole
      BY <2>1 DEF V!Create, V!Path
    <3> QED BY <1>1, <2>0, <2>1, <3>1
  <2>2. CASE file["active"][h] # None
    <3>1. /\ file' = file /\ fd' = [fd EXCEPT ![c] = file["active"][h]]
          /\ whole' = whole \ {file["active"][h]}
      BY <2>2 DEF V!Create, V!Path
    <3> QED BY <1>1, <2>0, <2>2, <3>1
  <2> QED BY <2>1, <2>2
<1>3. V!Filled(i)'
  BY <1>1, <1>2 DEF V!Filled
<1>4. ASSUME NEW g \in Contents, g # h, file["active"][g] # None
      PROVE  V!Filled(file["active"][g])' \/ StoreFailed(g)'
  <2>j. PICK j : j = file["active"][g]
    OBVIOUS
  <2> USE <2>j
  <2>1. j \in Calls /\ step[j] # "idle" /\ job[j].hash = g
    <3>1. j \in Calls \cup {None}
      BY StoreTypes
    <3> QED BY <1>4, <3>1 DEF ReadsFind
  <2>2. i # j
    <3>1. CASE i = file["active"][h] /\ i # None
      <4>1. job[i].hash = h
        BY <1>1, <3>1 DEF ReadsFind
      <4> QED BY <1>4, <2>1, <4>1
    <3>2. CASE i = c
      BY <1>4, <2>1, <3>2
    <3> QED BY <1>2, <3>1, <3>2
  <2>3. ASSUME V!Filled(j) PROVE V!Filled(j)'
    <3>1. CASE j \in whole
      BY <1>2, <2>2, <3>1 DEF V!Filled
    <3>2. CASE \E d \in Calls : step[d] = "write" /\ fd[d] = j
      BY <1>1, <1>2, <3>2 DEF V!Filled
    <3> QED BY <2>3, <3>1, <3>2 DEF V!Filled
  <2>4. StoreFailed(g) => StoreFailed(g)'
    BY <1>1, FailureStays
  <2>5. (file["active"][g])' = j
    BY <1>2, <1>4
  <2> QED BY <1>4, <2>3, <2>4, <2>5 DEF TextInv
<1>5. \A d \in Calls : step'[d] \in {"create", "write"} => job'[d].kind = "store"
  BY <1>1 DEF TextInv
<1> QED BY <1>2, <1>3, <1>4, <1>5 DEF TextInv

(* fs::write ends, well or badly.                                          *)
LEMMA WriteText ==
  ASSUME EngineInv, ReadsFind, TextInv, NEW c \in Calls,
         V!Write(c) \/ V!SystemCallFails(c)
  PROVE  TextInv'
<1>1. /\ UNCHANGED <<job, file>> /\ step'[c] = "done" /\ step[c] # "done"
      /\ fd' = [fd EXCEPT ![c] = None]
      /\ \A d \in Calls : d # c => step'[d] = step[d] /\ answer'[d] = answer[d]
      /\ whole \ {fd[c]} \subseteq whole'
      /\ fd[c] \in whole' \/ answer'[c] = "io"
  BY StoreTypes, AnswerTypes DEF V!Write, V!SystemCallFails, V!Return
<1>2. \A d \in Calls : step'[d] \in {"create", "write"} => job'[d].kind = "store"
  BY <1>1 DEF TextInv
<1>3. ASSUME NEW h \in Contents, file["active"][h] # None
      PROVE  V!Filled(file["active"][h])' \/ StoreFailed(h)'
  <2> DEFINE i == file["active"][h]
  <2>1. i \in Calls /\ job[i].hash = h
    <3>1. i \in Calls \cup {None}
      BY StoreTypes
    <3> QED BY <1>3, <3>1 DEF ReadsFind
  <2>2. CASE fd[c] = i
    <3>1. step[c] = "write" /\ job[c].kind = "store" /\ job[c].hash \in Contents
      BY <1>3, <2>2, StoreTypes DEF TextInv
    <3>2. job[c].hash = h
      <4>1. file["active"][job[c].hash] = i
        BY <2>2, <3>1 DEF ReadsFind
      <4>2. job[file["active"][job[c].hash]].hash = job[c].hash
        BY <1>3, <3>1, <4>1 DEF ReadsFind
      <4> QED BY <2>1, <4>1, <4>2
    <3> QED BY <1>1, <2>2, <3>1, <3>2 DEF V!Filled, StoreFailed
  <2>3. CASE fd[c] # i
    <3>1. V!Filled(i) => V!Filled(i)'
      BY <1>1, <2>3, StoreTypes DEF V!Filled
    <3>2. StoreFailed(h) => StoreFailed(h)'
      BY <1>1, FailureStays
    <3> QED BY <1>3, <3>1, <3>2 DEF TextInv
  <2> QED BY <2>2, <2>3
<1> QED BY <1>1, <1>2, <1>3 DEF TextInv

LEMMA KillText ==
  ASSUME EngineInv, ReadsFind, TextInv, V!Kill
  PROVE  TextInv'
<1>1. /\ UNCHANGED <<job, answer, file>>
      /\ \A c \in Calls : /\ step'[c] \in {"idle", "done"}
                          /\ step[c] # "idle" => step'[c] = "done"
      /\ \A i \in whole : i \in whole' \/ \E c \in Calls : fd[c] = i
  BY DEF V!Kill
<1>2. ASSUME NEW h \in Contents, file["active"][h] # None
      PROVE  V!Filled(file["active"][h])' \/ StoreFailed(h)'
  <2> DEFINE i == file["active"][h]
  <2>1. i \in Calls /\ job[i].hash = h
    <3>1. i \in Calls \cup {None}
      BY StoreTypes
    <3> QED BY <1>2, <3>1 DEF ReadsFind
  <2>2. ASSUME NEW c \in Calls, fd[c] = i PROVE StoreFailed(h)'
    <3>1. step[c] = "write" /\ job[c].kind = "store" /\ job[c].hash \in Contents
      BY <1>2, <2>2, StoreTypes DEF TextInv
    <3>2. job[c].hash = h
      <4>1. file["active"][job[c].hash] = i
        BY <2>2, <3>1 DEF ReadsFind
      <4>2. job[file["active"][job[c].hash]].hash = job[c].hash
        BY <1>2, <3>1, <4>1 DEF ReadsFind
      <4> QED BY <2>1, <4>1, <4>2
    <3>3. answer[c] = "none"
      BY <3>1, AnswerTypes
    <3> QED BY <1>1, <3>1, <3>2, <3>3 DEF StoreFailed
  <2>3. CASE V!Filled(i)
    BY <1>1, <2>2, <2>3 DEF V!Filled
  <2>4. CASE StoreFailed(h)
    <3>1. \A c \in Calls : step[c] = "done" => step'[c] = "done"
      BY <1>1
    <3> QED BY <1>1, <2>4, <3>1, FailureStays
  <2> QED BY <1>2, <2>3, <2>4 DEF TextInv
<1> QED BY <1>1, <1>2 DEF TextInv

LEMMA StepText ==
  ASSUME EngineInv, ReadsFind, TextInv, NEW c \in Calls, V!Step(c)
  PROVE  TextInv'
<1>1. CASE V!Create(c)
  BY <1>1, CreateText
<1>2. CASE V!Write(c) \/ V!SystemCallFails(c)
  BY <1>2, WriteText
<1>3. CASE V!ProbeActive(c)
  <2>1. /\ step[c] = "probe active" /\ UNCHANGED <<job, fd, file, whole>>
        /\ \A d \in Calls : d # c => step'[d] = step[d] /\ answer'[d] = answer[d]
    BY <1>3, StoreTypes, AnswerTypes DEF V!ProbeActive, V!Goto, V!Return, V!files
  <2>2. step'[c] \notin {"create", "write"} \/ job'[c].kind = "store"
    <3>1. job[c].kind \in {"none", "store", "read"} /\ (job[c].kind = "read" => V!Path("active", c) # None)
      BY DEF ReadsFind, V!Path
    <3>2. job[c] \in [kind : P!Kinds, hash : Contents, known : BOOLEAN]
      BY <2>1, P!JobTypes, StoreAssumption DEF EngineInv, P!Inv
    <3>3. job[c].kind \in {"store", "read"}
      BY <3>1, <3>2 DEF P!Kinds
    <3> QED BY <1>3, <3>1, <3>3, StoreTypes DEF V!ProbeActive, V!Goto, V!Return
  <2> QED BY <2>1, <2>2, QuietText
<1>4. CASE V!UseActive(c)
  <2>1. job[c].kind \notin {"archive", "delete"}
    BY DEF ReadsFind
  <2>2. /\ UNCHANGED <<job, fd, file, whole>> /\ step[c] = "use active" /\ step'[c] = "done"
        /\ \A d \in Calls : d # c => step'[d] = step[d] /\ answer'[d] = answer[d]
    BY <1>4, <2>1, StoreTypes, AnswerTypes
    DEF V!UseActive, V!ReadFile, V!Rename, V!Remove, V!Return, V!files
  <2> QED BY <2>2, QuietText
<1>5. step[c] \notin {"probe archive", "use archive"}
  BY DEF ReadsFind
<1> QED
  BY <1>1, <1>2, <1>3, <1>4, <1>5 DEF V!Step, V!ProbeArchive, V!UseArchive

LEMMA EngineText == EngineInv /\ ReadsFind /\ TextInv /\ [Next]_vars => TextInv'
<1> SUFFICES ASSUME EngineInv, ReadsFind, TextInv, [Next]_vars PROVE TextInv'
  OBVIOUS
<1>1. ASSUME NEW c \in Calls, NEW k, NEW h, V!Begin(c, k, h) PROVE TextInv'
  <2>1. /\ step[c] = "idle" /\ step'[c] = "probe active" /\ UNCHANGED <<answer, fd, file, whole>>
        /\ \A d \in Calls : d # c => step'[d] = step[d] /\ job'[d] = job[d]
    BY <1>1, StoreTypes DEF V!Begin, V!files
  <2> QED BY <2>1, QuietText
<1>2. ASSUME NEW c \in Calls, Verbatim(c) PROVE TextInv'
  BY <1>2, StepText DEF Verbatim
<1>3. ASSUME Kill PROVE TextInv'
  BY <1>3, KillText DEF Kill
<1>4. ASSUME UNCHANGED verbatim PROVE TextInv'
  BY <1>4 DEF verbatim, TextInv, V!Filled, StoreFailed
<1> QED
  BY <1>1, <1>2, <1>3, <1>4
  DEF Next, vars, Retain, Expand, Stored, Expanded, StoreRow, RowFails, OpenTable, AddVector,
      CreateTable, VectorFails, Leave

(* A row has a file of its text, and only a store of the same text that    *)
(* failed or was cut off leaves that file torn (Engine::retain).           *)
THEOREM RowsHaveTexts == Spec => []RowHasText
<1>1. Init => ReadsFind /\ TextInv
  <2> SUFFICES ASSUME Init PROVE ReadsFind /\ TextInv
    OBVIOUS
  <2>1. /\ step = [c \in Calls |-> "idle"] /\ fd = [c \in Calls |-> None]
        /\ job = [c \in Calls |-> V!NoJob]
        /\ \A d \in V!Dirs : \A h \in Contents : file[d][h] = None
    BY DEF Init, V!Init
  <2>2. \A c \in Calls : step[c] = "idle" /\ fd[c] = None /\ job[c].kind = "none"
    BY <2>1 DEF V!NoJob
  <2>3. ReadsFind
    BY <2>1, <2>2 DEF ReadsFind, V!Dirs
  <2> QED BY <2>1, <2>2, <2>3 DEF TextInv, V!Dirs
<1>2. ASSUME EngineInv, ReadsFind, TextInv PROVE RowHasText
  <2> SUFFICES ASSUME NEW m \in rows
               PROVE  /\ file["active"][job[m].hash] # None
                      /\ V!Filled(file["active"][job[m].hash]) \/ StoreFailed(job[m].hash)
    BY DEF RowHasText, V!Dirs
  <2>1. job[m].hash \in Contents
    BY <1>2, RowHasJob
  <2>2. \E d \in V!Dirs : file[d][job[m].hash] # None
    BY <1>2, RowsKeepFiles
  <2>3. file["archive"][job[m].hash] = None
    BY <1>2, <2>1 DEF ReadsFind
  <2>4. file["active"][job[m].hash] # None
    BY <2>2, <2>3 DEF V!Dirs
  <2> QED BY <1>2, <2>1, <2>4 DEF TextInv
<1> QED
  BY <1>1, <1>2, EngineFinds, EngineText, EngineInvariance, PTL DEF Spec
=============================================================================
