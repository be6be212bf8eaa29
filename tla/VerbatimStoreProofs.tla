-------------------------- MODULE VerbatimStoreProofs --------------------------
(***************************************************************************)
(* Safety of VerbatimStore for any number of calls, contents, errors and   *)
(* exits.                                                                  *)
(*                                                                         *)
(* The argument: only a delete takes the last file of a content away, so   *)
(* what a store has created is there when the store answers and when a     *)
(* read looks; and a file moves from the active directory to the archive,  *)
(* never back, so a read that has missed it in the first finds it in the   *)
(* second.                                                                 *)
(***************************************************************************)
EXTENDS VerbatimStore, TLAPS

Present(h) == \E d \in Dirs : file[d][h] # None

(* The content of a call that has its file open has a file.                *)
WriterIsPresent ==
  \A c \in Calls :
    step[c] = "write" /\ ~Deleted(job[c].hash) => Present(job[c].hash)

(* What a read knew to be answered is answered.                            *)
KnownIsAcked ==
  \A c \in Calls : step[c] # "idle" /\ job[c].known => Acked(job[c].hash)

(* A read that looks into the archive finds there what it knew of.         *)
SecondLookFinds ==
  \A c \in Calls :
    (/\ step[c] = "probe archive"
     /\ job[c].kind = "read"
     /\ job[c].known
     /\ ~Deleted(job[c].hash)) => file["archive"][job[c].hash] # None

(* A call answers when it is done and not before.                          *)
AnswersWhenDone == \A c \in Calls : answer[c] # "none" => step[c] = "done"

(* Only a read or a delete looks into the archive.                         *)
StepFitsJob ==
  \A c \in Calls : step[c] = "probe archive" => job[c].kind \in {"read", "delete"}

Inv ==
  /\ TypeOK
  /\ StepFitsJob
  /\ AnswersWhenDone
  /\ WriterIsPresent
  /\ AckedIsKept
  /\ KnownIsAcked
  /\ SecondLookFinds
  /\ NeverMissing
  /\ FilesAreFilled

LEMMA InitInv == Init => Inv
<1> SUFFICES ASSUME Init PROVE Inv
  OBVIOUS
<1> USE DEF Init
<1>1. TypeOK
  BY VerbatimAssumption DEF TypeOK, Kinds, Dirs, NoJob
<1>2. WriterIsPresent /\ AckedIsKept /\ KnownIsAcked /\ SecondLookFinds
  BY DEF WriterIsPresent, AckedIsKept, Acked, KnownIsAcked, SecondLookFinds, NoJob
<1>3. NeverMissing /\ FilesAreFilled
  BY DEF NeverMissing, FilesAreFilled, Dirs
<1>4. AnswersWhenDone /\ StepFitsJob
  BY DEF AnswersWhenDone, StepFitsJob
<1> QED
  BY <1>1, <1>2, <1>3, <1>4 DEF Inv

(* The jobs that have begun keep what they do, and every answer is final.  *)
JobsStay ==
  \A c \in Calls :
    /\ step[c] # "idle" => job'[c] = job[c] /\ step'[c] # "idle"
    /\ answer[c] # "none" => answer'[c] = answer[c]

(* A content that nobody deletes keeps a file, and keeps it in the archive *)
(* once it is there.                                                       *)
FilesStay ==
  \A h \in Contents :
    ~Deleted(h) =>
      /\ Present(h) => Present(h)'
      /\ file["archive"][h] # None => file'["archive"][h] # None

(* What a step may add to the calls: a file opened for writing is there, a *)
(* store that answers had opened its file or finds one, a read begins with *)
(* what is answered, and goes to the archive or reports that nothing is    *)
(* there only after it has looked.                                         *)
CallsAdvance ==
  \A c \in Calls :
    /\ step'[c] = "write" /\ step[c] # "write" => Present(job[c].hash)'
    /\ (answer'[c] = "ok" /\ answer[c] # "ok" /\ job'[c].kind = "store")
         => step[c] = "write" \/ Present(job[c].hash)'
    /\ (step[c] = "idle" /\ step'[c] # "idle" /\ job'[c].known)
         => Acked(job[c].hash)'
    /\ (step'[c] = "probe archive" /\ step[c] # "probe archive")
         => \/ job[c].kind = "delete" /\ step[c] # "idle"
            \/ /\ job[c].kind = "read"
               /\ step[c] = "probe active"
               /\ file["active"][job[c].hash] = None
               /\ UNCHANGED file
    /\ (answer'[c] = "missing" /\ answer[c] # "missing")
         => step[c] = "probe archive" /\ file["archive"][job[c].hash] = None

LEMMA JobHasBegun ==
  ASSUME TypeOK, NEW c \in Calls, job[c].kind \in Kinds
  PROVE  step[c] # "idle"
<1>1. NoJob.kind \notin Kinds
  BY DEF NoJob, Kinds
<1>2. job[c] # NoJob
  BY <1>1
<1> QED
  BY <1>2 DEF TypeOK

LEMMA DeletedStays ==
  ASSUME TypeOK, JobsStay, NEW h, Deleted(h)
  PROVE  Deleted(h)'
<1>1. PICK c \in Calls : job[c].kind = "delete" /\ job[c].hash = h
  BY DEF Deleted
<1>2. step[c] # "idle"
  BY <1>1, JobHasBegun DEF Kinds
<1>3. job'[c] = job[c]
  BY <1>2 DEF JobsStay
<1> QED
  BY <1>1, <1>3 DEF Deleted

LEMMA AckedStays ==
  ASSUME TypeOK, JobsStay, NEW h, Acked(h)
  PROVE  Acked(h)'
<1>1. PICK c \in Calls : job[c].kind = "store" /\ job[c].hash = h /\ answer[c] = "ok"
  BY DEF Acked
<1>2. step[c] # "idle"
  BY <1>1, JobHasBegun DEF Kinds
<1>3. job'[c] = job[c] /\ answer'[c] = answer[c]
  BY <1>1, <1>2 DEF JobsStay
<1> QED
  BY <1>1, <1>3 DEF Acked

(* Steps of this kind keep what is said of files that are there.           *)
LEMMA Kept ==
  ASSUME Inv, TypeOK', AnswersWhenDone', JobsStay, FilesStay, CallsAdvance
  PROVE  WriterIsPresent' /\ AckedIsKept' /\ KnownIsAcked' /\ SecondLookFinds'
           /\ NeverMissing' /\ StepFitsJob'
<1> USE DEF Inv
<1>1. \A h : Deleted(h) => Deleted(h)'
  BY DeletedStays
<1>2. \A h : Acked(h) => Acked(h)'
  BY AckedStays
<1>3. \A h \in Contents : ~Deleted(h) /\ Present(h) => Present(h)'
  BY DEF FilesStay
<1>4. \A h \in Contents : ~Deleted(h) /\ file["archive"][h] # None => file'["archive"][h] # None
  BY DEF FilesStay
<1>5. \A c \in Calls : step[c] # "idle" => /\ job'[c] = job[c]
                                        /\ job[c].hash \in Contents
                                        /\ step'[c] # "idle"
  BY DEF JobsStay, TypeOK
<1>6. WriterIsPresent'
  <2> SUFFICES ASSUME NEW c \in Calls, step'[c] = "write", ~Deleted(job[c].hash)'
               PROVE  Present(job[c].hash)'
    BY DEF WriterIsPresent
  <2>1. CASE step[c] # "write"
    BY <2>1 DEF CallsAdvance
  <2>2. CASE step[c] = "write"
    <3>1. job'[c] = job[c] /\ job[c].hash \in Contents
      BY <2>2, <1>5
    <3>2. ~Deleted(job[c].hash)
      BY <3>1, <1>1 DEF Deleted
    <3>3. Present(job[c].hash)
      BY <3>2, <2>2 DEF WriterIsPresent
    <3> QED
      BY <3>1, <3>2, <3>3, <1>3 DEF Present
  <2> QED
    BY <2>1, <2>2
<1>7. AckedIsKept'
  <2> SUFFICES ASSUME NEW h \in Contents, Acked(h)', ~Deleted(h)'
               PROVE  Present(h)'
    BY DEF AckedIsKept, Present
  <2>1. PICK c \in Calls : job'[c].kind = "store" /\ job'[c].hash = h /\ answer'[c] = "ok"
    BY DEF Acked
  <2>2. ~Deleted(h)
    BY <1>1
  <2>3. CASE answer[c] = "ok"
    <3>1. job'[c] = job[c]
      BY <2>3, <1>5 DEF AnswersWhenDone
    <3>2. Present(h)
      BY <3>1, <2>1, <2>2, <2>3 DEF AckedIsKept, Acked, Present
    <3> QED
      BY <3>2, <2>2, <1>3
  <2>4. CASE answer[c] # "ok" /\ step[c] = "write"
    <3>1. job'[c] = job[c]
      BY <2>4, <1>5
    <3>2. Present(h)
      BY <3>1, <2>1, <2>2, <2>4 DEF WriterIsPresent
    <3> QED
      BY <3>2, <2>2, <1>3
  <2>5. CASE answer[c] # "ok" /\ step[c] # "write"
    <3>1. Present(job[c].hash)'
      BY <2>5, <2>1 DEF CallsAdvance
    <3> QED
      BY <3>1, <2>1 DEF Present
  <2> QED
    BY <2>3, <2>4, <2>5
<1>8. KnownIsAcked'
  <2> SUFFICES ASSUME NEW c \in Calls, step'[c] # "idle", job'[c].known
               PROVE  Acked(job[c].hash)'
    BY DEF KnownIsAcked
  <2>1. CASE step[c] = "idle"
    BY <2>1 DEF CallsAdvance
  <2>2. CASE step[c] # "idle"
    <3>1. job'[c] = job[c]
      BY <2>2, <1>5
    <3>2. Acked(job[c].hash)
      BY <3>1, <2>2 DEF KnownIsAcked
    <3> QED
      BY <3>1, <3>2, <1>2 DEF Acked
  <2> QED
    BY <2>1, <2>2
<1>9. SecondLookFinds'
  <2> SUFFICES ASSUME NEW c \in Calls, step'[c] = "probe archive", job'[c].kind = "read",
                      job'[c].known, ~Deleted(job[c].hash)'
               PROVE  file'["archive"][job'[c].hash] # None
    BY DEF SecondLookFinds
  <2>1. step[c] # "idle"
    BY DEF CallsAdvance
  <2>2. job'[c] = job[c] /\ job[c].hash \in Contents /\ job[c].kind # "delete"
    BY <2>1, <1>5
  <2>3. ~Deleted(job[c].hash)
    <3> SUFFICES ASSUME NEW h, h = job[c].hash, Deleted(h)
                 PROVE  FALSE
      OBVIOUS
    <3>1. Deleted(h)' /\ job'[c].hash = h
      BY <1>1, <2>2
    <3>2. \A d \in Calls : ~(job'[d].kind = "delete" /\ job'[d].hash = h)
      BY <3>1 DEF Deleted
    <3> QED
      BY <3>1, <3>2 DEF Deleted
  <2>4. CASE step[c] = "probe archive"
    <3>1. file["archive"][job[c].hash] # None
      BY <2>2, <2>3, <2>4 DEF SecondLookFinds
    <3> QED
      BY <3>1, <2>2, <2>3, <1>4
  <2>5. CASE step[c] # "probe archive"
    <3>1. file["active"][job[c].hash] = None /\ UNCHANGED file
      BY <2>2, <2>5 DEF CallsAdvance
    <3>2. Present(job[c].hash)
      BY <2>1, <2>2, <2>3 DEF KnownIsAcked, AckedIsKept, Present
    <3>3. file["archive"][job[c].hash] # None
      BY <3>1, <3>2 DEF Present, Dirs
    <3> QED
      BY <3>1, <3>3, <2>2
  <2> QED
    BY <2>4, <2>5
<1>10. NeverMissing'
  <2> SUFFICES ASSUME NEW c \in Calls, job'[c].kind = "read", job'[c].known,
                      ~Deleted(job[c].hash)', answer'[c] = "missing"
               PROVE  FALSE
    BY DEF NeverMissing
  <2>1. step[c] # "idle"
    BY DEF CallsAdvance, AnswersWhenDone
  <2>2. job'[c] = job[c] /\ ~Deleted(job[c].hash)
    BY <2>1, <1>5, <1>1 DEF Deleted
  <2>3. CASE answer[c] = "missing"
    BY <2>2, <2>3 DEF NeverMissing
  <2>4. CASE answer[c] # "missing"
    BY <2>2, <2>4 DEF CallsAdvance, SecondLookFinds
  <2> QED
    BY <2>3, <2>4
<1>11. StepFitsJob'
  <2> SUFFICES ASSUME NEW c \in Calls, step'[c] = "probe archive"
               PROVE  job'[c].kind \in {"read", "delete"}
    BY DEF StepFitsJob
  <2>1. CASE step[c] = "probe archive"
    BY <2>1, <1>5 DEF StepFitsJob
  <2>2. CASE step[c] # "probe archive"
    BY <2>2, <1>5 DEF CallsAdvance
  <2> QED
    BY <2>1, <2>2
<1> QED
  BY <1>6, <1>7, <1>8, <1>9, <1>10, <1>11
-----------------------------------------------------------------------------
(* What each action shows of itself.                                       *)
Good == /\ TypeOK' /\ AnswersWhenDone' /\ FilesAreFilled'
        /\ JobsStay /\ FilesStay /\ CallsAdvance

LEMMA GoodKeepsInv == ASSUME Inv, Good PROVE Inv'
  BY Kept DEF Inv, Good

(* A step of one call that leaves the files alone.                         *)
LEMMA FilesUntouched ==
  ASSUME Inv, UNCHANGED <<files, faults, kills>>,
         \A c \in Calls : step'[c] = "write" <=> step[c] = "write"
  PROVE  FilesStay /\ FilesAreFilled'
<1>1. FilesStay
  BY DEF FilesStay, Present, files
<1>2. ASSUME NEW i, Filled(i) PROVE Filled(i)'
  BY <1>2 DEF Filled, files
<1>3. FilesAreFilled'
  BY <1>2 DEF Inv, FilesAreFilled, files
<1> QED
  BY <1>1, <1>3

LEMMA BeginGood ==
  ASSUME Inv, NEW c \in Calls, NEW k \in Kinds, NEW h \in Contents, Begin(c, k, h)
  PROVE  Good
<1> USE DEF Inv
<1>0. PICK r : /\ job' = [job EXCEPT ![c] = r]
               /\ r \in [kind : Kinds, hash : Contents, known : BOOLEAN]
               /\ r.hash = h
               /\ r.known => Acked(h)
  <2> DEFINE r == [kind |-> k, hash |-> h, known |-> Acked(h)]
  <2>1. r.known = Acked(h) /\ r.hash = h
    BY Zenon
  <2>2. r \in [kind : Kinds, hash : Contents, known : BOOLEAN]
    BY DEF Acked
  <2> QED
    BY <2>1, <2>2 DEF Begin
<1>1. /\ step[c] = "idle" /\ step'[c] = "probe active"
      /\ job'[c] = r
      /\ \A d \in Calls : d # c => step'[d] = step[d] /\ job'[d] = job[d]
      /\ UNCHANGED <<answer, fd, file, whole, faults, kills>>
  BY <1>0 DEF Begin, TypeOK, files
<1>2. TypeOK'
  <2>3. job'[c] # NoJob
    <3>1. NoJob.kind \notin Kinds
      BY DEF NoJob, Kinds
    <3>2. job'[c].kind \in Kinds
      BY <1>0, <1>1
    <3> QED
      BY <3>1, <3>2
  <2>4. job' \in [Calls -> {NoJob} \cup [kind : Kinds, hash : Contents, known : BOOLEAN]]
    BY <1>0 DEF TypeOK
  <2>5. step' \in [Calls -> {"idle", "probe active", "probe archive", "create",
                           "write", "use active", "use archive", "done"}]
    BY DEF Begin, TypeOK
  <2>6. \A d \in Calls : step'[d] = "idle" <=> job'[d] = NoJob
    BY <1>1, <2>3 DEF TypeOK
  <2>7. \A d \in Calls : fd'[d] # None <=> step'[d] = "write"
    BY <1>1 DEF TypeOK
  <2> QED
    BY <1>1, <2>4, <2>5, <2>6, <2>7 DEF TypeOK
<1>3. AnswersWhenDone' /\ JobsStay
  BY <1>1 DEF AnswersWhenDone, JobsStay
<1>4. FilesStay /\ FilesAreFilled'
  BY <1>1, FilesUntouched DEF files
<1>5. CallsAdvance
  <2>1. Acked(h) => Acked(h)'
    BY <1>2, <1>3, AckedStays
  <2>2. (job'[c].known => Acked(h)) /\ job'[c].hash = h
    BY <1>0, <1>1
  <2>3. job'[c].known => Acked(job[c].hash)'
    BY <2>1, <2>2 DEF Acked
  <2> QED
    BY <1>1, <2>3 DEF CallsAdvance
<1> QED
  BY <1>2, <1>3, <1>4, <1>5 DEF Good

(* A call that is running goes on to step s or returns a, and touches no   *)
(* file.                                                                   *)
LEMMA QuietGood ==
  ASSUME Inv, NEW c \in Calls, step[c] \notin {"idle", "write", "done"},
         UNCHANGED <<job, files, faults, kills>>,
         NEW s \in {"probe archive", "create", "use active", "use archive", "done"},
         NEW a \in {"none", "ok", "missing", "corrupt", "io"},
         step' = [step EXCEPT ![c] = s],
         answer' = [answer EXCEPT ![c] = a],
         a # "none" => s = "done",
         s = "probe archive" =>
           /\ job[c].kind \in {"read", "delete"}
           /\ step[c] = "probe active"
           /\ file["active"][job[c].hash] = None,
         a = "missing" =>
           step[c] = "probe archive" /\ file["archive"][job[c].hash] = None,
         a = "ok" /\ job[c].kind = "store" => Present(job[c].hash)
  PROVE  Good
<1> USE DEF Inv
<1>1. /\ step'[c] = s /\ answer'[c] = a /\ answer[c] = "none"
      /\ \A d \in Calls : d # c => step'[d] = step[d] /\ answer'[d] = answer[d]
      /\ UNCHANGED <<job, fd, file, whole, faults, kills>>
  BY DEF TypeOK, AnswersWhenDone, files
<1>2. TypeOK'
  <2>1. step' \in [Calls -> {"idle", "probe active", "probe archive", "create",
                           "write", "use active", "use archive", "done"}]
    BY DEF TypeOK
  <2>2. answer' \in [Calls -> {"none", "ok", "missing", "corrupt", "io"}]
    BY DEF TypeOK
  <2>3. \A d \in Calls : step'[d] = "idle" <=> job'[d] = NoJob
    <3>2. \A d \in Calls : step[d] = "idle" <=> job[d] = NoJob
      BY DEF TypeOK
    <3>0. job[c] # NoJob
      BY <3>2
    <3>4. step'[c] # "idle"
      BY <1>1
    <3>1. \A d \in Calls : job'[d] = job[d]
      BY <1>1
    <3>3. \A d \in Calls : d # c => step'[d] = step[d]
      BY <1>1
    <3> QED
      BY <3>0, <3>1, <3>2, <3>3, <3>4, Zenon
  <2>4. \A d \in Calls : fd'[d] # None <=> step'[d] = "write"
    BY <1>1 DEF TypeOK
  <2>5. /\ job' \in [Calls -> {NoJob} \cup [kind : Kinds, hash : Contents, known : BOOLEAN]]
        /\ fd' \in [Calls -> Calls \cup {None}]
        /\ file' \in [Dirs -> [Contents -> Calls \cup {None}]]
        /\ whole' \in SUBSET Calls
        /\ faults' \in 0..MaxFaults
        /\ kills' \in 0..MaxKills
    BY <1>1 DEF TypeOK
  <2> QED
    BY <2>1, <2>2, <2>3, <2>4, <2>5 DEF TypeOK
<1>3. AnswersWhenDone' /\ JobsStay
  BY <1>1 DEF AnswersWhenDone, JobsStay
<1>4. FilesStay /\ FilesAreFilled'
  BY <1>1, FilesUntouched DEF files
<1>5. CallsAdvance
  <2>1. Present(job[c].hash) => Present(job[c].hash)'
    BY <1>1 DEF Present
  <2>2. job'[c] = job[c] /\ UNCHANGED file
    BY <1>1
  <2>3. \A d \in Calls : d # c => step'[d] = step[d] /\ answer'[d] = answer[d]
    BY <1>1
  <2>4. (step'[c] = "probe archive" /\ step[c] # "probe archive")
           => \/ job[c].kind = "delete" /\ step[c] # "idle"
              \/ /\ job[c].kind = "read"
                 /\ step[c] = "probe active"
                 /\ file["active"][job[c].hash] = None
                 /\ UNCHANGED file
    BY <1>1, <2>2
  <2>5. (answer'[c] = "ok" /\ answer[c] # "ok" /\ job'[c].kind = "store")
           => Present(job[c].hash)'
    BY <1>1, <2>1, <2>2
  <2>6. (answer'[c] = "missing" /\ answer[c] # "missing")
           => step[c] = "probe archive" /\ file["archive"][job[c].hash] = None
    BY <1>1
  <2>7. step'[c] # "write" /\ step[c] # "idle"
    BY <1>1
  <2> QED
    BY <2>3, <2>4, <2>5, <2>6, <2>7 DEF CallsAdvance
<1> QED
  BY <1>2, <1>3, <1>4, <1>5 DEF Good
LEMMA ProbeActiveGood ==
  ASSUME Inv, NEW c \in Calls, ProbeActive(c)
  PROVE  Good
<1> USE DEF Inv
<1>1. /\ step[c] = "probe active" /\ UNCHANGED <<job, files, faults, kills>>
      /\ answer = [answer EXCEPT ![c] = "none"]
  BY DEF ProbeActive, AnswersWhenDone, TypeOK
<1>2. CASE Path("active", c) # None
  <2>1. Present(job[c].hash)
    BY <1>2 DEF Path, Present, Dirs
  <2>2. CASE job[c].kind = "store"
    <3>1. step' = [step EXCEPT ![c] = "done"] /\ answer' = [answer EXCEPT ![c] = "ok"]
      BY <1>2, <2>2 DEF ProbeActive, Return
    <3> QED
      BY <1>1, <2>1, <3>1, QuietGood
  <2>3. CASE job[c].kind # "store"
    <3>1. step' = [step EXCEPT ![c] = "use active"] /\ answer' = answer
      BY <1>2, <2>3 DEF ProbeActive, Goto
    <3> QED
      BY <1>1, <3>1, QuietGood
  <2> QED
    BY <2>2, <2>3
<1>3. CASE Path("active", c) = None
  <2>1. file["active"][job[c].hash] = None
    BY <1>3 DEF Path
  <2>2. CASE job[c].kind = "store"
    <3>1. step' = [step EXCEPT ![c] = "create"] /\ answer' = answer
      BY <1>3, <2>2 DEF ProbeActive, Goto
    <3> QED
      BY <1>1, <3>1, QuietGood
  <2>3. CASE job[c].kind = "archive"
    <3>1. step' = [step EXCEPT ![c] = "done"] /\ answer' = [answer EXCEPT ![c] = "ok"]
      BY <1>3, <2>3 DEF ProbeActive, Return
    <3> QED
      BY <1>1, <2>3, <3>1, QuietGood
  <2>4. CASE job[c].kind \notin {"store", "archive"}
    <3>1. step' = [step EXCEPT ![c] = "probe archive"] /\ answer' = answer
      BY <1>3, <2>4 DEF ProbeActive, Goto
    <3>2. job[c].kind \in {"read", "delete"}
      <4>1. job[c] \in [kind : Kinds, hash : Contents, known : BOOLEAN]
        BY <1>1 DEF TypeOK
      <4> QED
        BY <4>1, <2>4 DEF Kinds
    <3> QED
      BY <1>1, <2>1, <3>1, <3>2, QuietGood
  <2> QED
    BY <2>2, <2>3, <2>4
<1> QED
  BY <1>2, <1>3

LEMMA ProbeArchiveGood ==
  ASSUME Inv, NEW c \in Calls, ProbeArchive(c)
  PROVE  Good
<1> USE DEF Inv
<1>1. /\ step[c] = "probe archive" /\ UNCHANGED <<job, files, faults, kills>>
      /\ answer = [answer EXCEPT ![c] = "none"]
  BY DEF ProbeArchive, AnswersWhenDone, TypeOK
<1>2. CASE Path("archive", c) # None
  <2>1. step' = [step EXCEPT ![c] = "use archive"] /\ answer' = answer
    BY <1>2 DEF ProbeArchive, Goto
  <2> QED
    BY <1>1, <2>1, QuietGood
<1>3. CASE Path("archive", c) = None
  <2>1. file["archive"][job[c].hash] = None
    BY <1>3 DEF Path
  <2>2. CASE job[c].kind = "read"
    <3>1. step' = [step EXCEPT ![c] = "done"] /\ answer' = [answer EXCEPT ![c] = "missing"]
      BY <1>3, <2>2 DEF ProbeArchive, Return
    <3> QED
      BY <1>1, <2>1, <3>1, QuietGood
  <2>3. CASE job[c].kind # "read"
    <3>1. step' = [step EXCEPT ![c] = "done"] /\ answer' = [answer EXCEPT ![c] = "ok"]
      BY <1>3, <2>3 DEF ProbeArchive, Return
    <3>2. job[c].kind # "store"
      BY <1>1 DEF StepFitsJob
    <3> QED
      BY <1>1, <3>1, <3>2, QuietGood
  <2> QED
    BY <2>2, <2>3
<1> QED
  BY <1>2, <1>3

LEMMA ReadGood ==
  ASSUME Inv, NEW c \in Calls, NEW d \in Dirs, step[c] \in {"use active", "use archive"},
         ReadFile(c, d), UNCHANGED <<job, faults, kills>>
  PROVE  Good
<1> USE DEF Inv
<1>1. PICK a \in {"io", "ok", "corrupt"} :
        /\ step' = [step EXCEPT ![c] = "done"] /\ answer' = [answer EXCEPT ![c] = a]
        /\ UNCHANGED files /\ job[c].kind = "read"
  <2>1. CASE Path(d, c) = None
    BY <2>1 DEF ReadFile, Return
  <2>2. CASE Path(d, c) # None /\ Path(d, c) \in whole
    BY <2>2 DEF ReadFile, Return
  <2>3. CASE Path(d, c) # None /\ Path(d, c) \notin whole
    BY <2>3 DEF ReadFile, Return
  <2> QED
    BY <2>1, <2>2, <2>3
<1>2. /\ UNCHANGED <<job, files, faults, kills>>
      /\ step[c] \notin {"idle", "write", "done"}
      /\ a \in {"none", "ok", "missing", "corrupt", "io"} /\ a # "missing"
  BY <1>1
<1> QED
  BY <1>1, <1>2, QuietGood
-----------------------------------------------------------------------------
(* The steps that touch files.                                             *)

(* A call that is running and finishes, or goes on to an open file or to   *)
(* the archive: types, and what it keeps of its job.                       *)
LEMMA CallTypes ==
  ASSUME Inv, NEW c \in Calls, step[c] \notin {"idle", "done"},
         NEW s \in {"probe archive", "write", "done"},
         NEW a \in {"none", "ok", "missing", "corrupt", "io"},
         NEW f \in Calls \cup {None},
         step' = [step EXCEPT ![c] = s],
         answer' = [answer EXCEPT ![c] = a],
         fd' = [fd EXCEPT ![c] = f],
         a # "none" => s = "done",
         f # None <=> s = "write",
         UNCHANGED job,
         file' \in [Dirs -> [Contents -> Calls \cup {None}]],
         whole' \in SUBSET Calls,
         faults' \in 0..MaxFaults,
         kills' \in 0..MaxKills
  PROVE  TypeOK' /\ AnswersWhenDone' /\ JobsStay
<1> USE DEF Inv
<1>1. /\ step'[c] = s /\ answer'[c] = a /\ answer[c] = "none" /\ fd'[c] = f
      /\ \A d \in Calls : d # c => step'[d] = step[d] /\ answer'[d] = answer[d] /\ fd'[d] = fd[d]
  BY DEF TypeOK, AnswersWhenDone
<1>2. step' \in [Calls -> {"idle", "probe active", "probe archive", "create",
                         "write", "use active", "use archive", "done"}]
  BY DEF TypeOK
<1>3. answer' \in [Calls -> {"none", "ok", "missing", "corrupt", "io"}]
  BY DEF TypeOK
<1>4. \A d \in Calls : step'[d] = "idle" <=> job'[d] = NoJob
  <2>1. step'[c] # "idle" /\ job[c] # NoJob
    BY <1>1 DEF TypeOK
  <2>2. \A d \in Calls : step[d] = "idle" <=> job[d] = NoJob
    BY DEF TypeOK
  <2> QED
    BY <1>1, <2>1, <2>2
<1>5. \A d \in Calls : fd'[d] # None <=> step'[d] = "write"
  <2>1. \A d \in Calls : fd[d] # None <=> step[d] = "write"
    BY DEF TypeOK
  <2> QED
    BY <1>1, <2>1
<1>6. /\ job' \in [Calls -> {NoJob} \cup [kind : Kinds, hash : Contents, known : BOOLEAN]]
      /\ fd' \in [Calls -> Calls \cup {None}]
  BY DEF TypeOK
<1>7. TypeOK'
  BY <1>2, <1>3, <1>4, <1>5, <1>6 DEF TypeOK
<1>8. AnswersWhenDone' /\ JobsStay
  BY <1>1 DEF AnswersWhenDone, JobsStay
<1> QED
  BY <1>7, <1>8

(* CallsAdvance for a step of one call, in terms of that call.             *)
LEMMA CallAdvances ==
  ASSUME Inv, NEW c \in Calls, step[c] # "idle", UNCHANGED job,
         \A d \in Calls : d # c => step'[d] = step[d] /\ answer'[d] = answer[d],
         step'[c] = "write" => Present(job[c].hash)',
         (answer'[c] = "ok" /\ job[c].kind = "store") => step[c] = "write",
         step'[c] = "probe archive" => job[c].kind = "delete",
         answer'[c] # "missing"
  PROVE  CallsAdvance
  BY DEF CallsAdvance

(* Every file is filled after a step without faults that leaves whole and  *)
(* open for writing what was, and adds only names for what is filled.      *)
LEMMA StillFilled ==
  ASSUME Inv,
         faults' = 0 /\ kills' = 0 => faults = 0 /\ kills = 0,
         faults' = 0 /\ kills' = 0 =>
           \A i \in Calls : Filled(i) => Filled(i)',
         faults' = 0 /\ kills' = 0 =>
           \A d \in Dirs, h \in Contents :
             \/ file'[d][h] = None
             \/ \E e \in Dirs : file'[d][h] = file[e][h]
             \/ Filled(file[d][h])'
  PROVE  FilesAreFilled'
<1> SUFFICES ASSUME faults' = 0, kills' = 0,
                    NEW d \in Dirs, NEW h \in Contents, file'[d][h] # None
             PROVE  Filled(file[d][h])'
  BY DEF FilesAreFilled
<1>1. CASE Filled(file[d][h])'
  BY <1>1
<1>2. ASSUME NEW e \in Dirs, file'[d][h] = file[e][h] PROVE Filled(file[d][h])'
  <2>0. file \in [Dirs -> [Contents -> Calls \cup {None}]]
    BY DEF Inv, TypeOK
  <2>1. file[e][h] \in Calls /\ file[e][h] # None
    BY <2>0, <1>2
  <2>2. Filled(file[e][h])
    BY <2>1 DEF Inv, FilesAreFilled
  <2> DEFINE i == file[e][h]
  <2>3. \A j \in Calls : Filled(j) => Filled(j)'
    OBVIOUS
  <2>4. i \in whole' \/ \E k \in Calls : step'[k] = "write" /\ fd'[k] = i
    BY <2>1, <2>2, <2>3 DEF Filled
  <2> QED
    BY <2>4, <1>2 DEF Filled
<1> QED
  BY <1>1, <1>2
(* The job of a call that has begun.                                       *)
LEMMA JobTypes ==
  ASSUME TypeOK, NEW c \in Calls, step[c] # "idle"
  PROVE  job[c] \in [kind : Kinds, hash : Contents, known : BOOLEAN]
  BY DEF TypeOK

LEMMA FileTypes ==
  ASSUME TypeOK
  PROVE  /\ file \in [Dirs -> [Contents -> Calls \cup {None}]]
         /\ fd \in [Calls -> Calls \cup {None}]
         /\ whole \in SUBSET Calls
         /\ faults \in 0..MaxFaults
         /\ kills \in 0..MaxKills
         /\ \A c \in Calls : fd[c] # None <=> step[c] = "write"
  BY DEF TypeOK

LEMMA CreateGood ==
  ASSUME Inv, NEW c \in Calls, Create(c)
  PROVE  Good
<1> USE DEF Inv
<1> DEFINE h == job[c].hash
<1>1. /\ step[c] = "create" /\ step' = [step EXCEPT ![c] = "write"]
      /\ answer' = [answer EXCEPT ![c] = "none"]
      /\ UNCHANGED <<job, faults, kills>>
  BY DEF Create, Goto, AnswersWhenDone, TypeOK
<1>2. h \in Contents /\ None \notin Calls
  BY <1>1, JobTypes, VerbatimAssumption
<1>3. file["active"] \in [Contents -> Calls \cup {None}]
  BY FileTypes DEF Dirs
<1>4. PICK i \in Calls :
        /\ fd' = [fd EXCEPT ![c] = i]
        /\ whole' \in SUBSET Calls /\ whole \subseteq whole' \cup {i}
        /\ file' = [file EXCEPT !["active"][h] = i]
  <2>1. CASE Path("active", c) = None
    BY <2>1, FileTypes DEF Create, Path
  <2>2. CASE Path("active", c) # None
    <3>1. file["active"][h] \in Calls
      BY <2>2, <1>2, <1>3 DEF Path
    <3>2. file = [file EXCEPT !["active"][h] = file["active"][h]]
      BY FileTypes, <1>2
    <3> QED
      BY <2>2, <3>1, <3>2, FileTypes DEF Create, Path
  <2> QED
    BY <2>1, <2>2
<1>5. /\ file'["active"][h] = i
      /\ \A d \in Dirs, g \in Contents :
           file'[d][g] = file[d][g] \/ file'[d][g] = i
      /\ \A d \in Dirs, g \in Contents : file[d][g] # None => file'[d][g] # None
  BY <1>2, <1>4, FileTypes DEF Dirs
<1>6. file' \in [Dirs -> [Contents -> Calls \cup {None}]]
  BY <1>2, <1>4, FileTypes DEF Dirs
<1>7. TypeOK' /\ AnswersWhenDone' /\ JobsStay
  BY <1>1, <1>2, <1>4, <1>6, FileTypes, CallTypes
<1>8. FilesStay
  BY <1>5 DEF FilesStay, Present, Dirs
<1>9. CallsAdvance
  <2>1. Present(job[c].hash)'
    BY <1>1, <1>2, <1>5 DEF Present, Dirs
  <2>2. /\ \A d \in Calls : d # c => step'[d] = step[d] /\ answer'[d] = answer[d]
        /\ step'[c] = "write" /\ answer'[c] = "none"
    BY <1>1 DEF TypeOK
  <2> QED
    BY <1>1, <2>1, <2>2, CallAdvances
<1>10. FilesAreFilled'
  <2>1. fd'[c] = i /\ step'[c] = "write"
    BY <1>1, <1>4 DEF TypeOK
  <2>2. \A d \in Calls : step[d] = "write" => d # c /\ step'[d] = step[d] /\ fd'[d] = fd[d]
    BY <1>1, <1>4 DEF TypeOK
  <2>3. \A j \in Calls : Filled(j) => Filled(j)'
    BY <2>1, <2>2, <1>4 DEF Filled
  <2>4. \A d \in Dirs, g \in Contents :
          file'[d][g] = file[d][g] \/ Filled(file[d][g])'
    <3> SUFFICES ASSUME NEW d \in Dirs, NEW g \in Contents, file'[d][g] = i
                 PROVE  Filled(file[d][g])'
      BY <1>5
    <3> QED
      BY <2>1 DEF Filled
  <2> QED
    BY <1>1, <2>3, <2>4, StillFilled
<1> QED
  BY <1>7, <1>8, <1>9, <1>10 DEF Good

LEMMA WriteGood ==
  ASSUME Inv, NEW c \in Calls, Write(c)
  PROVE  Good
<1> USE DEF Inv
<1>1. /\ step[c] = "write" /\ step' = [step EXCEPT ![c] = "done"]
      /\ answer' = [answer EXCEPT ![c] = "ok"]
      /\ fd' = [fd EXCEPT ![c] = None]
      /\ whole' = whole \cup {fd[c]}
      /\ UNCHANGED <<job, file, faults, kills>>
  BY DEF Write, Return
<1>2. fd[c] \in Calls
  BY <1>1, FileTypes
<1>3. TypeOK' /\ AnswersWhenDone' /\ JobsStay
  BY <1>1, <1>2, FileTypes, CallTypes
<1>4. FilesStay
  BY <1>1 DEF FilesStay, Present
<1>5. /\ \A d \in Calls : d # c => step'[d] = step[d] /\ answer'[d] = answer[d] /\ fd'[d] = fd[d]
      /\ step'[c] = "done" /\ answer'[c] = "ok"
  BY <1>1 DEF TypeOK
<1>6. CallsAdvance
  BY <1>1, <1>5, CallAdvances
<1>7. FilesAreFilled'
  <2>1. ASSUME NEW j \in Calls, Filled(j) PROVE Filled(j)'
    <3>1. CASE j \in whole
      BY <3>1, <1>1 DEF Filled
    <3>2. ASSUME NEW d \in Calls, step[d] = "write", fd[d] = j PROVE Filled(j)'
      BY <3>2, <1>1, <1>5 DEF Filled
    <3> QED
      BY <2>1, <3>1, <3>2 DEF Filled
  <2> QED
    BY <1>1, <2>1, StillFilled
<1> QED
  BY <1>3, <1>4, <1>6, <1>7 DEF Good
(* A rename or a removal: the call has nothing open, and the files that    *)
(* were not filled are open as before.                                     *)
LEMMA MoveFilled ==
  ASSUME Inv, NEW c \in Calls, step[c] \in {"use active", "use archive"},
         NEW s, step' = [step EXCEPT ![c] = s], s # "write",
         UNCHANGED <<fd, whole, faults, kills>>,
         \A d \in Dirs, h \in Contents :
           \/ file'[d][h] = None
           \/ \E e \in Dirs : file'[d][h] = file[e][h]
  PROVE  FilesAreFilled'
<1>1. \A d \in Calls : step[d] = "write" => step'[d] = "write"
  BY DEF Inv, TypeOK
<1>2. \A j \in Calls : Filled(j) => Filled(j)'
  BY <1>1 DEF Filled
<1> QED
  BY <1>2, StillFilled

LEMMA RenameGood ==
  ASSUME Inv, NEW c \in Calls, step[c] = "use active", Rename(c),
         UNCHANGED <<job, faults, kills>>
  PROVE  Good
<1> USE DEF Inv
<1> DEFINE h == job[c].hash
<1>1. job[c].kind = "archive" /\ h \in Contents /\ UNCHANGED <<fd, whole>>
  BY JobTypes DEF Rename
<1>2. PICK a \in {"io", "ok"} :
        step' = [step EXCEPT ![c] = "done"] /\ answer' = [answer EXCEPT ![c] = a]
  BY DEF Rename, Return
<1>3. /\ \A d \in Calls : d # c => step'[d] = step[d] /\ answer'[d] = answer[d]
      /\ step'[c] = "done" /\ answer'[c] = a
  BY <1>2 DEF TypeOK
<1>4. /\ file' \in [Dirs -> [Contents -> Calls \cup {None}]]
      /\ \A d \in Dirs, g \in Contents :
           \/ file'[d][g] = None
           \/ \E e \in Dirs : file'[d][g] = file[e][g]
      /\ \A g \in Contents : file["archive"][g] # None => file'["archive"][g] # None
      /\ \A g \in Contents : file["active"][g] # None =>
           file'["active"][g] # None \/ file'["archive"][g] # None
  <2>1. CASE Path("active", c) = None
    <3>1. file' = file
      BY <2>1 DEF Rename
    <3> QED
      BY <3>1, FileTypes DEF Dirs
  <2>2. CASE Path("active", c) # None
    <3> DEFINE i == file["active"][h]
    <3>0. file["active"] \in [Contents -> Calls \cup {None}]
      BY FileTypes DEF Dirs
    <3>1. i \in Calls /\ i # None
      BY <2>2, <3>0, <1>1 DEF Path
    <3>2. file' = [file EXCEPT !["archive"][h] = i, !["active"][h] = None]
      BY <2>2 DEF Rename, Path
    <3>3. /\ file' \in [Dirs -> [Contents -> Calls \cup {None}]]
          /\ file'["archive"][h] = i /\ file'["active"][h] = None
          /\ \A d \in Dirs, g \in Contents : g # h => file'[d][g] = file[d][g]
      BY <3>1, <3>2, <1>1, FileTypes DEF Dirs
    <3> QED
      BY <3>1, <3>3 DEF Dirs
  <2> QED
    BY <2>1, <2>2
<1>5. fd[c] = None /\ fd' = [fd EXCEPT ![c] = None]
  BY <1>1, FileTypes
<1>6. TypeOK' /\ AnswersWhenDone' /\ JobsStay
  BY <1>1, <1>2, <1>4, <1>5, FileTypes, CallTypes
<1>7. FilesStay
  BY <1>4 DEF FilesStay, Present, Dirs
<1>8. CallsAdvance
  BY <1>1, <1>3, CallAdvances
<1>9. FilesAreFilled'
  BY <1>1, <1>2, <1>4, MoveFilled
<1> QED
  BY <1>6, <1>7, <1>8, <1>9 DEF Good

LEMMA RemoveGood ==
  ASSUME Inv, NEW c \in Calls, NEW d \in Dirs, step[c] \in {"use active", "use archive"},
         Remove(c, d), UNCHANGED <<job, faults, kills>>
  PROVE  Good
<1> USE DEF Inv
<1> DEFINE h == job[c].hash
<1>1. job[c].kind = "delete" /\ h \in Contents /\ UNCHANGED <<fd, whole>>
  BY JobTypes DEF Remove
<1>2. answer = [answer EXCEPT ![c] = "none"]
  BY DEF TypeOK, AnswersWhenDone
<1>3. PICK s \in {"probe archive", "done"}, a \in {"none", "io", "ok"} :
        /\ step' = [step EXCEPT ![c] = s] /\ answer' = [answer EXCEPT ![c] = a]
        /\ a # "none" => s = "done"
  BY <1>2 DEF Remove, Return, Goto
<1>4. /\ \A e \in Calls : e # c => step'[e] = step[e] /\ answer'[e] = answer[e]
      /\ step'[c] = s /\ answer'[c] = a
  BY <1>3 DEF TypeOK
<1>5. /\ file' \in [Dirs -> [Contents -> Calls \cup {None}]]
      /\ \A e \in Dirs, g \in Contents : file'[e][g] = None \/ file'[e][g] = file[e][g]
      /\ \A e \in Dirs, g \in Contents : g # h => file'[e][g] = file[e][g]
  <2>1. CASE file' = file
    BY <2>1, FileTypes
  <2>2. CASE file' = [file EXCEPT ![d][h] = None]
    <3>1. file \in [Dirs -> [Contents -> Calls \cup {None}]]
      BY FileTypes
    <3>2. [file[d] EXCEPT ![h] = None] \in [Contents -> Calls \cup {None}]
      BY <3>1
    <3>3. file' = [file EXCEPT ![d] = [file[d] EXCEPT ![h] = None]]
      BY <2>2
    <3>4. file' \in [Dirs -> [Contents -> Calls \cup {None}]]
      BY <3>1, <3>2, <3>3
    <3>5. /\ file'[d] = [file[d] EXCEPT ![h] = None]
          /\ \A e \in Dirs : e # d => file'[e] = file[e]
      BY <3>1, <3>3
    <3>6. \A g \in Contents : file'[d][g] = IF g = h THEN None ELSE file[d][g]
      BY <3>1, <3>5
    <3>7. \A e \in Dirs, g \in Contents :
            file'[e][g] = IF e = d /\ g = h THEN None ELSE file[e][g]
      BY <3>5, <3>6
    <3> QED
      BY <3>4, <3>7
  <2> QED
    BY <2>1, <2>2 DEF Remove
<1>6. Deleted(h)
  BY <1>1 DEF Deleted
<1>7. fd[c] = None /\ fd' = [fd EXCEPT ![c] = None]
  BY <1>1, FileTypes
<1>8. TypeOK' /\ AnswersWhenDone' /\ JobsStay
  BY <1>1, <1>3, <1>5, <1>7, FileTypes, CallTypes
<1>9. FilesStay
  BY <1>5, <1>6 DEF FilesStay, Present, Dirs
<1>10. CallsAdvance
  BY <1>1, <1>4, CallAdvances
<1>11. FilesAreFilled'
  BY <1>1, <1>3, <1>5, MoveFilled
<1> QED
  BY <1>8, <1>9, <1>10, <1>11 DEF Good

LEMMA FailGood ==
  ASSUME Inv, NEW c \in Calls, SystemCallFails(c)
  PROVE  Good
<1> USE DEF Inv
<1>1. /\ step[c] \in {"create", "write", "use active", "use archive"}
      /\ step' = [step EXCEPT ![c] = "done"] /\ answer' = [answer EXCEPT ![c] = "io"]
      /\ fd' = [fd EXCEPT ![c] = None]
      /\ faults' = faults + 1 /\ faults < MaxFaults
      /\ whole' \in SUBSET Calls
      /\ UNCHANGED <<job, file, kills>>
  BY FileTypes DEF SystemCallFails, Return
<1>2. faults' \in 0..MaxFaults /\ faults' # 0
  <2>1. faults \in Nat /\ MaxFaults \in Nat
    <3>1. faults \in 0..MaxFaults
      BY DEF TypeOK
    <3> HIDE DEF Inv
    <3> QED
      BY <3>1, VerbatimAssumption
  <2>2. faults' = faults + 1 /\ faults < MaxFaults
    BY <1>1
  <2> QED
    BY <2>1, <2>2
<1>3. TypeOK' /\ AnswersWhenDone' /\ JobsStay
  BY <1>1, <1>2, FileTypes, CallTypes
<1>4. FilesStay
  BY <1>1 DEF FilesStay, Present
<1>5. /\ \A d \in Calls : d # c => step'[d] = step[d] /\ answer'[d] = answer[d]
      /\ step'[c] = "done" /\ answer'[c] = "io"
  BY <1>1 DEF TypeOK
<1>6. CallsAdvance
  BY <1>1, <1>5, CallAdvances
<1>7. FilesAreFilled'
  BY <1>2 DEF FilesAreFilled
<1> QED
  BY <1>3, <1>4, <1>6, <1>7 DEF Good

LEMMA KillGood ==
  ASSUME Inv, Kill
  PROVE  Good
<1> USE DEF Inv
<1>1. /\ step' = [c \in Calls |-> IF step[c] = "idle" THEN "idle" ELSE "done"]
      /\ fd' = [c \in Calls |-> None]
      /\ kills' = kills + 1 /\ kills < MaxKills
      /\ whole' \in SUBSET Calls
      /\ UNCHANGED <<job, answer, file, faults>>
  BY FileTypes DEF Kill
<1>2. kills' \in 0..MaxKills /\ kills' # 0
  <2>1. kills \in Nat /\ MaxKills \in Nat
    <3>1. kills \in 0..MaxKills
      BY FileTypes
    <3> HIDE DEF Inv
    <3> QED
      BY <3>1, VerbatimAssumption
  <2>2. kills' = kills + 1 /\ kills < MaxKills
    BY <1>1
  <2> QED
    BY <2>1, <2>2
<1>3. TypeOK'
  <2>1. /\ job' \in [Calls -> {NoJob} \cup [kind : Kinds, hash : Contents, known : BOOLEAN]]
        /\ answer' \in [Calls -> {"none", "ok", "missing", "corrupt", "io"}]
    BY <1>1 DEF TypeOK
  <2>2. \A c \in Calls : step'[c] = "idle" <=> job'[c] = NoJob
    <3>1. \A c \in Calls : step[c] = "idle" <=> job[c] = NoJob
      BY DEF TypeOK
    <3> QED
      BY <3>1, <1>1
  <2>3. \A c \in Calls : fd'[c] # None <=> step'[c] = "write"
    BY <1>1
  <2> QED
    BY <1>1, <1>2, <2>1, <2>2, <2>3, FileTypes DEF TypeOK
<1>4. AnswersWhenDone' /\ JobsStay
  BY <1>1 DEF AnswersWhenDone, JobsStay
<1>5. FilesStay
  BY <1>1 DEF FilesStay, Present
<1>6. CallsAdvance
  BY <1>1 DEF CallsAdvance
<1>7. FilesAreFilled'
  BY <1>2 DEF FilesAreFilled
<1> QED
  BY <1>3, <1>4, <1>5, <1>6, <1>7 DEF Good

LEMMA StutterGood ==
  ASSUME Inv, UNCHANGED vars
  PROVE  Inv'
<1>1. UNCHANGED <<job, step, answer, fd, file, whole, faults, kills>>
  BY DEF vars
<1>2. TypeOK'
  BY <1>1 DEF Inv, TypeOK
<1>3. StepFitsJob' /\ AnswersWhenDone'
  BY <1>1 DEF Inv, StepFitsJob, AnswersWhenDone
<1>4. WriterIsPresent' /\ AckedIsKept'
  BY <1>1 DEF Inv, WriterIsPresent, AckedIsKept, Present, Deleted, Acked
<1>5. KnownIsAcked' /\ SecondLookFinds' /\ NeverMissing'
  BY <1>1 DEF Inv, KnownIsAcked, SecondLookFinds, NeverMissing, Present, Deleted, Acked
<1>6. FilesAreFilled'
  BY <1>1 DEF Inv, FilesAreFilled, Filled
<1> QED
  BY <1>2, <1>3, <1>4, <1>5, <1>6 DEF Inv

LEMMA NextGood == ASSUME Inv, Next PROVE Good
<1>1. ASSUME NEW c \in Calls, NEW k \in Kinds, NEW h \in Contents, Begin(c, k, h) PROVE Good
  BY <1>1, BeginGood
<1>2. ASSUME NEW c \in Calls, ProbeActive(c) PROVE Good
  BY <1>2, ProbeActiveGood
<1>3. ASSUME NEW c \in Calls, ProbeArchive(c) PROVE Good
  BY <1>3, ProbeArchiveGood
<1>4. ASSUME NEW c \in Calls, Create(c) PROVE Good
  BY <1>4, CreateGood
<1>5. ASSUME NEW c \in Calls, Write(c) PROVE Good
  BY <1>5, WriteGood
<1>6. ASSUME NEW c \in Calls, UseActive(c) PROVE Good
  BY <1>6, ReadGood, RenameGood, RemoveGood DEF UseActive, Dirs
<1>7. ASSUME NEW c \in Calls, UseArchive(c) PROVE Good
  BY <1>7, ReadGood, RemoveGood DEF UseArchive, Dirs
<1>8. ASSUME NEW c \in Calls, SystemCallFails(c) PROVE Good
  BY <1>8, FailGood
<1>9. ASSUME Kill PROVE Good
  BY <1>9, KillGood
<1> QED
  BY <1>1, <1>2, <1>3, <1>4, <1>5, <1>6, <1>7, <1>8, <1>9 DEF Next, Step

LEMMA NextInv == Inv /\ [Next]_vars => Inv'
  BY NextGood, GoodKeepsInv, StutterGood

LEMMA Invariance == Spec => []Inv
  BY InitInv, NextInv, PTL DEF Spec

-----------------------------------------------------------------------------
(* Types; a call has a file open exactly while it writes.                  *)
THEOREM VerbatimTypes == Spec => []TypeOK
<1>1. Inv => TypeOK
  BY DEF Inv
<1> QED
  BY <1>1, Invariance, PTL

(* Only a delete takes the last file of stored content away (store,        *)
(* archive).                                                               *)
THEOREM StoredIsKept == Spec => []AckedIsKept
<1>1. Inv => AckedIsKept
  BY DEF Inv
<1> QED
  BY <1>1, Invariance, PTL

(* Without errors and exits, side by side stores of the same content leave *)
(* every file whole or about to be (store).                                *)
THEOREM FilesGetFilled == Spec => []FilesAreFilled
<1>1. Inv => FilesAreFilled
  BY DEF Inv
<1> QED
  BY <1>1, Invariance, PTL

(* read and archive side by side never make stored content look missing.   *)
THEOREM ReadsNeverMiss == Spec => []NeverMissing
<1>1. Inv => NeverMissing
  BY DEF Inv
<1> QED
  BY <1>1, Invariance, PTL
=============================================================================
