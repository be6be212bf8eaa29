---------------------------- MODULE LifecycleProofs ----------------------------
(***************************************************************************)
(* Holds, archiving and purges, for any number of calls, memories, streams *)
(* and holds, of failing statements and exits.                             *)
(*                                                                         *)
(* A call that has seen no instant without a hold since it began is under  *)
(* one now, so its check stops it. What a purge finds in its way came      *)
(* after its own DELETE of the same table, and a row it has deleted cannot *)
(* come back, because ids are fresh.                                       *)
(***************************************************************************)
EXTENDS Lifecycle, TLAPS

(* What every statement of a call leaves alone: the holds, the histories   *)
(* and the other calls. Nothing a statement does adds a row.               *)
LEMMA StepKeeps ==
  ASSUME TypeOK, NEW c \in Calls, Step(c)
  PROVE  /\ job' = job /\ hold' = hold
         /\ born' = born /\ free' = free /\ touched' = touched
         /\ rows' \subseteq rows /\ facts' \subseteq facts /\ tags' \subseteq tags
         /\ \A d \in Calls \ {c} : step'[d] = step[d] /\ answer'[d] = answer[d]
         /\ Running(c)
<1> USE DEF At, Goto, Return, Quiet, tables, row, history, TypeOK, Running
<1>1. CASE ReadStream(c) BY <1>1 DEF ReadStream
<1>2. CASE CheckHeld(c) BY <1>2 DEF CheckHeld
<1>3. CASE SetArchived(c) BY <1>3 DEF SetArchived
<1>4. CASE LogEvent(c) BY <1>4 DEF LogEvent
<1>5. CASE CheckLegalHold(c) BY <1>5 DEF CheckLegalHold
<1>6. CASE DeleteLinks(c) BY <1>6 DEF DeleteLinks
<1>7. CASE DeleteFacts(c) BY <1>7 DEF DeleteFacts
<1>8. CASE DeleteTags(c) BY <1>8 DEF DeleteTags
<1>9. CASE DeleteRow(c) BY <1>9 DEF DeleteRow
<1>10. CASE Fail(c) BY <1>10 DEF Fail
<1> QED BY <1>1, <1>2, <1>3, <1>4, <1>5, <1>6, <1>7, <1>8, <1>9, <1>10 DEF Step

LEMMA InitTypes == Init => TypeOK
BY LifecycleAssumption DEF Init, TypeOK, Steps, PurgeSteps, Answers, NoJob, NoHold

LEMMA StepTypes ==
  ASSUME TypeOK, NEW c \in Calls, Step(c)
  PROVE  TypeOK'
<1> USE DEF TypeOK, Steps, PurgeSteps, Answers, NoJob, At, Goto, Return, Quiet,
           tables, row, history, Running
<1>1. job[c].mem \in born /\ job[c].kind \in {"archive", "purge"}
  BY StepKeeps
<1>2. CASE ReadStream(c) BY <1>1, <1>2, LifecycleAssumption DEF ReadStream
<1>3. CASE CheckHeld(c) BY <1>1, <1>3, LifecycleAssumption DEF CheckHeld
<1>4. CASE SetArchived(c) BY <1>1, <1>4, LifecycleAssumption DEF SetArchived
<1>5. CASE LogEvent(c) BY <1>1, <1>5, LifecycleAssumption DEF LogEvent
<1>6. CASE CheckLegalHold(c) BY <1>1, <1>6, LifecycleAssumption DEF CheckLegalHold
<1>7. CASE DeleteLinks(c) BY <1>1, <1>7, LifecycleAssumption DEF DeleteLinks
<1>8. CASE DeleteFacts(c) BY <1>1, <1>8, LifecycleAssumption DEF DeleteFacts
<1>9. CASE DeleteTags(c) BY <1>1, <1>9, LifecycleAssumption DEF DeleteTags
<1>10. CASE DeleteRow(c) BY <1>1, <1>10, LifecycleAssumption DEF DeleteRow, Referenced
<1>11. CASE Fail(c) BY <1>1, <1>11, LifecycleAssumption DEF Fail
<1> QED BY <1>2, <1>3, <1>4, <1>5, <1>6, <1>7, <1>8, <1>9, <1>10, <1>11 DEF Step

LEMMA TypesStep == TypeOK /\ [Next]_vars => TypeOK'
<1> SUFFICES ASSUME TypeOK, [Next]_vars PROVE TypeOK'
  OBVIOUS
<1> USE DEF TypeOK, Steps, PurgeSteps, Answers, NoJob, NoHold, tables, row, calls, history, Running
<1>1. ASSUME NEW m \in Memories, Retain(m) PROVE TypeOK'
  BY <1>1 DEF Retain
<1>2. ASSUME NEW m \in Memories, AddFact(m) PROVE TypeOK'
  BY <1>2 DEF AddFact, Beside
<1>3. ASSUME NEW m \in Memories, AddTag(m) PROVE TypeOK'
  BY <1>3 DEF AddTag, Beside
<1>4. ASSUME NEW m \in Memories, RemoveTag(m) PROVE TypeOK'
  BY <1>4 DEF RemoveTag
<1>5. ASSUME NEW m \in Memories, AddRelationship(m) PROVE TypeOK'
  BY <1>5 DEF AddRelationship
<1>6. ASSUME NEW h \in Holds, ReleaseHold(h) PROVE TypeOK'
  BY <1>6 DEF ReleaseHold
<1>7. ASSUME NEW h \in Holds, NEW stream \in Streams, CreateHold(h, stream) PROVE TypeOK'
  BY <1>7 DEF CreateHold
<1>8. ASSUME NEW c \in Calls, NEW m \in Memories, Archive(c, m) PROVE TypeOK'
  BY <1>8 DEF Archive, Candidate, Begin
<1>9. ASSUME NEW c \in Calls, NEW m \in Memories, Purge(c, m) PROVE TypeOK'
  BY <1>9 DEF Purge, Begin
<1>10. ASSUME NEW c \in Calls, Step(c) PROVE TypeOK'
  BY <1>10, StepTypes
<1>11. CASE Kill BY <1>11, LifecycleAssumption DEF Kill
<1>12. CASE UNCHANGED vars BY <1>12 DEF vars
<1> QED BY <1>1, <1>2, <1>3, <1>4, <1>5, <1>6, <1>7, <1>8, <1>9, <1>10, <1>11, <1>12 DEF Next, Others

(* Every reachable state has the stated types: the tables refer to rows    *)
(* that are there, and every call runs the statements of its kind.         *)
THEOREM LifecycleTypes == Spec => []TypeOK
BY InitTypes, TypesStep, PTL DEF Spec

--------------------------------------------------------------------------------
(* The strengthening of the safety properties.                             *)

(* A running call that saw no instant without a hold is under one now.     *)
HeldSinceBegin ==
  \A c \in Calls : Running(c) => c \in free \/ HeldBy(hold, StreamOf[job[c].mem])

(* So a call that got past its check saw one; a purge may also have got    *)
(* past it because its row is gone.                                        *)
PassedWasFree ==
  \A c \in Calls :
    /\ step[c] = "update" => c \in free
    /\ step[c] \in {"links", "facts", "tags", "row"} => c \in free \/ job[c].mem \notin rows

(* What refers to the row after the DELETE that takes it came after it.    *)
LeftIsNew ==
  \A c \in Calls :
    /\ step[c] \in {"tags", "row"} /\ job[c].mem \in facts => c \in touched
    /\ step[c] = "row" /\ job[c].mem \in tags => c \in touched

(* A row that is gone stays gone: its id is never used again.              *)
PurgedRowIsGone ==
  \A c \in Calls : answer[c] = "ok" /\ job[c].kind = "purge" =>
    job[c].mem \notin rows

Logs(c, m) == step[c] = "event" /\ job[c].mem = m

(* An event comes once after archiving, by the one call that archived.     *)
OneEvent ==
  /\ \A m \in Memories : events[m] <= 1
  /\ \A m \in Memories : m \notin born \/ m \in rows \ archived =>
       events[m] = 0 /\ \A c \in Calls : ~ Logs(c, m)
  /\ \A m \in Memories, c \in Calls : Logs(c, m) =>
       events[m] = 0 /\ \A d \in Calls : Logs(d, m) => d = c

IInv ==
  /\ TypeOK
  /\ HeldSinceBegin
  /\ PassedWasFree
  /\ LeftIsNew
  /\ RefusedNeedsWriter
  /\ PurgedRowIsGone
  /\ OneEvent

LEMMA InitInv == Init => IInv
<1> SUFFICES ASSUME Init PROVE IInv
  OBVIOUS
<1>1. TypeOK BY InitTypes
<1> QED
  BY <1>1 DEF Init, IInv, HeldSinceBegin, PassedWasFree, LeftIsNew, RefusedNeedsWriter,
     PurgedRowIsGone, OneEvent, Logs, Running

LEMMA RunningHasJob ==
  ASSUME TypeOK, NEW c \in Calls, Running(c)
  PROVE  job[c].mem \in born /\ job[c].kind \in {"archive", "purge"}
BY DEF TypeOK, Running, NoJob

(* No stream is not a stream, and is never held.                           *)
LEMMA HeldIsHeld ==
  ASSUME TypeOK, NEW m \in Memories
  PROVE  IsHeld(m) <=> HeldBy(hold, StreamOf[m])
BY LifecycleAssumption DEF IsHeld, HeldBy, TypeOK, NoHold

LEMMA StepHeld ==
  ASSUME IInv, NEW c \in Calls, Step(c)
  PROVE  HeldSinceBegin'
<1> TypeOK BY DEF IInv
<1>1. \A d \in Calls : Running(d)' => Running(d)
  BY StepKeeps DEF Running
<1> QED BY <1>1, StepKeeps DEF IInv, HeldSinceBegin, HeldBy

LEMMA StepPassed ==
  ASSUME IInv, NEW c \in Calls, Step(c)
  PROVE  PassedWasFree'
<1> TypeOK BY DEF IInv
<1> USE StepKeeps, RunningHasJob, HeldIsHeld DEF IInv, PassedWasFree, HeldSinceBegin, Running,
      At, Goto, Return, Quiet, tables, row, history
<1>0. job[c].mem \in Memories /\ (StreamOf[job[c].mem] = None => ~ HeldBy(hold, StreamOf[job[c].mem]))
  BY DEF IsHeld, TypeOK
<1>1. CASE ReadStream(c) BY <1>0, <1>1 DEF ReadStream, TypeOK
<1>2. CASE CheckHeld(c) BY <1>2 DEF CheckHeld, TypeOK
<1>3. CASE SetArchived(c) BY <1>3 DEF SetArchived, TypeOK
<1>4. CASE LogEvent(c) BY <1>4 DEF LogEvent, TypeOK
<1>5. CASE CheckLegalHold(c) BY <1>5 DEF CheckLegalHold, TypeOK
<1>6. CASE DeleteLinks(c) BY <1>6 DEF DeleteLinks, TypeOK
<1>7. CASE DeleteFacts(c) BY <1>7 DEF DeleteFacts, TypeOK
<1>8. CASE DeleteTags(c) BY <1>8 DEF DeleteTags, TypeOK
<1>9. CASE DeleteRow(c) BY <1>9 DEF DeleteRow, TypeOK
<1>10. CASE Fail(c) BY <1>10 DEF Fail, TypeOK
<1> QED BY <1>1, <1>2, <1>3, <1>4, <1>5, <1>6, <1>7, <1>8, <1>9, <1>10 DEF Step

LEMMA StepLeft ==
  ASSUME IInv, NEW c \in Calls, Step(c)
  PROVE  LeftIsNew'
<1> TypeOK BY DEF IInv
<1> USE StepKeeps, RunningHasJob DEF IInv, LeftIsNew, Running,
      At, Goto, Return, Quiet, tables, row, history
<1>1. CASE ReadStream(c) BY <1>1 DEF ReadStream, TypeOK
<1>2. CASE CheckHeld(c) BY <1>2 DEF CheckHeld, TypeOK
<1>3. CASE SetArchived(c) BY <1>3 DEF SetArchived, TypeOK
<1>4. CASE LogEvent(c) BY <1>4 DEF LogEvent, TypeOK
<1>5. CASE CheckLegalHold(c) BY <1>5 DEF CheckLegalHold, TypeOK
<1>6. CASE DeleteLinks(c) BY <1>6 DEF DeleteLinks, TypeOK
<1>7. CASE DeleteFacts(c) BY <1>7 DEF DeleteFacts, TypeOK
<1>8. CASE DeleteTags(c) BY <1>8 DEF DeleteTags, TypeOK
<1>9. CASE DeleteRow(c) BY <1>9 DEF DeleteRow, TypeOK
<1>10. CASE Fail(c) BY <1>10 DEF Fail, TypeOK
<1> QED BY <1>1, <1>2, <1>3, <1>4, <1>5, <1>6, <1>7, <1>8, <1>9, <1>10 DEF Step

LEMMA StepRefused ==
  ASSUME IInv, NEW c \in Calls, Step(c)
  PROVE  RefusedNeedsWriter'
<1> TypeOK BY DEF IInv
<1> USE StepKeeps, RunningHasJob DEF IInv, RefusedNeedsWriter, LeftIsNew, Referenced, Running,
      At, Goto, Return, Quiet, tables, row, history
<1>1. CASE ReadStream(c) BY <1>1 DEF ReadStream, TypeOK
<1>2. CASE CheckHeld(c) BY <1>2 DEF CheckHeld, TypeOK
<1>3. CASE SetArchived(c) BY <1>3 DEF SetArchived, TypeOK
<1>4. CASE LogEvent(c) BY <1>4 DEF LogEvent, TypeOK
<1>5. CASE CheckLegalHold(c) BY <1>5 DEF CheckLegalHold, TypeOK
<1>6. CASE DeleteLinks(c) BY <1>6 DEF DeleteLinks, TypeOK
<1>7. CASE DeleteFacts(c) BY <1>7 DEF DeleteFacts, TypeOK
<1>8. CASE DeleteTags(c) BY <1>8 DEF DeleteTags, TypeOK
<1>9. CASE DeleteRow(c) BY <1>9 DEF DeleteRow, TypeOK
<1>10. CASE Fail(c) BY <1>10 DEF Fail, TypeOK
<1> QED BY <1>1, <1>2, <1>3, <1>4, <1>5, <1>6, <1>7, <1>8, <1>9, <1>10 DEF Step

LEMMA StepGone ==
  ASSUME IInv, NEW c \in Calls, Step(c)
  PROVE  PurgedRowIsGone'
<1> TypeOK BY DEF IInv
<1> USE StepKeeps, RunningHasJob DEF IInv, PurgedRowIsGone, Running,
      At, Goto, Return, Quiet, tables, row, history
<1>1. CASE ReadStream(c) BY <1>1 DEF ReadStream, TypeOK
<1>2. CASE CheckHeld(c) BY <1>2 DEF CheckHeld, TypeOK
<1>3. CASE SetArchived(c) BY <1>3 DEF SetArchived, TypeOK
<1>4. CASE LogEvent(c) BY <1>4 DEF LogEvent, TypeOK
<1>5. CASE CheckLegalHold(c) BY <1>5 DEF CheckLegalHold, TypeOK
<1>6. CASE DeleteLinks(c) BY <1>6 DEF DeleteLinks, TypeOK
<1>7. CASE DeleteFacts(c) BY <1>7 DEF DeleteFacts, TypeOK
<1>8. CASE DeleteTags(c) BY <1>8 DEF DeleteTags, TypeOK
<1>9. CASE DeleteRow(c) BY <1>9 DEF DeleteRow, TypeOK
<1>10. CASE Fail(c) BY <1>10 DEF Fail, TypeOK
<1> QED BY <1>1, <1>2, <1>3, <1>4, <1>5, <1>6, <1>7, <1>8, <1>9, <1>10 DEF Step

LEMMA StepEvent ==
  ASSUME IInv, NEW c \in Calls, Step(c)
  PROVE  OneEvent'
<1> TypeOK BY DEF IInv
<1> USE StepKeeps, RunningHasJob DEF IInv, OneEvent, Logs, Running,
      At, Goto, Return, Quiet, tables, row, history
<1>1. CASE ReadStream(c) BY <1>1 DEF ReadStream, TypeOK
<1>2. CASE CheckHeld(c) BY <1>2 DEF CheckHeld, TypeOK
<1>3. CASE SetArchived(c) BY <1>3 DEF SetArchived, TypeOK
<1>4. CASE LogEvent(c) BY <1>4 DEF LogEvent, TypeOK
<1>5. CASE CheckLegalHold(c) BY <1>5 DEF CheckLegalHold, TypeOK
<1>6. CASE DeleteLinks(c) BY <1>6 DEF DeleteLinks, TypeOK
<1>7. CASE DeleteFacts(c) BY <1>7 DEF DeleteFacts, TypeOK
<1>8. CASE DeleteTags(c) BY <1>8 DEF DeleteTags, TypeOK
<1>9. CASE DeleteRow(c) BY <1>9 DEF DeleteRow, TypeOK
<1>10. CASE Fail(c) BY <1>10 DEF Fail, TypeOK
<1> QED BY <1>1, <1>2, <1>3, <1>4, <1>5, <1>6, <1>7, <1>8, <1>9, <1>10 DEF Step

LEMMA NextInv == IInv /\ [Next]_vars => IInv'
<1> SUFFICES ASSUME IInv, [Next]_vars PROVE IInv'
  OBVIOUS
<1>t. TypeOK /\ TypeOK'
  BY TypesStep DEF IInv
<1> USE <1>t, RunningHasJob DEF row, calls, history, tables
<1>1. ASSUME NEW m \in Memories, Retain(m) PROVE IInv'
  <2>1. HeldSinceBegin'
    BY <1>1, HeldIsHeld DEF Retain, IInv, HeldSinceBegin, HeldBy, TypeOK, Running
  <2>2. PassedWasFree' BY <1>1 DEF Retain, IInv, PassedWasFree, TypeOK, Running
  <2>3. LeftIsNew' BY <1>1 DEF Retain, IInv, LeftIsNew, TypeOK, Running
  <2>4. RefusedNeedsWriter' BY <1>1 DEF Retain, IInv, RefusedNeedsWriter, TypeOK
  <2>5. PurgedRowIsGone' BY <1>1 DEF Retain, IInv, PurgedRowIsGone, TypeOK, NoJob
  <2>6. OneEvent' BY <1>1 DEF Retain, IInv, OneEvent, Logs, TypeOK
  <2> QED BY <2>1, <2>2, <2>3, <2>4, <2>5, <2>6 DEF IInv
<1>2. ASSUME NEW m \in Memories, AddFact(m) PROVE IInv'
  <2>1. HeldSinceBegin'
    BY <1>2, HeldIsHeld DEF AddFact, Beside, IInv, HeldSinceBegin, HeldBy, TypeOK, Running
  <2>2. PassedWasFree' BY <1>2 DEF AddFact, Beside, IInv, PassedWasFree, TypeOK, Running
  <2>3. LeftIsNew' BY <1>2 DEF AddFact, Beside, IInv, LeftIsNew, TypeOK, Running
  <2>4. RefusedNeedsWriter' BY <1>2 DEF AddFact, Beside, IInv, RefusedNeedsWriter, TypeOK
  <2>5. PurgedRowIsGone' BY <1>2 DEF AddFact, Beside, IInv, PurgedRowIsGone, TypeOK, NoJob
  <2>6. OneEvent' BY <1>2 DEF AddFact, Beside, IInv, OneEvent, Logs, TypeOK
  <2> QED BY <2>1, <2>2, <2>3, <2>4, <2>5, <2>6 DEF IInv
<1>3. ASSUME NEW m \in Memories, AddTag(m) PROVE IInv'
  <2>1. HeldSinceBegin'
    BY <1>3, HeldIsHeld DEF AddTag, Beside, IInv, HeldSinceBegin, HeldBy, TypeOK, Running
  <2>2. PassedWasFree' BY <1>3 DEF AddTag, Beside, IInv, PassedWasFree, TypeOK, Running
  <2>3. LeftIsNew' BY <1>3 DEF AddTag, Beside, IInv, LeftIsNew, TypeOK, Running
  <2>4. RefusedNeedsWriter' BY <1>3 DEF AddTag, Beside, IInv, RefusedNeedsWriter, TypeOK
  <2>5. PurgedRowIsGone' BY <1>3 DEF AddTag, Beside, IInv, PurgedRowIsGone, TypeOK, NoJob
  <2>6. OneEvent' BY <1>3 DEF AddTag, Beside, IInv, OneEvent, Logs, TypeOK
  <2> QED BY <2>1, <2>2, <2>3, <2>4, <2>5, <2>6 DEF IInv
<1>4. ASSUME NEW m \in Memories, RemoveTag(m) PROVE IInv'
  <2>1. HeldSinceBegin'
    BY <1>4, HeldIsHeld DEF RemoveTag, IInv, HeldSinceBegin, HeldBy, TypeOK, Running
  <2>2. PassedWasFree' BY <1>4 DEF RemoveTag, IInv, PassedWasFree, TypeOK, Running
  <2>3. LeftIsNew' BY <1>4 DEF RemoveTag, IInv, LeftIsNew, TypeOK, Running
  <2>4. RefusedNeedsWriter' BY <1>4 DEF RemoveTag, IInv, RefusedNeedsWriter, TypeOK
  <2>5. PurgedRowIsGone' BY <1>4 DEF RemoveTag, IInv, PurgedRowIsGone, TypeOK, NoJob
  <2>6. OneEvent' BY <1>4 DEF RemoveTag, IInv, OneEvent, Logs, TypeOK
  <2> QED BY <2>1, <2>2, <2>3, <2>4, <2>5, <2>6 DEF IInv
<1>5. ASSUME NEW m \in Memories, AddRelationship(m) PROVE IInv'
  <2>1. HeldSinceBegin'
    BY <1>5, HeldIsHeld DEF AddRelationship, IInv, HeldSinceBegin, HeldBy, TypeOK, Running
  <2>2. PassedWasFree' BY <1>5 DEF AddRelationship, IInv, PassedWasFree, TypeOK, Running
  <2>3. LeftIsNew' BY <1>5 DEF AddRelationship, IInv, LeftIsNew, TypeOK, Running
  <2>4. RefusedNeedsWriter' BY <1>5 DEF AddRelationship, IInv, RefusedNeedsWriter, TypeOK
  <2>5. PurgedRowIsGone' BY <1>5 DEF AddRelationship, IInv, PurgedRowIsGone, TypeOK, NoJob
  <2>6. OneEvent' BY <1>5 DEF AddRelationship, IInv, OneEvent, Logs, TypeOK
  <2> QED BY <2>1, <2>2, <2>3, <2>4, <2>5, <2>6 DEF IInv
<1>6. ASSUME NEW h \in Holds, ReleaseHold(h) PROVE IInv'
  <2>1. HeldSinceBegin'
    BY <1>6, HeldIsHeld DEF ReleaseHold, IInv, HeldSinceBegin, HeldBy, TypeOK, Running
  <2>2. PassedWasFree' BY <1>6 DEF ReleaseHold, IInv, PassedWasFree, TypeOK, Running
  <2>3. LeftIsNew' BY <1>6 DEF ReleaseHold, IInv, LeftIsNew, TypeOK, Running
  <2>4. RefusedNeedsWriter' BY <1>6 DEF ReleaseHold, IInv, RefusedNeedsWriter, TypeOK
  <2>5. PurgedRowIsGone' BY <1>6 DEF ReleaseHold, IInv, PurgedRowIsGone, TypeOK, NoJob
  <2>6. OneEvent' BY <1>6 DEF ReleaseHold, IInv, OneEvent, Logs, TypeOK
  <2> QED BY <2>1, <2>2, <2>3, <2>4, <2>5, <2>6 DEF IInv
<1>7. ASSUME NEW h \in Holds, NEW stream \in Streams, CreateHold(h, stream) PROVE IInv'
  <2>0. ASSUME NEW other, HeldBy(hold, other) PROVE HeldBy(hold', other)
    <3>1. PICK g \in Holds : hold[g].stream = other /\ hold[g].state = "active"
      BY <2>0 DEF HeldBy
    <3>2. g # h
      BY <3>1, <1>7 DEF CreateHold, NoHold
    <3>3. hold'[g] = hold[g]
      BY <3>2, <1>7 DEF CreateHold, TypeOK
    <3> QED BY <3>1, <3>3 DEF HeldBy
  <2>1. HeldSinceBegin' BY <1>7, <2>0 DEF CreateHold, IInv, HeldSinceBegin, Running
  <2>2. PassedWasFree' BY <1>7 DEF CreateHold, IInv, PassedWasFree, TypeOK, Running
  <2>3. LeftIsNew' BY <1>7 DEF CreateHold, IInv, LeftIsNew, TypeOK, Running
  <2>4. RefusedNeedsWriter' BY <1>7 DEF CreateHold, IInv, RefusedNeedsWriter, TypeOK
  <2>5. PurgedRowIsGone' BY <1>7 DEF CreateHold, IInv, PurgedRowIsGone, TypeOK, NoJob
  <2>6. OneEvent' BY <1>7 DEF CreateHold, IInv, OneEvent, Logs, TypeOK
  <2> QED BY <2>1, <2>2, <2>3, <2>4, <2>5, <2>6 DEF IInv
<1>8. ASSUME NEW c \in Calls, NEW m \in Memories, Archive(c, m) PROVE IInv'
  <2>1. HeldSinceBegin'
    BY <1>8, HeldIsHeld DEF Archive, Candidate, Begin, IInv, HeldSinceBegin, HeldBy, TypeOK, Running
  <2>2. PassedWasFree' BY <1>8 DEF Archive, Candidate, Begin, IInv, PassedWasFree, TypeOK, Running
  <2>3. LeftIsNew' BY <1>8 DEF Archive, Candidate, Begin, IInv, LeftIsNew, TypeOK, Running
  <2>4. RefusedNeedsWriter' BY <1>8 DEF Archive, Candidate, Begin, IInv, RefusedNeedsWriter, TypeOK
  <2>5. PurgedRowIsGone' BY <1>8 DEF Archive, Candidate, Begin, IInv, PurgedRowIsGone, TypeOK, NoJob
  <2>6. OneEvent' BY <1>8 DEF Archive, Candidate, Begin, IInv, OneEvent, Logs, TypeOK
  <2> QED BY <2>1, <2>2, <2>3, <2>4, <2>5, <2>6 DEF IInv
<1>9. ASSUME NEW c \in Calls, NEW m \in Memories, Purge(c, m) PROVE IInv'
  <2>1. HeldSinceBegin'
    BY <1>9, HeldIsHeld DEF Purge, Begin, IInv, HeldSinceBegin, HeldBy, TypeOK, Running
  <2>2. PassedWasFree' BY <1>9 DEF Purge, Begin, IInv, PassedWasFree, TypeOK, Running
  <2>3. LeftIsNew' BY <1>9 DEF Purge, Begin, IInv, LeftIsNew, TypeOK, Running
  <2>4. RefusedNeedsWriter' BY <1>9 DEF Purge, Begin, IInv, RefusedNeedsWriter, TypeOK
  <2>5. PurgedRowIsGone' BY <1>9 DEF Purge, Begin, IInv, PurgedRowIsGone, TypeOK, NoJob
  <2>6. OneEvent' BY <1>9 DEF Purge, Begin, IInv, OneEvent, Logs, TypeOK
  <2> QED BY <2>1, <2>2, <2>3, <2>4, <2>5, <2>6 DEF IInv
<1>10. ASSUME NEW c \in Calls, Step(c) PROVE IInv'
  BY <1>10, StepHeld, StepPassed, StepLeft, StepRefused, StepGone, StepEvent DEF IInv
<1>11. CASE Kill
  BY <1>11 DEF Kill, IInv, HeldSinceBegin, HeldBy, PassedWasFree, LeftIsNew,
     RefusedNeedsWriter, PurgedRowIsGone, OneEvent, Logs, TypeOK, Running
<1>12. CASE UNCHANGED vars
  BY <1>12 DEF vars, IInv, HeldSinceBegin, HeldBy, PassedWasFree, LeftIsNew,
     RefusedNeedsWriter, PurgedRowIsGone, OneEvent, Logs, TypeOK, Running
<1> QED BY <1>1, <1>2, <1>3, <1>4, <1>5, <1>6, <1>7, <1>8, <1>9, <1>10, <1>11, <1>12 DEF Next, Others

LEMMA Inductive == Spec => []IInv
BY InitInv, NextInv, PTL DEF Spec

LEMMA GoneHolds == IInv => PurgedIsGone
BY DEF IInv, PurgedRowIsGone, PurgedIsGone, Referenced, TypeOK

LEMMA EventsHolds == IInv => EventsTellArchived
<1> SUFFICES ASSUME IInv, NEW m \in Memories
             PROVE  events[m] <= 1 /\ (events[m] = 1 => m \notin rows \ archived)
  BY DEF EventsTellArchived
<1> QED BY DEF IInv, OneEvent, TypeOK

(* What a step of a call changes, it changes past its check.               *)
LEMMA FrozenStep ==
  ASSUME IInv, [Next]_vars, NEW c \in Calls,
         step[c] # "idle", step'[c] # step[c],
         <<row, facts, tags>>' # <<row, facts, tags>>
  PROVE  c \in free
<1> TypeOK BY DEF IInv
<1> USE DEF row, calls, history, tables
<1>1. ASSUME NEW d \in Calls, Step(d) PROVE c \in free
  <2>1. d = c
    BY <1>1, StepKeeps
  <2> USE <2>1, RunningHasJob DEF IInv, PassedWasFree, Running, TypeOK, At, Goto, Return, Quiet
  <2>2. CASE ReadStream(c) BY <2>2 DEF ReadStream
  <2>3. CASE CheckHeld(c) BY <2>3 DEF CheckHeld
  <2>4. CASE SetArchived(c) BY <2>4 DEF SetArchived
  <2>5. CASE LogEvent(c) BY <2>5 DEF LogEvent
  <2>6. CASE CheckLegalHold(c) BY <2>6 DEF CheckLegalHold
  <2>7. CASE DeleteLinks(c) BY <2>7 DEF DeleteLinks
  <2>8. CASE DeleteFacts(c)
    <3>1. job[c].mem \notin rows => facts' = facts
      BY <2>8 DEF DeleteFacts
    <3> QED BY <2>8, <3>1 DEF DeleteFacts
  <2>9. CASE DeleteTags(c)
    <3>1. job[c].mem \notin rows => tags' = tags
      BY <2>9 DEF DeleteTags
    <3> QED BY <2>9, <3>1 DEF DeleteTags
  <2>10. CASE DeleteRow(c)
    <3>0. ASSUME job[c].mem \notin rows
          PROVE  rows \ {job[c].mem} = rows /\ archived \ {job[c].mem} = archived
      <4>1. archived \subseteq rows
        OBVIOUS
      <4> QED BY <3>0, <4>1
    <3>1. job[c].mem \notin rows => rows' = rows /\ archived' = archived
      BY <2>10, <3>0 DEF DeleteRow, row
    <3>2. facts' = facts /\ tags' = tags
      BY <2>10 DEF DeleteRow
    <3>3. step[c] = "row"
      BY <2>10 DEF DeleteRow
    <3> QED BY <3>1, <3>2, <3>3
  <2>11. CASE Fail(c) BY <2>11 DEF Fail
  <2> QED
    BY <1>1, <2>2, <2>3, <2>4, <2>5, <2>6, <2>7, <2>8, <2>9, <2>10, <2>11 DEF Step
<1>2. CASE Others
  BY <1>2 DEF Others, Retain, AddFact, AddTag, RemoveTag, AddRelationship, ReleaseHold, CreateHold
<1>3. ASSUME NEW d \in Calls, NEW m \in Memories, Archive(d, m) \/ Purge(d, m) PROVE c \in free
  BY <1>3 DEF Archive, Purge, Begin
<1>4. CASE Kill BY <1>4 DEF Kill
<1>5. CASE UNCHANGED vars BY <1>5 DEF vars
<1> QED BY <1>1, <1>2, <1>3, <1>4, <1>5 DEF Next

(* Nothing of a stream under hold is archived or purged by a call that     *)
(* began under the hold.                                                   *)
THEOREM HoldFreezes == Spec => HeldIsFrozen
<1> DEFINE Frozen ==
      \A c \in Calls :
        (step[c] # "idle" /\ step'[c] # step[c] /\ <<row, facts, tags>>' # <<row, facts, tags>>)
          => c \in free
<1>1. IInv /\ [Next]_vars => Frozen
  BY FrozenStep
<1>2. HeldIsFrozen <=> [][Frozen]_vars
  BY PTL DEF HeldIsFrozen
<1> HIDE DEF Frozen
<1> QED BY <1>1, <1>2, Inductive, PTL DEF Spec

(* A memory whose purge said Ok is gone from the three tables, for good.   *)
THEOREM PurgeIsComplete == Spec => []PurgedIsGone
BY Inductive, GoneHolds, PTL

(* The foreign keys refuse a purge only for what was added beside it.      *)
THEOREM RefusalNeedsWriter == Spec => []RefusedNeedsWriter
<1>1. IInv => RefusedNeedsWriter
  BY DEF IInv
<1> QED BY <1>1, Inductive, PTL

(* No memory is counted as archived twice, or while it is active.          *)
THEOREM EventsAreTrue == Spec => []EventsTellArchived
BY Inductive, EventsHolds, PTL
================================================================================
