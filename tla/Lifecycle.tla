------------------------------- MODULE Lifecycle -------------------------------
(***************************************************************************)
(* The life of a row after retain: tags and facts that are added to it,    *)
(* legal holds (compliance/legal_hold.rs), archiving                       *)
(* (retention/archiver.rs) and purge (compliance/purge.rs).                *)
(*                                                                         *)
(* Archiving and purging look at the holds and change the row in later     *)
(* statements, each of which commits on its own; holds begin and end, and  *)
(* other connections write to the same row, between any two of them.       *)
(* Foreign keys are enforced (the bundled SQLite has them on): memory_tags *)
(* and facts refer to memories, entity_relationships does not.             *)
(***************************************************************************)
EXTENDS Naturals

CONSTANTS
  Calls,      (* calls of archive_memory, and of check_legal_hold with     *)
              (* purge_memory after it                                     *)
  Memories,   (* ids of memories                                           *)
  Streams,    (* streams                                                   *)
  None,       (* no stream                                                 *)
  StreamOf,   (* StreamOf[m]: the stream of a memory                       *)
  Holds,      (* ids of legal holds                                        *)
  MaxFaults   (* bound: statements that fail, and exits of the process     *)

ASSUME LifecycleAssumption ==
  /\ None \notin Streams
  /\ StreamOf \in [Memories -> Streams \cup {None}]
  /\ MaxFaults \in Nat

VARIABLES
  rows,      (* memories                                                   *)
  archived,  (* memories with archived = 1                                 *)
  facts,     (* memories that rows of facts refer to                       *)
  tags,      (* memories that rows of memory_tags refer to                 *)
  links,     (* memories that rows of entity_relationships name            *)
  hold,      (* hold[h]: the row of legal_holds                            *)
  events,    (* events[m]: the rows of retention_events about m            *)
  job,       (* job[c]: what the call does, and to which memory            *)
  step,      (* step[c]: the statement that comes next                     *)
  answer,    (* answer[c]: what the call returned                          *)
  born,      (* history: the memories there have been                      *)
  free,      (* history: calls that saw an instant without a hold          *)
  touched,   (* history: calls beside which a fact or a tag was added      *)
  faults     (* failed statements and exits so far                         *)

row == <<rows, archived>>
tables == <<row, facts, tags, links, events>>
calls == <<job, step, answer>>
history == <<born, free, touched>>
vars == <<tables, hold, calls, history, faults>>

NoHold == [stream |-> None, state |-> "none"]
NoJob == [kind |-> "none"]

Init ==
  /\ rows = {} /\ archived = {} /\ facts = {} /\ tags = {} /\ links = {}
  /\ hold = [h \in Holds |-> NoHold]
  /\ events = [m \in Memories |-> 0]
  /\ job = [c \in Calls |-> NoJob]
  /\ step = [c \in Calls |-> "idle"]
  /\ answer = [c \in Calls |-> "none"]
  /\ born = {} /\ free = {} /\ touched = {}
  /\ faults = 0

Running(c) == step[c] \notin {"idle", "done"}

(* A stream is under an active hold, by a table of holds.                  *)
HeldBy(table, stream) ==
  \E h \in Holds : table[h].stream = stream /\ table[h].state = "active"

(* Mutant of IsHeld: the first hold found decides, released or not.        *)
IsHeldByAll(m) ==
  /\ StreamOf[m] # None
  /\ \A h \in Holds : hold[h].stream = StreamOf[m] => hold[h].state = "active"
  /\ HeldBy(hold, StreamOf[m])

(* is_held and the JOIN of check_legal_hold.                               *)
IsHeld(m) == StreamOf[m] # None /\ HeldBy(hold, StreamOf[m])

--------------------------------------------------------------------------------
(* What else happens to the tables.                                        *)

(* do_retain inserts a row under a fresh id.                               *)
Retain(m) ==
  /\ m \notin born
  /\ rows' = rows \cup {m}
  /\ born' = born \cup {m}
  /\ UNCHANGED <<archived, facts, tags, links, events, hold, calls, free, touched, faults>>

Beside(m) == {c \in Calls : Running(c) /\ job[c].mem = m}

(* The background task of retain inserts a fact; the foreign key refuses   *)
(* it when the row is gone.                                                *)
AddFact(m) ==
  /\ m \in rows
  /\ facts' = facts \cup {m}
  /\ touched' = touched \cup Beside(m)
  /\ UNCHANGED <<row, tags, links, events, hold, calls, born, free, faults>>

(* do_retain and add_tag insert a tag, under the same foreign key.         *)
AddTag(m) ==
  /\ m \in rows
  /\ tags' = tags \cup {m}
  /\ touched' = touched \cup Beside(m)
  /\ UNCHANGED <<row, facts, links, events, hold, calls, born, free, faults>>

(* remove_tag takes the last tag of a memory; rename_tag moves none from   *)
(* one memory to another.                                                  *)
RemoveTag(m) ==
  /\ m \in tags
  /\ tags' = tags \ {m}
  /\ UNCHANGED <<row, facts, links, events, hold, calls, history, faults>>

(* add_relationship names a memory or none, with no foreign key, and may   *)
(* replace the relationship that another memory stood behind.              *)
AddRelationship(m) ==
  /\ m \in born
  /\ \E other \in Memories, named \in SUBSET {m} : links' = (links \ {other}) \cup named
  /\ UNCHANGED <<row, facts, tags, events, hold, calls, history, faults>>

--------------------------------------------------------------------------------
(* Legal holds.                                                            *)

CreateHold(h, stream) ==
  /\ hold[h] = NoHold
  /\ hold' = [hold EXCEPT ![h] = [stream |-> stream, state |-> "active"]]
  /\ UNCHANGED <<tables, calls, history, faults>>

(* One UPDATE of the named hold, if it is active. A stream may have more.  *)
ReleaseHold(h) ==
  /\ hold[h].state = "active"
  /\ hold' = [hold EXCEPT ![h].state = "released"]
  /\ free' = free \cup
       {c \in Calls : Running(c) /\ ~ HeldBy(hold', StreamOf[job[c].mem])}
  /\ UNCHANGED <<tables, calls, born, touched, faults>>

--------------------------------------------------------------------------------
(* The calls.                                                              *)

Begin(c, kind, m, first) ==
  /\ step[c] = "idle"
  /\ job' = [job EXCEPT ![c] = [kind |-> kind, mem |-> m]]
  /\ step' = [step EXCEPT ![c] = first]
  /\ free' = IF IsHeld(m) THEN free ELSE free \cup {c}
  /\ UNCHANGED <<tables, hold, answer, born, touched, faults>>

(* What find_stale_memories and find_archival_candidates choose from.      *)
Candidate(m) == m \in rows \ archived

(* By the time archive_memory gets to it, it may be archived or gone.      *)
Archive(c, m) == Candidate(m) /\ Begin(c, "archive", m, "stream")

Purge(c, m) == m \in born /\ Begin(c, "purge", m, "check")

At(c, s) == step[c] = s

Goto(c, s) == step' = [step EXCEPT ![c] = s] /\ UNCHANGED <<job, answer>>

Return(c, a) ==
  /\ step' = [step EXCEPT ![c] = "done"]
  /\ answer' = [answer EXCEPT ![c] = a]
  /\ UNCHANGED job

Quiet == UNCHANGED <<hold, history, faults>>

(* archive_memory reads the stream; a memory without one needs no check.   *)
ReadStream(c) ==
  /\ At(c, "stream")
  /\ IF job[c].mem \notin rows THEN Return(c, "missing")
     ELSE Goto(c, IF StreamOf[job[c].mem] = None THEN "update" ELSE "held")
  /\ Quiet /\ UNCHANGED tables

CheckHeld(c) ==
  /\ At(c, "held")
  /\ IF IsHeld(job[c].mem) THEN Return(c, "held") ELSE Goto(c, "update")
  /\ Quiet /\ UNCHANGED tables

(* Mutant of SetArchived: the UPDATE without AND archived = 0.             *)
SetArchivedAgain(c) ==
  LET m == job[c].mem IN
  /\ At(c, "update")
  /\ IF m \in rows
     THEN archived' = archived \cup {m} /\ Goto(c, "event")
     ELSE Return(c, "missing") /\ UNCHANGED archived
  /\ Quiet /\ UNCHANGED <<rows, facts, tags, links, events>>

(* UPDATE ... AND archived = 0, and an error when it changes no row.       *)
SetArchived(c) ==
  LET m == job[c].mem IN
  /\ At(c, "update")
  /\ IF m \in rows \ archived
     THEN archived' = archived \cup {m} /\ Goto(c, "event")
     ELSE Return(c, "missing") /\ UNCHANGED archived
  /\ Quiet /\ UNCHANGED <<rows, facts, tags, links, events>>

(* The row of retention_events, whose failure is ignored.                  *)
LogEvent(c) ==
  LET m == job[c].mem IN
  /\ At(c, "event")
  /\ \/ events' = [events EXCEPT ![m] = @ + 1] /\ UNCHANGED faults
     \/ faults < MaxFaults /\ faults' = faults + 1 /\ UNCHANGED events
  /\ Return(c, "ok")
  /\ UNCHANGED <<row, facts, tags, links, hold, history>>

(* check_legal_hold joins the holds with the row: without row, no hold.    *)
CheckLegalHold(c) ==
  LET m == job[c].mem IN
  /\ At(c, "check")
  /\ IF m \in rows /\ IsHeld(m) THEN Return(c, "held") ELSE Goto(c, "links")
  /\ Quiet /\ UNCHANGED tables

DeleteLinks(c) ==
  /\ At(c, "links")
  /\ links' = links \ {job[c].mem}
  /\ Goto(c, "facts")
  /\ Quiet /\ UNCHANGED <<row, facts, tags, events>>

(* Mutant of DeleteFacts: the statement is forgotten.                      *)
DeleteNoFacts(c) ==
  /\ At(c, "facts")
  /\ Goto(c, "tags")
  /\ Quiet /\ UNCHANGED tables

DeleteFacts(c) ==
  /\ At(c, "facts")
  /\ facts' = facts \ {job[c].mem}
  /\ Goto(c, "tags")
  /\ Quiet /\ UNCHANGED <<row, tags, links, events>>

DeleteTags(c) ==
  /\ At(c, "tags")
  /\ tags' = tags \ {job[c].mem}
  /\ Goto(c, "row")
  /\ Quiet /\ UNCHANGED <<row, facts, links, events>>

Referenced(m) == m \in facts \cup tags

(* Mutant of DeleteRow: the error of the statement is not looked at.       *)
DeleteRowOrNot(c) ==
  LET m == job[c].mem IN
  /\ At(c, "row")
  /\ IF Referenced(m) THEN UNCHANGED row
     ELSE rows' = rows \ {m} /\ archived' = archived \ {m}
  /\ Return(c, "ok")
  /\ Quiet /\ UNCHANGED <<facts, tags, links, events>>

(* The last DELETE, which a foreign key refuses while rows refer to m.     *)
DeleteRow(c) ==
  LET m == job[c].mem IN
  /\ At(c, "row")
  /\ IF Referenced(m) THEN Return(c, "refused") /\ UNCHANGED row
     ELSE rows' = rows \ {m} /\ archived' = archived \ {m} /\ Return(c, "ok")
  /\ Quiet /\ UNCHANGED <<facts, tags, links, events>>

(* Any other statement of a call fails and ends it.                        *)
Fail(c) ==
  /\ Running(c) /\ ~ At(c, "event")
  /\ faults < MaxFaults
  /\ faults' = faults + 1
  /\ Return(c, "error")
  /\ UNCHANGED <<tables, hold, history>>

(* The process exits; what its calls have committed stays.                 *)
Kill ==
  /\ faults < MaxFaults
  /\ faults' = faults + 1
  /\ step' = [c \in Calls |-> IF Running(c) THEN "done" ELSE step[c]]
  /\ UNCHANGED <<tables, hold, job, answer, history>>

Step(c) ==
  \/ ReadStream(c) \/ CheckHeld(c) \/ SetArchived(c) \/ LogEvent(c)
  \/ CheckLegalHold(c) \/ DeleteLinks(c) \/ DeleteFacts(c) \/ DeleteTags(c)
  \/ DeleteRow(c) \/ Fail(c)

Others ==
  \/ \E m \in Memories :
       Retain(m) \/ AddFact(m) \/ AddTag(m) \/ RemoveTag(m) \/ AddRelationship(m)
  \/ \E h \in Holds : ReleaseHold(h) \/ \E stream \in Streams : CreateHold(h, stream)

Next ==
  \/ Others
  \/ \E c \in Calls, m \in Memories : Archive(c, m) \/ Purge(c, m)
  \/ \E c \in Calls : Step(c)
  \/ Kill

Spec == Init /\ [][Next]_vars

--------------------------------------------------------------------------------
Steps == {"idle", "stream", "held", "update", "event", "check", "links", "facts",
          "tags", "row", "done"}
PurgeSteps == {"check", "links", "facts", "tags", "row"}
Answers == {"none", "ok", "missing", "held", "refused", "error"}

(* Types; the tables refer to memories that have existed, and a call runs  *)
(* the statements of its kind.                                             *)
TypeOK ==
  /\ rows \subseteq born /\ born \subseteq Memories
  /\ archived \subseteq rows
  /\ facts \subseteq rows
  /\ tags \subseteq rows
  /\ links \subseteq born
  /\ hold \in [Holds -> {NoHold} \cup [stream : Streams, state : {"active", "released"}]]
  /\ events \in [Memories -> Nat]
  /\ job \in [Calls -> {NoJob} \cup [kind : {"archive", "purge"}, mem : born]]
  /\ step \in [Calls -> Steps]
  /\ \A c \in Calls :
       /\ step[c] = "idle" <=> job[c] = NoJob
       /\ step[c] \in PurgeSteps => job[c].kind = "purge"
       /\ step[c] \in {"stream", "held", "update", "event"} => job[c].kind = "archive"
  /\ answer \in [Calls -> Answers]
  /\ \A c \in Calls : answer[c] # "none" => step[c] = "done"
  /\ free \subseteq Calls /\ touched \subseteq Calls
  /\ faults \in 0 .. MaxFaults

(* A hold freezes its stream for every call that begins under it: as long  *)
(* as the stream is under one hold or another, no archiving and no purge   *)
(* that began in that time changes a row of it, its facts or its tags.     *)
(* (What began before the hold may still finish.)                          *)
HeldIsFrozen ==
  [][\A c \in Calls :
       step[c] # "idle" /\ step'[c] # step[c] /\ <<row, facts, tags>>' # <<row, facts, tags>>
         => c \in free]_vars

(* Once a purge has said Ok the memory is gone from memories, facts and    *)
(* memory_tags, for good, whatever other calls and the background task of  *)
(* its retain still do.                                                    *)
PurgedIsGone ==
  \A c \in Calls :
    answer[c] = "ok" /\ job[c].kind = "purge" =>
      job[c].mem \notin rows /\ ~ Referenced(job[c].mem)

(* A purge is refused by a foreign key only if a fact or a tag was added   *)
(* to its memory while it ran: no purge that was cut short before, by an   *)
(* error or an exit, and none that runs beside it is in its way.           *)
RefusedNeedsWriter == \A c \in Calls : answer[c] = "refused" => c \in touched

(* retention_events counts what was archived: never a memory twice, and    *)
(* none that is still active, however many calls archive it at once.       *)
EventsTellArchived ==
  \A m \in Memories : events[m] <= 1 /\ (events[m] = 1 => m \notin rows \ archived)
================================================================================
