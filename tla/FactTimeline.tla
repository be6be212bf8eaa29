----------------------------- MODULE FactTimeline -----------------------------
(***************************************************************************)
(* The facts of the memory engine (facts/*.rs) under the background tasks  *)
(* of Engine::retain (engine/mod.rs).                                      *)
(*                                                                         *)
(* A retain hands its memory to a blocking task with a connection of its   *)
(* own. The task extracts (key, object) facts from the text and, one fact  *)
(* after the other, inserts it, reads the current facts that contradict it *)
(* and ends each of those. Every statement commits on its own; tasks run   *)
(* side by side, and forget runs beside them through the write queue. Any  *)
(* statement may fail, and the task goes on as if it had not.              *)
(*                                                                         *)
(* A key stands for LOWER(subject), LOWER(predicate); an object for its    *)
(* lower-case form. valid_until and invalidated_at are always set together *)
(* and are one variable here, as are valid_from and ingested_at.           *)
(***************************************************************************)
EXTENDS Naturals, Sequences, FiniteSets

CONSTANTS
  Memories,    (* memory ids, each with at most one background task      *)
  Keys,        (* subject and predicate of a fact                        *)
  Objects,     (* what the fact says of its key                          *)
  MaxFacts,    (* bound: facts extracted from one memory                 *)
  MaxTime,     (* bound: ticks of the clock                              *)
  MaxFaults,   (* bound: statements that fail                            *)
  MaxKills,    (* bound: exits of the process                            *)
  None         (* SQL NULL                                               *)

ASSUME FactAssumption ==
  /\ MaxFacts \in Nat
  /\ MaxTime \in Nat
  /\ MaxFaults \in Nat
  /\ MaxKills \in Nat
  /\ None \notin Nat

FactId == Memories \X (1..MaxFacts)

VARIABLES
  pc,         (* pc[m]: where the task of memory m is                    *)
  text,       (* text[m]: the (key, object) pairs extract_facts finds    *)
  idx,        (* idx[m]: the fact the task is working on                 *)
  seen,       (* seen[m]: valid_from and ingested_at of the facts of m   *)
  found,      (* found[m]: conflicts detected and not yet resolved       *)
  stamp,      (* stamp[m]: the `now` of resolve_conflicts                *)
  stored,     (* rows of the facts table                                 *)
  until,      (* until[f]: valid_until and invalidated_at                *)
  forgotten,  (* memories on which forget has run                        *)
  now,        (* the clock                                               *)
  faults,     (* failed statements so far                                *)
  kills,      (* exits of the process so far                             *)
  past        (* past[m]: the tasks that were over when that of m began; *)
              (* history, no guard looks at it                           *)

task == <<pc, idx, seen, found, stamp>>
vars == <<pc, text, idx, seen, found, stamp, stored, until, forgotten, now,
          faults, kills, past>>

Fact(f) == text[f[1]][f[2]]

Contradicts(f, g) == Fact(f)[1] = Fact(g)[1] /\ Fact(f)[2] # Fact(g)[2]

IsCurrent(f) == f \in stored /\ until[f] = None

(* Mutants of Conflicting: only facts stated earlier; only facts of other  *)
(* memories.                                                               *)
ConflictingEarlier(f) ==
  {g \in stored : until[g] = None /\ Contradicts(f, g) /\ seen[g[1]] < seen[f[1]]}

ConflictingElsewhere(f) ==
  {g \in stored : until[g] = None /\ Contradicts(f, g) /\ g[1] # f[1]}

(* current_facts and detect_conflicts read the rows that have not ended.   *)
Conflicting(f) == {g \in stored : until[g] = None /\ Contradicts(f, g)}

(* The task of m has come to an end, one way or the other.                 *)
Over(m) == pc[m] \in {"done", "panicked", "killed"}

(* The fact the task of m is working on.                                   *)
This(m) == <<m, idx[m]>>

Init ==
  /\ pc = [m \in Memories |-> "new"]
  /\ text = [m \in Memories |-> <<>>]
  /\ idx = [m \in Memories |-> 1]
  /\ seen = [m \in Memories |-> 0]
  /\ found = [m \in Memories |-> {}]
  /\ stamp = [m \in Memories |-> 0]
  /\ stored = {}
  /\ until = [f \in FactId |-> None]
  /\ forgotten = {}
  /\ now = 0
  /\ faults = 0
  /\ kills = 0
  /\ past = [m \in Memories |-> {}]

Texts == UNION {[1..n -> Keys \X Objects] : n \in 0..MaxFacts}

(* Engine::retain has stored the memory and spawns its task.               *)
Retain(m) ==
  /\ pc[m] = "new"
  /\ pc' = [pc EXCEPT ![m] = "spawned"]
  /\ \E s \in Texts : text' = [text EXCEPT ![m] = s]
  /\ UNCHANGED <<idx, seen, found, stamp, stored, until, forgotten, now, faults, kills, past>>

(* extract_facts: every fact of the memory carries the time of this step.  *)
(* It cuts a line at offsets found in the lower-cased line, which may be   *)
(* longer or shorter: the slice then panics, and the task is gone.         *)
Extract(m) ==
  /\ pc[m] = "spawned"
  /\ seen' = [seen EXCEPT ![m] = now]
  /\ past' = [past EXCEPT ![m] = {n \in Memories : Over(n)}]
  /\ \E s \in {"next", "panicked"} : pc' = [pc EXCEPT ![m] = s]
  /\ UNCHANGED <<text, idx, found, stamp, stored, until, forgotten, now, faults, kills>>

(* The head of the loop over the extracted facts.                          *)
NextFact(m) ==
  /\ pc[m] = "next"
  /\ pc' = [pc EXCEPT ![m] = IF idx[m] <= Len(text[m]) THEN "insert" ELSE "done"]
  /\ UNCHANGED <<text, idx, seen, found, stamp, stored, until, forgotten, now, faults, kills, past>>

StatementFails ==
  /\ faults < MaxFaults
  /\ faults' = faults + 1

Insert(m) ==
  /\ pc[m] = "insert"
  /\ pc' = [pc EXCEPT ![m] = "detect"]
  /\ \/ stored' = stored \cup {This(m)} /\ UNCHANGED faults
     \/ StatementFails /\ UNCHANGED stored
  /\ UNCHANGED <<text, idx, seen, found, stamp, until, forgotten, now, kills, past>>

(* detect_conflicts(..).unwrap_or_default(): an error is no conflict.      *)
Detect(m) ==
  /\ pc[m] = "detect"
  /\ \/ found' = [found EXCEPT ![m] = Conflicting(This(m))] /\ UNCHANGED faults
     \/ StatementFails /\ UNCHANGED found
  /\ pc' = [pc EXCEPT ![m] = "decide"]
  /\ UNCHANGED <<text, idx, seen, stamp, stored, until, forgotten, now, kills, past>>

(* Mutant of Decide: the old facts end when the new one was extracted.     *)
DecideAtExtraction(m) ==
  /\ pc[m] = "decide"
  /\ IF found[m] = {}
     THEN /\ pc' = [pc EXCEPT ![m] = "next"]
          /\ idx' = [idx EXCEPT ![m] = @ + 1]
          /\ UNCHANGED stamp
     ELSE /\ pc' = [pc EXCEPT ![m] = "resolve"]
          /\ stamp' = [stamp EXCEPT ![m] = seen[m]]
          /\ UNCHANGED idx
  /\ UNCHANGED <<text, seen, found, stored, until, forgotten, now, faults, kills, past>>

(* resolve_conflicts starts only with conflicts, and takes its own time.   *)
Decide(m) ==
  /\ pc[m] = "decide"
  /\ IF found[m] = {}
     THEN /\ pc' = [pc EXCEPT ![m] = "next"]
          /\ idx' = [idx EXCEPT ![m] = @ + 1]
          /\ UNCHANGED stamp
     ELSE /\ pc' = [pc EXCEPT ![m] = "resolve"]
          /\ stamp' = [stamp EXCEPT ![m] = now]
          /\ UNCHANGED idx
  /\ UNCHANGED <<text, seen, found, stored, until, forgotten, now, faults, kills, past>>

(* Mutant of Resolve: the UPDATE is given the id of the new fact.          *)
ResolveNew(m) ==
  /\ pc[m] = "resolve"
  /\ \E g \in found[m] :
       /\ until' = [until EXCEPT ![This(m)] = stamp[m]]
       /\ found' = [found EXCEPT ![m] = @ \ {g}]
  /\ UNCHANGED <<pc, text, idx, seen, stamp, stored, forgotten, now, faults, kills, past>>

(* One UPDATE of resolve_conflicts: by id, whatever has become of the row. *)
Resolve(m) ==
  /\ pc[m] = "resolve"
  /\ \E g \in found[m] :
       /\ until' = [until EXCEPT ![g] = stamp[m]]
       /\ found' = [found EXCEPT ![m] = @ \ {g}]
  /\ UNCHANGED <<pc, text, idx, seen, stamp, stored, forgotten, now, faults, kills, past>>

(* The loop ends, or `?` leaves it at an UPDATE that failed.               *)
Resolved(m) ==
  /\ pc[m] = "resolve"
  /\ \/ found[m] = {} /\ UNCHANGED faults
     \/ found[m] # {} /\ StatementFails
  /\ found' = [found EXCEPT ![m] = {}]
  /\ pc' = [pc EXCEPT ![m] = "next"]
  /\ idx' = [idx EXCEPT ![m] = @ + 1]
  /\ UNCHANGED <<text, seen, stamp, stored, until, forgotten, now, kills, past>>

(* do_forget: one UPDATE over the facts of the memory that are current.    *)
Forget(m) ==
  /\ pc[m] # "new"
  /\ until' = [f \in FactId |->
                 IF f[1] = m /\ IsCurrent(f) THEN now ELSE until[f]]
  /\ forgotten' = forgotten \cup {m}
  /\ UNCHANGED <<pc, text, idx, seen, found, stamp, stored, now, faults, kills, past>>

Tick ==
  /\ now < MaxTime
  /\ now' = now + 1
  /\ UNCHANGED <<pc, text, idx, seen, found, stamp, stored, until, forgotten, faults, kills,
                 past>>

(* The process exits: whatever its tasks had left to do is not done, now   *)
(* or after a restart.                                                     *)
Running(m) == pc[m] # "new" /\ ~Over(m)

Kill ==
  /\ kills < MaxKills
  /\ kills' = kills + 1
  /\ pc' = [m \in Memories |-> IF Running(m) THEN "killed" ELSE pc[m]]
  /\ UNCHANGED <<text, idx, seen, found, stamp, stored, until, forgotten, now, faults, past>>

TaskStep(m) ==
  \/ Extract(m) \/ NextFact(m) \/ Insert(m) \/ Detect(m) \/ Decide(m)
  \/ Resolve(m) \/ Resolved(m)

Next ==
  \/ \E m \in Memories : Retain(m) \/ TaskStep(m) \/ Forget(m)
  \/ Tick
  \/ Kill

Spec == Init /\ [][Next]_vars

-----------------------------------------------------------------------------
TypeOK ==
  /\ pc \in [Memories -> {"new", "spawned", "next", "insert", "detect", "decide",
                          "resolve", "done", "panicked", "killed"}]
  /\ text \in [Memories -> Texts]
  /\ idx \in [Memories -> 1..(MaxFacts + 1)]
  /\ seen \in [Memories -> 0..MaxTime]
  /\ found \in [Memories -> SUBSET FactId]
  /\ stamp \in [Memories -> 0..MaxTime]
  /\ stored \in SUBSET FactId
  /\ until \in [FactId -> (0..MaxTime) \cup {None}]
  /\ forgotten \in SUBSET Memories
  /\ now \in 0..MaxTime
  /\ faults \in 0..MaxFaults
  /\ kills \in 0..MaxKills
  /\ past \in [Memories -> SUBSET Memories]

(* The task of f has still to look for the rivals of f, or has found g and *)
(* not yet ended it.                                                       *)
Handles(f, g) ==
  LET m == f[1] IN
  /\ idx[m] = f[2]
  /\ \/ pc[m] = "detect"
     \/ pc[m] \in {"decide", "resolve"} /\ g \in found[m]

(* As long as no statement fails and the process stays up, two current     *)
(* facts that contradict each other are on the way of a task that will end *)
(* one of them: insert-then-detect never lets both tasks miss the other.   *)
(* Once every task is done, a key has at most one current object; which    *)
(* one, and whether any, is left open (facts/conflict.rs, engine/mod.rs).  *)
ContradictionsAreHandled ==
  (faults = 0 /\ kills = 0) =>
    \A f, g \in stored :
      (IsCurrent(f) /\ IsCurrent(g) /\ Contradicts(f, g)) =>
        Handles(f, g) \/ Handles(g, f)

(* What ends a fact: its memory was forgotten, or a fact that contradicts  *)
(* it is on record, from a later line of its text or from a task that was  *)
(* not over when its own began. A fact recorded by a task that was over    *)
(* never ends a newer one, as long as no statement fails                   *)
(* (facts/conflict.rs, resolve_conflicts).                                 *)
EndedHasRival ==
  faults = 0 =>
    \A f \in stored :
      (until[f] # None /\ f[1] \notin forgotten) =>
        \E g \in stored :
          /\ Contradicts(f, g)
          /\ IF g[1] = f[1] THEN f[2] < g[2] ELSE g[1] \notin past[f[1]]

(* Validity intervals run forward: no fact ends before it began. The clock *)
(* is Tick, which is never set back (temporal.rs, conflict.rs).            *)
IntervalsRunForward ==
  \A f \in stored : until[f] # None => seen[f[1]] <= until[f]

(* Within one text the last word on a key wins: when the task is done, no  *)
(* earlier fact that a later line contradicts is current.                  *)
LaterLineWins ==
  (faults = 0) =>
    \A f, g \in stored :
      (f[1] = g[1] /\ pc[f[1]] = "done" /\ f[2] < g[2] /\ Contradicts(f, g))
        => until[f] # None

(* Conflicts are resolved "by invalidating older facts (Tier 1: timestamp- *)
(* based)" (facts/conflict.rs:58), and the question for the current fact   *)
(* returns the new one (README.md:76-78): once the tasks are done, the     *)
(* newest facts of a key are not all ended, if nothing was forgotten and   *)
(* nothing failed.                                                         *)
NewestIsCurrent ==
  (faults = 0 /\ forgotten = {} /\ \A m \in Memories : pc[m] \in {"new", "done"}) =>
    \A f \in stored : \E g \in stored :
      Fact(g)[1] = Fact(f)[1] /\ seen[f[1]] <= seen[g[1]] /\ IsCurrent(g)

(* A forgotten memory has no current fact once its task is done            *)
(* (docs/security.md:371).                                                 *)
ForgottenHasNoCurrentFact ==
  \A f \in stored : (f[1] \in forgotten /\ pc[f[1]] = "done") => until[f] # None
=============================================================================
