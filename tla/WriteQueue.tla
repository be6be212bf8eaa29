------------------------------ MODULE WriteQueue ------------------------------
(***************************************************************************)
(* SqliteStorage (storage/sqlite.rs): callers put operations in a bounded  *)
(* mpsc channel, one writer task takes them out in order and runs them on  *)
(* the write connection, and answers each on its oneshot channel.          *)
(*                                                                         *)
(* Every statement the writer executes commits on its own, so do_retain is *)
(* several steps, between which other connections run and the process may  *)
(* die. A statement may fail (disk full, SQLITE_BUSY after the busy        *)
(* timeout, a foreign key). A caller may drop its future at any await.     *)
(***************************************************************************)
EXTENDS Naturals, Sequences, FiniteSets

CONSTANTS
  Calls,       (* one identifier per call of retain, forget, ...         *)
  Memories,    (* the ids do_retain may generate                         *)
  Tags,        (* the tags a retain may carry                            *)
  None,        (* neither a call nor a memory                            *)
  QueueDepth,  (* concurrency.write_queue_depth                          *)
  MaxFaults,   (* bound: statements that fail                            *)
  MaxCrashes   (* bound: crashes of the process                          *)

ASSUME QueueAssumption ==
  /\ None \notin Calls
  /\ None \notin Memories
  /\ QueueDepth \in Nat \ {0}
  /\ MaxFaults \in Nat
  /\ MaxCrashes \in Nat

VARIABLES
  phase,    (* phase[c]: what the caller's future is doing               *)
  op,       (* op[c]: the WriteOp of the call                            *)
  made,     (* made[c]: the id do_retain generated for the call          *)
  queue,    (* the mpsc channel                                          *)
  writer,   (* the writer task: the call it runs, the step, what is left *)
  rows,     (* memories                                                  *)
  fts,      (* memories_fts                                              *)
  tagRows,  (* memory_tags                                               *)
  current,  (* memories that have a fact with valid_until NULL           *)
  faults,   (* failed statements so far                                  *)
  crashes   (* crashes so far                                            *)

callers == <<phase, op>>
tables == <<rows, fts, tagRows, current>>
vars == <<phase, op, made, queue, writer, rows, fts, tagRows, current,
          faults, crashes>>

NoOp == [kind |-> "none"]

WriteOp ==
  [kind : {"retain"}, tags : SUBSET Tags]
    \cup [kind : {"forget", "touch"}, mem : Memories]

Idle == [call |-> None, step |-> "recv", left |-> {}]

Init ==
  /\ phase = [c \in Calls |-> "idle"]
  /\ op = [c \in Calls |-> NoOp]
  /\ made = [c \in Calls |-> None]
  /\ queue = <<>>
  /\ writer = Idle
  /\ rows = {}
  /\ fts = {}
  /\ tagRows = {}
  /\ current = {}
  /\ faults = 0
  /\ crashes = 0

-----------------------------------------------------------------------------
(* The callers.                                                            *)

Invoke(c) ==
  /\ phase[c] = "idle"
  /\ phase' = [phase EXCEPT ![c] = "sending"]
  /\ \E o \in WriteOp : op' = [op EXCEPT ![c] = o]
  /\ UNCHANGED <<made, queue, writer, tables, faults, crashes>>

(* write_tx.send(..).await: completes when the channel has room.           *)
Send(c) ==
  /\ phase[c] = "sending"
  /\ Len(queue) < QueueDepth
  /\ phase' = [phase EXCEPT ![c] = "waiting"]
  /\ queue' = Append(queue, c)
  /\ UNCHANGED <<op, made, writer, tables, faults, crashes>>

(* The caller's future is dropped at one of its two awaits. An operation   *)
(* that has been sent stays in the channel.                                *)
Cancel(c) ==
  /\ phase[c] \in {"sending", "waiting"}
  /\ phase' = [phase EXCEPT ![c] = "cancelled"]
  /\ UNCHANGED <<op, made, queue, writer, tables, faults, crashes>>

-----------------------------------------------------------------------------
(* The writer task.                                                        *)

(* Mutant of Recv: an operation whose caller has left is thrown away.      *)
RecvIfAwaited ==
  /\ writer = Idle
  /\ queue # <<>>
  /\ writer' = IF phase[Head(queue)] = "cancelled"
               THEN Idle
               ELSE [call |-> Head(queue), step |-> "begin", left |-> {}]
  /\ queue' = Tail(queue)
  /\ UNCHANGED <<callers, made, tables, faults, crashes>>

Recv ==
  /\ writer = Idle
  /\ queue # <<>>
  /\ writer' = [call |-> Head(queue), step |-> "begin", left |-> {}]
  /\ queue' = Tail(queue)
  /\ UNCHANGED <<callers, made, tables, faults, crashes>>

At(step) == writer.call # None /\ writer.step = step

Goto(step) == writer' = [writer EXCEPT !.step = step]

(* A statement returns Err: `?` leaves the handler with that error.        *)
StatementFails ==
  /\ faults < MaxFaults
  /\ faults' = faults + 1
  /\ Goto("err")

InsertRow ==
  LET c == writer.call IN
  /\ At("begin")
  /\ op[c].kind = "retain"
  /\ \E m \in Memories \ rows :
       /\ rows' = rows \cup {m}
       /\ made' = [made EXCEPT ![c] = m]
  /\ writer' = [writer EXCEPT !.step = "fts", !.left = op[c].tags]
  /\ UNCHANGED <<callers, queue, fts, tagRows, current, faults, crashes>>

(* The row of the full-text index: skipped without a summary, and a        *)
(* failure is ignored.                                                     *)
InsertFts ==
  /\ At("fts")
  /\ \/ fts' = fts \cup {made[writer.call]}
     \/ UNCHANGED fts
  /\ Goto("tags")
  /\ UNCHANGED <<callers, made, queue, rows, tagRows, current, faults, crashes>>

InsertTag ==
  LET m == made[writer.call] IN
  /\ At("tags")
  /\ \E t \in writer.left :
       /\ tagRows' = tagRows \cup {<<m, t>>}
       /\ writer' = [writer EXCEPT !.left = @ \ {t}]
  /\ UNCHANGED <<callers, made, queue, rows, fts, current, faults, crashes>>

RetainDone ==
  /\ At("tags")
  /\ writer.left = {}
  /\ Goto("ok")
  /\ UNCHANGED <<callers, made, queue, tables, faults, crashes>>

(* Mutant of Forget: the UPDATE without `memory_id = ?1`.                  *)
ForgetEverything ==
  /\ At("begin")
  /\ op[writer.call].kind = "forget"
  /\ current' = {}
  /\ Goto("ok")
  /\ UNCHANGED <<callers, made, queue, rows, fts, tagRows, faults, crashes>>

(* do_forget: one UPDATE, which an unknown memory does not disturb.        *)
Forget ==
  LET c == writer.call IN
  /\ At("begin")
  /\ op[c].kind = "forget"
  /\ current' = current \ {op[c].mem}
  /\ Goto("ok")
  /\ UNCHANGED <<callers, made, queue, rows, fts, tagRows, faults, crashes>>

(* do_update_access: counters of the row, which nothing here reads.        *)
UpdateAccess ==
  /\ At("begin")
  /\ op[writer.call].kind = "touch"
  /\ Goto("ok")
  /\ UNCHANGED <<callers, made, queue, tables, faults, crashes>>

(* Mutant of Fail: the error of a tag is ignored as that of the index is.  *)
FailSkipsTag ==
  /\ At("tags")
  /\ faults < MaxFaults
  /\ faults' = faults + 1
  /\ \E t \in writer.left : writer' = [writer EXCEPT !.left = @ \ {t}]
  /\ UNCHANGED <<callers, made, queue, tables, crashes>>

(* The INSERT of the row, the INSERT of a tag, or the one UPDATE fails.    *)
Fail ==
  /\ \/ At("begin")
     \/ At("tags") /\ writer.left # {}
  /\ StatementFails
  /\ UNCHANGED <<callers, made, queue, tables, crashes>>

(* Mutant of Reply: `reply.send(result)?` ends the task.                   *)
ReplyOrExit ==
  LET c == writer.call IN
  /\ At("ok") \/ At("err")
  /\ phase' = IF phase[c] = "waiting"
              THEN [phase EXCEPT ![c] = writer.step]
              ELSE phase
  /\ writer' = IF phase[c] = "waiting" THEN Idle ELSE [Idle EXCEPT !.step = "err"]
  /\ UNCHANGED <<op, made, queue, tables, faults, crashes>>

(* Mutant of Reply: a failed operation is tried again.                     *)
ReplyOrRetry ==
  LET c == writer.call IN
  /\ At("ok") \/ At("err")
  /\ IF writer.step = "ok"
     THEN /\ phase' = IF phase[c] = "waiting"
                      THEN [phase EXCEPT ![c] = "ok"]
                      ELSE phase
          /\ writer' = Idle
     ELSE /\ Goto("begin")
          /\ UNCHANGED phase
  /\ UNCHANGED <<op, made, queue, tables, faults, crashes>>

(* let _ = reply.send(result): a caller that is gone is not an error.      *)
Reply ==
  LET c == writer.call IN
  /\ At("ok") \/ At("err")
  /\ phase' = IF phase[c] = "waiting"
              THEN [phase EXCEPT ![c] = writer.step]
              ELSE phase
  /\ writer' = Idle
  /\ UNCHANGED <<op, made, queue, tables, faults, crashes>>

-----------------------------------------------------------------------------
(* The surroundings.                                                       *)

(* The background task of an answered retain adds a fact on its own        *)
(* connection.                                                             *)
BackgroundFact(m) ==
  /\ \E c \in Calls : phase[c] = "ok" /\ made[c] = m
  /\ current' = current \cup {m}
  /\ UNCHANGED <<callers, made, queue, writer, rows, fts, tagRows, faults,
                 crashes>>

(* The process dies and SqliteStorage::open runs again: the channel and    *)
(* the futures are gone, committed statements stay.                        *)
Crash ==
  /\ crashes < MaxCrashes
  /\ crashes' = crashes + 1
  /\ phase' = [c \in Calls |-> IF phase[c] \in {"sending", "waiting", "cancelled"}
                               THEN "dead" ELSE phase[c]]
  /\ queue' = <<>>
  /\ writer' = Idle
  /\ UNCHANGED <<op, made, tables, faults>>

WriterStep ==
  \/ Recv \/ InsertRow \/ InsertFts \/ InsertTag \/ RetainDone
  \/ Forget \/ UpdateAccess \/ Fail \/ Reply

Next ==
  \/ \E c \in Calls : Invoke(c) \/ Send(c) \/ Cancel(c)
  \/ WriterStep
  \/ \E m \in Memories : BackgroundFact(m)
  \/ Crash

Spec == Init /\ [][Next]_vars

(* The runtime polls the writer task as long as it has work, and a sender  *)
(* waiting for room gets it: the semaphore of the channel is first-come,   *)
(* first-served.                                                           *)
Fairness ==
  /\ WF_vars(WriterStep)
  /\ \A c \in Calls : SF_vars(Send(c))

-----------------------------------------------------------------------------
TypeOK ==
  /\ phase \in [Calls -> {"idle", "sending", "waiting", "cancelled", "ok",
                          "err", "dead"}]
  /\ op \in [Calls -> WriteOp \cup {NoOp}]
  /\ made \in [Calls -> Memories \cup {None}]
  /\ queue \in Seq(Calls)
  /\ Len(queue) <= QueueDepth
  /\ writer \in [call : Calls \cup {None},
                 step : {"recv", "begin", "fts", "tags", "ok", "err"},
                 left : SUBSET Tags]
  /\ rows \in SUBSET Memories
  /\ fts \in SUBSET Memories
  /\ tagRows \in SUBSET (Memories \X Tags)
  /\ current \in SUBSET Memories
  /\ faults \in 0..MaxFaults
  /\ crashes \in 0..MaxCrashes

(* A caller that was told Ok by retain has its row and every one of its    *)
(* tags in the database, whatever failed, was cancelled or crashed around  *)
(* it, then and for good (sqlite.rs retain and do_retain).                 *)
AckedIsStored ==
  \A c \in Calls :
    (phase[c] = "ok" /\ op[c].kind = "retain") =>
      /\ made[c] \in rows
      /\ \A t \in op[c].tags : <<made[c], t>> \in tagRows

(* No row belongs to two calls, and every row belongs to one: a call that  *)
(* was cancelled, lost in a crash or failed is never executed twice.       *)
OneRowPerCall ==
  /\ \A c, d \in Calls : made[c] = made[d] /\ c # d => made[c] = None
  /\ \A m \in rows : \E c \in Calls : made[c] = m /\ op[c].kind = "retain"

(* Every call whose caller waits is answered, unless the caller leaves or  *)
(* the process dies: the bounded channel never wedges.                     *)
EveryCallIsAnswered ==
  \A c \in Calls :
    phase[c] \in {"sending", "waiting"} ~> phase[c] \notin {"sending", "waiting"}

(* An operation whose caller has left is not dropped from the channel: the *)
(* writer runs it all the same, unless the process dies first.             *)
InChannel(c) == \E i \in DOMAIN queue : queue[i] = c

CancelledStillRuns ==
  \A c \in Calls :
    (phase[c] = "cancelled" /\ InChannel(c))
      ~> (writer.call = c \/ phase[c] = "dead")

-----------------------------------------------------------------------------
(* The writer's unfinished retain is the only thing the tables show that   *)
(* the abstract store does not: hiding it maps every step of the queue to  *)
(* a step of SerialStore or to a stutter.                                  *)

Decided == writer.step \in {"ok", "err"}

Unfinished ==
  IF writer.call = None \/ Decided THEN {} ELSE {made[writer.call]} \ {None}

AbsStatus ==
  [c \in Calls |->
     CASE phase[c] \in {"sending", "waiting"} -> "open"
       [] phase[c] = "cancelled" ->
            IF InChannel(c) \/ writer.call = c THEN "lost" ELSE "gone"
       [] OTHER -> phase[c]]

AbsOutcome ==
  [c \in Calls |-> IF writer.call = c /\ Decided THEN writer.step ELSE "none"]

AbsMade ==
  [c \in Calls |-> IF made[c] \in Unfinished THEN None ELSE made[c]]

Abs ==
  INSTANCE SerialStore WITH
    status  <- AbsStatus,
    outcome <- AbsOutcome,
    made    <- AbsMade,
    rows    <- rows \ Unfinished,
    tagRows <- {r \in tagRows : r[1] \notin Unfinished}

(* The queue implements the serial store: every call takes effect at most  *)
(* once, at one instant between its invocation and its answer, and the     *)
(* answer tells what the effect was.                                       *)
ImplementsSerialStore == Abs!Spec

=============================================================================
