--------------------------- MODULE WriteQueueProofs ---------------------------
(***************************************************************************)
(* Proofs about WriteQueue for any number of callers, memories and tags,   *)
(* any depth of the channel and any number of faults and crashes: its      *)
(* invariants, and that it implements SerialStore.                         *)
(***************************************************************************)
EXTENDS WriteQueue, SequenceTheorems, TLAPS

-----------------------------------------------------------------------------
(* The inductive invariant.                                                *)

(* A call is in the channel once, and not while the writer runs it.        *)
ChannelInv ==
  /\ \A i \in DOMAIN queue :
       /\ phase[queue[i]] \in {"waiting", "cancelled"}
       /\ queue[i] # writer.call
       /\ made[queue[i]] = None
  /\ \A i, j \in DOMAIN queue : queue[i] = queue[j] => i = j

(* What the writer holds: nothing, or a call that is still unanswered.     *)
WriterInv ==
  /\ writer.call = None => writer = Idle
  /\ writer.call # None =>
       /\ writer.step # "recv"
       /\ phase[writer.call] \in {"waiting", "cancelled"}
       /\ writer.step = "begin" => made[writer.call] = None

(* A call that has not been sent has made nothing; a sent one has an       *)
(* operation; a row that was made is there.                                *)
CallInv ==
  \A c \in Calls :
    /\ phase[c] \in {"idle", "sending"} => made[c] = None
    /\ phase[c] # "idle" => op[c] \in WriteOp
    /\ made[c] # None => made[c] \in rows /\ op[c].kind = "retain"
    /\ phase[c] = "idle" => op[c] = NoOp

(* The tags of a retain in progress are written or still to write.         *)
ProgressInv ==
  LET c == writer.call IN
  (c # None /\ op[c].kind = "retain") =>
    /\ writer.step \in {"fts", "tags", "ok"} => made[c] # None
    /\ writer.step \in {"fts", "tags"} =>
         \A t \in op[c].tags : t \in writer.left \/ <<made[c], t>> \in tagRows
    /\ writer.step = "ok" => \A t \in op[c].tags : <<made[c], t>> \in tagRows

(* Only a retain has more than one statement.                              *)
KindInv ==
  (writer.call # None /\ writer.step \in {"fts", "tags"}) =>
    op[writer.call].kind = "retain"

IInv ==
  /\ TypeOK
  /\ ChannelInv
  /\ WriterInv
  /\ CallInv
  /\ ProgressInv
  /\ KindInv
  /\ OneRowPerCall
  /\ AckedIsStored

-----------------------------------------------------------------------------

(* What the invariant says of the call in the writer's hands.              *)
LEMMA WriterCall ==
  ASSUME IInv, writer.call # None
  PROVE  /\ writer.call \in Calls
         /\ op[writer.call] \in WriteOp
         /\ op[writer.call].kind = "retain" => op[writer.call].tags \in SUBSET Tags
         /\ writer.step = "begin" => made[writer.call] = None
         /\ writer.step \in {"fts", "tags"} => made[writer.call] \in Memories
         /\ \A i \in DOMAIN queue : queue[i] # writer.call
<1>1. writer.call \in Calls /\ phase[writer.call] \in {"waiting", "cancelled"}
  BY DEF IInv, TypeOK, WriterInv
<1>2. op[writer.call] \in WriteOp
  BY <1>1 DEF IInv, CallInv
<1>3. op[writer.call].kind = "retain" => op[writer.call].tags \in SUBSET Tags
  BY <1>2 DEF WriteOp
<1>4. writer.step \in {"fts", "tags"} => made[writer.call] \in Memories
  BY <1>1 DEF IInv, TypeOK, ProgressInv, KindInv
<1> QED
  BY <1>1, <1>2, <1>3, <1>4 DEF IInv, WriterInv, ChannelInv

(* The first state.                                                        *)
LEMMA InitIInv == Init => IInv
<1> SUFFICES ASSUME Init PROVE IInv
  OBVIOUS
<1> USE QueueAssumption DEF Init, Idle, NoOp
<1>1. TypeOK
  BY DEF TypeOK
<1>2. ChannelInv /\ WriterInv /\ CallInv /\ ProgressInv /\ KindInv
  BY DEF ChannelInv, WriterInv, CallInv, ProgressInv, KindInv
<1>3. OneRowPerCall /\ AckedIsStored
  BY DEF OneRowPerCall, AckedIsStored
<1> QED
  BY <1>1, <1>2, <1>3 DEF IInv

(* A caller starts a call.                                                 *)
LEMMA InvokeIInv ==
  ASSUME IInv, NEW c \in Calls, Invoke(c) PROVE IInv'
<1> USE DEF Invoke, callers, tables
<1>1. TypeOK'
  BY DEF IInv, TypeOK
<1>2. ChannelInv'
  BY DEF IInv, TypeOK, ChannelInv
<1>3. WriterInv' /\ ProgressInv' /\ KindInv'
  <2>1. writer.call # None =>
          /\ writer.call \in Calls /\ writer.call # c
          /\ op'[writer.call] = op[writer.call]
          /\ phase'[writer.call] = phase[writer.call]
    BY DEF IInv, TypeOK, WriterInv
  <2>2. WriterInv'
    BY <2>1 DEF IInv, WriterInv, Idle
  <2>3. ProgressInv' /\ KindInv'
    BY <2>1 DEF IInv, ProgressInv, KindInv
  <2> QED
    BY <2>2, <2>3
<1>4. CallInv'
  BY DEF IInv, TypeOK, CallInv
<1>5. OneRowPerCall'
  <2>1. made[c] = None /\ \A d \in Calls : d # c => op'[d] = op[d]
    BY DEF IInv, TypeOK, CallInv
  <2>2. \A m \in rows : m # None
    BY QueueAssumption DEF IInv, TypeOK
  <2> QED
    BY <2>1, <2>2 DEF IInv, OneRowPerCall
<1>6. AckedIsStored'
  BY DEF IInv, TypeOK, AckedIsStored
<1> QED
  BY <1>1, <1>2, <1>3, <1>4, <1>5, <1>6 DEF IInv

(* An operation enters the channel at its end.                             *)
LEMMA SendIInv ==
  ASSUME IInv, NEW c \in Calls, Send(c) PROVE IInv'
<1> USE DEF Send, callers, tables
<1>1. /\ queue \in Seq(Calls)
      /\ queue' = Append(queue, c)
      /\ Len(queue') = Len(queue) + 1
      /\ queue' \in Seq(Calls)
      /\ \A i \in 1..Len(queue) : queue'[i] = queue[i] /\ queue[i] \in Calls
      /\ queue'[Len(queue) + 1] = c
      /\ Len(queue) \in Nat
  BY DEF IInv, TypeOK
<1>2. TypeOK'
  BY <1>1, QueueAssumption DEF IInv, TypeOK
<1>3. \A i \in 1..Len(queue) : queue[i] # c
  BY <1>1 DEF IInv, ChannelInv
<1>4. writer.call # c
  BY QueueAssumption DEF IInv, WriterInv
<1>5. made[c] = None
  BY DEF IInv, CallInv
<1>6. ChannelInv'
  <2>1. DOMAIN queue = 1..Len(queue) /\ DOMAIN queue' = 1..(Len(queue) + 1)
    BY <1>1
  <2>2. ASSUME NEW i \in DOMAIN queue'
        PROVE  /\ phase'[queue'[i]] \in {"waiting", "cancelled"}
               /\ queue'[i] # writer'.call
               /\ made'[queue'[i]] = None
    <3>1. CASE i = Len(queue) + 1
      BY <1>1, <1>4, <1>5, <3>1 DEF IInv, TypeOK
    <3>2. CASE i \in 1..Len(queue)
      BY <1>1, <1>3, <2>1, <3>2 DEF IInv, TypeOK, ChannelInv
    <3> QED
      BY <1>1, <2>1, <3>1, <3>2
  <2>3. ASSUME NEW i \in DOMAIN queue', NEW j \in DOMAIN queue', queue'[i] = queue'[j]
        PROVE  i = j
    BY <1>1, <1>3, <2>1, <2>3 DEF IInv, ChannelInv
  <2> QED
    BY <2>2, <2>3 DEF ChannelInv
<1>7. WriterInv' /\ ProgressInv' /\ KindInv' /\ CallInv'
  BY <1>4 DEF IInv, TypeOK, WriterInv, ProgressInv, KindInv, CallInv, Idle
<1>8. OneRowPerCall' /\ AckedIsStored'
  BY DEF IInv, TypeOK, OneRowPerCall, AckedIsStored
<1> QED
  BY <1>2, <1>6, <1>7, <1>8 DEF IInv

(* A caller leaves.                                                        *)
LEMMA CancelIInv ==
  ASSUME IInv, NEW c \in Calls, Cancel(c) PROVE IInv'
<1> USE DEF Cancel, callers, tables
<1>1. TypeOK'
  BY DEF IInv, TypeOK
<1>2. ChannelInv'
  BY DEF IInv, TypeOK, ChannelInv
<1>3. WriterInv' /\ ProgressInv' /\ KindInv' /\ CallInv'
  BY DEF IInv, TypeOK, WriterInv, ProgressInv, KindInv, CallInv, Idle
<1>4. OneRowPerCall' /\ AckedIsStored'
  BY DEF IInv, TypeOK, OneRowPerCall, AckedIsStored
<1> QED
  BY <1>1, <1>2, <1>3, <1>4 DEF IInv

(* The writer takes the head of the channel.                               *)
LEMMA RecvIInv ==
  ASSUME IInv, Recv PROVE IInv'
<1> USE DEF Recv, callers, tables
<1>1. /\ queue \in Seq(Calls) /\ queue # <<>>
      /\ queue' = Tail(queue)
      /\ Len(queue') = Len(queue) - 1
      /\ queue' \in Seq(Calls)
      /\ Head(queue) = queue[1] /\ queue[1] \in Calls
      /\ Len(queue) \in Nat /\ Len(queue) > 0
      /\ \A i \in 1..(Len(queue) - 1) : queue'[i] = queue[i + 1]
  BY DEF IInv, TypeOK
<1>2. TypeOK'
  BY <1>1, QueueAssumption DEF IInv, TypeOK
<1>3. writer'.call = queue[1] /\ writer'.step = "begin"
  BY <1>1
<1>4. ChannelInv'
  <2>1. DOMAIN queue = 1..Len(queue) /\ DOMAIN queue' = 1..(Len(queue) - 1)
    BY <1>1
  <2>2. ASSUME NEW i \in DOMAIN queue'
        PROVE  /\ phase'[queue'[i]] \in {"waiting", "cancelled"}
               /\ queue'[i] # writer'.call
               /\ made'[queue'[i]] = None
    BY <1>1, <1>3, <2>1 DEF IInv, ChannelInv
  <2>3. ASSUME NEW i \in DOMAIN queue', NEW j \in DOMAIN queue', queue'[i] = queue'[j]
        PROVE  i = j
    BY <1>1, <2>1, <2>3 DEF IInv, ChannelInv
  <2> QED
    BY <2>2, <2>3 DEF ChannelInv
<1>5. 1 \in DOMAIN queue
  BY <1>1
<1>6. WriterInv'
  BY <1>1, <1>3, <1>5, QueueAssumption DEF IInv, ChannelInv, WriterInv
<1>7. ProgressInv' /\ KindInv' /\ CallInv'
  BY <1>3 DEF IInv, ProgressInv, KindInv, CallInv
<1>8. OneRowPerCall' /\ AckedIsStored'
  BY DEF IInv, OneRowPerCall, AckedIsStored
<1> QED
  BY <1>2, <1>4, <1>6, <1>7, <1>8 DEF IInv

(* do_retain: the INSERT of the row, with a fresh id.                      *)
LEMMA InsertRowIInv ==
  ASSUME IInv, InsertRow PROVE IInv'
<1> DEFINE c == writer.call
<1>1. /\ c \in Calls /\ c # None /\ writer.step = "begin"
      /\ op[c] \in WriteOp /\ op[c].kind = "retain" /\ op[c].tags \in SUBSET Tags
      /\ made[c] = None
      /\ \A i \in DOMAIN queue : queue[i] # c
      /\ phase[c] \in {"waiting", "cancelled"}
  BY WriterCall DEF InsertRow, At, IInv, WriterInv
<1>2. PICK m \in Memories \ rows :
         rows' = rows \cup {m} /\ made' = [made EXCEPT ![c] = m]
  BY DEF InsertRow
<1>3. /\ writer'.call = c /\ writer'.step = "fts" /\ writer'.left = op[c].tags
      /\ writer' \in [call : Calls \cup {None},
                      step : {"recv", "begin", "fts", "tags", "ok", "err"},
                      left : SUBSET Tags]
  BY <1>1 DEF InsertRow, IInv, TypeOK
<1>4. UNCHANGED <<phase, op, queue, fts, tagRows, current, faults, crashes>>
  BY DEF InsertRow, callers
<1>5. TypeOK'
  BY <1>1, <1>2, <1>3, <1>4 DEF IInv, TypeOK
<1>6. /\ made'[c] = m /\ m # None
      /\ \A d \in Calls : d # c => made'[d] = made[d]
      /\ \A d \in Calls : made[d] # m
  BY <1>1, <1>2, QueueAssumption DEF IInv, TypeOK, CallInv
<1>7. ChannelInv'
  <2>1. \A i \in DOMAIN queue : queue[i] \in Calls
    BY DEF IInv, TypeOK
  <2> QED
    BY <1>1, <1>3, <1>4, <1>6, <2>1 DEF IInv, ChannelInv
<1>8. WriterInv' /\ ProgressInv' /\ KindInv'
  <2>1. WriterInv'
    BY <1>1, <1>3, <1>4 DEF WriterInv
  <2>2. ProgressInv'
    BY <1>1, <1>3, <1>4, <1>6 DEF ProgressInv
  <2>3. KindInv'
    BY <1>1, <1>3, <1>4 DEF KindInv
  <2> QED
    BY <2>1, <2>2, <2>3
<1>9. CallInv'
  BY <1>1, <1>2, <1>4, <1>6 DEF IInv, CallInv
<1>10. OneRowPerCall'
  <2>1. \A d, e \in Calls : made'[d] = made'[e] /\ d # e => made'[d] = None
    BY <1>1, <1>6 DEF IInv, OneRowPerCall
  <2>2. \A n \in rows : \E d \in Calls : made'[d] = n /\ op'[d].kind = "retain"
    BY <1>1, <1>4, <1>6, QueueAssumption DEF IInv, TypeOK, OneRowPerCall
  <2>3. made'[c] = m /\ op'[c].kind = "retain"
    BY <1>1, <1>4, <1>6
  <2> QED
    BY <1>1, <1>2, <2>1, <2>2, <2>3 DEF OneRowPerCall
<1>11. AckedIsStored'
  BY <1>1, <1>2, <1>4, <1>6 DEF IInv, AckedIsStored
<1> QED
  BY <1>5, <1>7, <1>8, <1>9, <1>10, <1>11 DEF IInv

(* do_retain: the row of the full-text index.                              *)
LEMMA InsertFtsIInv ==
  ASSUME IInv, InsertFts PROVE IInv'
<1>1. /\ writer.call \in Calls /\ writer.call # None /\ writer.step = "fts"
      /\ made[writer.call] \in Memories
  BY WriterCall DEF InsertFts, At
<1>2. /\ writer'.call = writer.call /\ writer'.step = "tags"
      /\ writer'.left = writer.left
      /\ writer' \in [call : Calls \cup {None},
                      step : {"recv", "begin", "fts", "tags", "ok", "err"},
                      left : SUBSET Tags]
  BY <1>1 DEF InsertFts, Goto, IInv, TypeOK
<1>3. UNCHANGED <<phase, op, made, queue, rows, tagRows, current, faults, crashes>>
  BY DEF InsertFts, callers
<1>4. TypeOK'
  BY <1>1, <1>2, <1>3 DEF InsertFts, IInv, TypeOK
<1>5. ChannelInv' /\ WriterInv' /\ CallInv' /\ ProgressInv' /\ KindInv'
  BY <1>1, <1>2, <1>3
     DEF IInv, ChannelInv, WriterInv, CallInv, ProgressInv, KindInv
<1>6. OneRowPerCall' /\ AckedIsStored'
  BY <1>3 DEF IInv, OneRowPerCall, AckedIsStored
<1> QED
  BY <1>4, <1>5, <1>6 DEF IInv

(* do_retain: the row of one tag.                                          *)
LEMMA InsertTagIInv ==
  ASSUME IInv, InsertTag PROVE IInv'
<1> DEFINE c == writer.call
<1>1. /\ c \in Calls /\ c # None /\ writer.step = "tags"
      /\ made[c] \in Memories
  BY WriterCall DEF InsertTag, At
<1>2. PICK t \in writer.left :
         /\ tagRows' = tagRows \cup {<<made[c], t>>}
         /\ writer' = [writer EXCEPT !.left = @ \ {t}]
  BY DEF InsertTag
<1>3. /\ writer'.call = c /\ writer'.step = "tags"
      /\ writer'.left = writer.left \ {t} /\ t \in Tags
      /\ writer' \in [call : Calls \cup {None},
                      step : {"recv", "begin", "fts", "tags", "ok", "err"},
                      left : SUBSET Tags]
  BY <1>1, <1>2 DEF IInv, TypeOK
<1>4. UNCHANGED <<phase, op, made, queue, rows, fts, current, faults, crashes>>
  BY DEF InsertTag, callers
<1>5. TypeOK'
  BY <1>1, <1>2, <1>3, <1>4 DEF IInv, TypeOK
<1>6. ChannelInv' /\ WriterInv' /\ CallInv' /\ KindInv'
  BY <1>1, <1>3, <1>4 DEF IInv, ChannelInv, WriterInv, CallInv, KindInv
<1>7. ProgressInv'
  BY <1>1, <1>2, <1>3, <1>4 DEF IInv, ProgressInv
<1>8. OneRowPerCall' /\ AckedIsStored'
  BY <1>2, <1>4 DEF IInv, OneRowPerCall, AckedIsStored
<1> QED
  BY <1>5, <1>6, <1>7, <1>8 DEF IInv

(* The handler of the writer decides the result without touching rows.     *)
LEMMA DecideIInv ==
  ASSUME IInv,
         RetainDone \/ Forget \/ UpdateAccess \/ Fail
  PROVE  IInv'
<1> DEFINE c == writer.call
<1>1. /\ c \in Calls /\ c # None /\ writer.step \in {"begin", "tags"}
      /\ op[c] \in WriteOp
  BY WriterCall
     DEF RetainDone, Forget, UpdateAccess, Fail, At, StatementFails
<1>2. /\ writer'.call = c /\ writer'.left = writer.left
      /\ \/ writer'.step = "err"
         \/ writer'.step = "ok" /\ op[c].kind # "retain"
         \/ writer'.step = "ok" /\ writer.step = "tags" /\ writer.left = {}
      /\ writer' \in [call : Calls \cup {None},
                      step : {"recv", "begin", "fts", "tags", "ok", "err"},
                      left : SUBSET Tags]
  BY <1>1 DEF RetainDone, Forget, UpdateAccess, Fail, Goto, StatementFails, At,
              IInv, TypeOK
<1>3. UNCHANGED <<phase, op, made, queue, rows, fts, tagRows, crashes>>
  BY DEF RetainDone, Forget, UpdateAccess, Fail, callers, tables
<1>4. faults' \in 0..MaxFaults /\ current' \in SUBSET Memories
  BY QueueAssumption DEF RetainDone, Forget, UpdateAccess, Fail, StatementFails,
     tables, IInv, TypeOK
<1>5. TypeOK'
  BY <1>2, <1>3, <1>4 DEF IInv, TypeOK
<1>6. ChannelInv' /\ WriterInv' /\ CallInv' /\ KindInv'
  BY <1>1, <1>2, <1>3 DEF IInv, ChannelInv, WriterInv, CallInv, KindInv
<1>7. ProgressInv'
  BY <1>1, <1>2, <1>3 DEF IInv, ProgressInv
<1>8. OneRowPerCall' /\ AckedIsStored'
  BY <1>3 DEF IInv, OneRowPerCall, AckedIsStored
<1> QED
  BY <1>5, <1>6, <1>7, <1>8 DEF IInv

(* The answer reaches the caller, if it is still there.                    *)
LEMMA ReplyIInv ==
  ASSUME IInv, Reply PROVE IInv'
<1> DEFINE c == writer.call
<1>1. /\ c \in Calls /\ c # None /\ writer.step \in {"ok", "err"}
      /\ \A i \in DOMAIN queue : queue[i] # c
  BY WriterCall DEF Reply, At
<1>2. UNCHANGED <<op, made, queue, rows, fts, tagRows, current, faults, crashes>>
  BY DEF Reply, tables
<1>3. writer' = Idle
  BY DEF Reply
<1>4. /\ phase' \in [Calls -> {"idle", "sending", "waiting", "cancelled", "ok",
                              "err", "dead"}]
      /\ \A d \in Calls : d # c => phase'[d] = phase[d]
      /\ phase'[c] \in {phase[c], writer.step}
      /\ phase[c] \in {"waiting", "cancelled"}
  BY <1>1 DEF Reply, IInv, TypeOK, WriterInv
<1>5. TypeOK'
  BY <1>2, <1>3, <1>4 DEF IInv, TypeOK, Idle
<1>6. ChannelInv'
  <2>1. \A i \in DOMAIN queue : queue[i] \in Calls /\ queue[i] # None
    BY QueueAssumption DEF IInv, TypeOK
  <2> QED
    BY <1>1, <1>2, <1>3, <1>4, <2>1 DEF IInv, ChannelInv, Idle
<1>7. WriterInv' /\ ProgressInv' /\ KindInv'
  BY <1>3 DEF WriterInv, ProgressInv, KindInv, Idle
<1>8. CallInv'
  BY <1>1, <1>2, <1>4 DEF IInv, CallInv
<1>9. OneRowPerCall'
  BY <1>2 DEF IInv, OneRowPerCall
<1>10. AckedIsStored'
  <2>1. phase'[c] = "ok" => writer.step = "ok"
    BY <1>4
  <2>2. (phase'[c] = "ok" /\ op[c].kind = "retain") =>
          made[c] \in rows /\ \A t \in op[c].tags : <<made[c], t>> \in tagRows
    BY <1>1, <2>1 DEF IInv, ProgressInv, CallInv
  <2> QED
    BY <1>2, <1>4, <2>2 DEF IInv, AckedIsStored
<1> QED
  BY <1>5, <1>6, <1>7, <1>8, <1>9, <1>10 DEF IInv

(* The process dies and starts again.                                      *)
LEMMA CrashIInv ==
  ASSUME IInv, Crash PROVE IInv'
<1>1. /\ UNCHANGED <<op, made, rows, fts, tagRows, current, faults>>
      /\ queue' = <<>> /\ writer' = Idle
      /\ crashes' \in 0..MaxCrashes
  BY QueueAssumption DEF Crash, tables, IInv, TypeOK
<1>2. /\ phase' \in [Calls -> {"idle", "sending", "waiting", "cancelled", "ok",
                              "err", "dead"}]
      /\ \A c \in Calls :
           phase'[c] = phase[c] \/ (phase'[c] = "dead" /\ phase[c] # "idle")
  <2>1. phase' = [c \in Calls |-> IF phase[c] \in {"sending", "waiting", "cancelled"}
                                 THEN "dead" ELSE phase[c]]
    BY DEF Crash
  <2>2. \A c \in Calls : phase[c] \in {"idle", "sending", "waiting", "cancelled",
                                       "ok", "err", "dead"}
    BY DEF IInv, TypeOK
  <2>3. \A c \in Calls : phase'[c] = IF phase[c] \in {"sending", "waiting", "cancelled"}
                                    THEN "dead" ELSE phase[c]
    BY <2>1
  <2>4. \A c \in Calls :
          /\ phase'[c] \in {"idle", "sending", "waiting", "cancelled", "ok", "err", "dead"}
          /\ phase'[c] = phase[c] \/ (phase'[c] = "dead" /\ phase[c] # "idle")
    BY <2>2, <2>3
  <2>5. phase' \in [Calls -> {"idle", "sending", "waiting", "cancelled", "ok",
                              "err", "dead"}]
    BY <2>1, <2>3, <2>4, Zenon
  <2> QED
    BY <2>4, <2>5
<1>3. TypeOK'
  BY <1>1, <1>2, QueueAssumption DEF IInv, TypeOK, Idle
<1>4. ChannelInv' /\ WriterInv' /\ ProgressInv' /\ KindInv'
  BY <1>1 DEF ChannelInv, WriterInv, ProgressInv, KindInv, Idle
<1>5. CallInv'
  BY <1>1, <1>2 DEF IInv, TypeOK, CallInv
<1>6. OneRowPerCall' /\ AckedIsStored'
  BY <1>1, <1>2 DEF IInv, OneRowPerCall, AckedIsStored
<1> QED
  BY <1>3, <1>4, <1>5, <1>6 DEF IInv

LEMMA StutterIInv ==
  ASSUME IInv, UNCHANGED vars PROVE IInv'
BY DEF IInv, vars, TypeOK, ChannelInv, WriterInv, CallInv, ProgressInv, KindInv,
       OneRowPerCall, AckedIsStored

(* A background task adds a fact.                                          *)
LEMMA BackgroundIInv ==
  ASSUME IInv, NEW m \in Memories, BackgroundFact(m) PROVE IInv'
<1> USE DEF BackgroundFact, callers
<1>1. TypeOK'
  BY DEF IInv, TypeOK
<1>2. ChannelInv' /\ WriterInv' /\ CallInv' /\ ProgressInv' /\ KindInv'
  BY DEF IInv, ChannelInv, WriterInv, CallInv, ProgressInv, KindInv
<1>3. OneRowPerCall' /\ AckedIsStored'
  BY DEF IInv, OneRowPerCall, AckedIsStored
<1> QED
  BY <1>1, <1>2, <1>3 DEF IInv

LEMMA NextIInv == IInv /\ [Next]_vars => IInv'
BY InvokeIInv, SendIInv, CancelIInv, RecvIInv, InsertRowIInv, InsertFtsIInv,
   InsertTagIInv, DecideIInv, ReplyIInv, CrashIInv, StutterIInv, BackgroundIInv
   DEF Next, WriterStep

LEMMA Invariance == Spec => []IInv
<1> QED
  BY InitIInv, NextIInv, PTL DEF Spec

-----------------------------------------------------------------------------
(* The theorems.                                                           *)

(* Type correctness of the write queue.                                    *)
THEOREM WriteQueueTypes == Spec => []TypeOK
<1>1. IInv => TypeOK
  BY DEF IInv
<1> QED
  BY Invariance, <1>1, PTL

(* An Ok answer to retain means the row and all its tags are stored, for   *)
(* good: no fault, cancellation or crash takes an acknowledged retain back.*)
THEOREM AckedRetainIsStored == Spec => []AckedIsStored
<1>1. IInv => AckedIsStored
  BY DEF IInv
<1> QED
  BY Invariance, <1>1, PTL

(* No call of the queue is executed twice, and no row appears by itself.   *)
THEOREM CallsExecuteOnce == Spec => []OneRowPerCall
<1>1. IInv => OneRowPerCall
  BY DEF IInv
<1> QED
  BY Invariance, <1>1, PTL

-----------------------------------------------------------------------------
(* The refinement of SerialStore.                                          *)

(* The tags of a retain in progress are among those it was asked for, each *)
(* written or still to write but not both, and no tag lacks its row.       *)
TagsInv ==
  /\ \A r \in tagRows : r[1] \in rows
  /\ writer.call # None /\ writer.step \in {"fts", "tags"} =>
       /\ writer.left \subseteq op[writer.call].tags
       /\ \A t \in Tags : <<made[writer.call], t>> \in tagRows =>
            t \in op[writer.call].tags /\ t \notin writer.left

RInv == IInv /\ TagsInv

LEMMA TagsStep == RInv /\ [Next]_vars => TagsInv'
<1> SUFFICES ASSUME RInv, [Next]_vars PROVE TagsInv'
  OBVIOUS
<1> USE DEF RInv, callers, tables
<1>i. IInv
  OBVIOUS
<1>1. ASSUME UNCHANGED <<rows, tagRows>>,
             writer'.call # None /\ writer'.step \in {"fts", "tags"} =>
               /\ writer.call = writer'.call /\ writer.step \in {"fts", "tags"} /\ writer'.left = writer.left
               /\ op'[writer.call] = op[writer.call] /\ made'[writer.call] = made[writer.call]
      PROVE  TagsInv'
  BY <1>1 DEF TagsInv
<1>2. ASSUME NEW c \in Calls, Invoke(c) PROVE TagsInv'
  <2>1. writer.call # None => writer.call # c
    BY <1>2 DEF Invoke, IInv, WriterInv
  <2>2. writer.call # None => op'[writer.call] = op[writer.call]
    BY <1>2, <2>1 DEF Invoke, IInv, TypeOK
  <2> QED BY <1>1, <1>2, <2>2 DEF Invoke
<1>3. ASSUME NEW c \in Calls, Send(c) \/ Cancel(c) PROVE TagsInv'
  BY <1>1, <1>3 DEF Send, Cancel
<1>4. CASE Recv
  BY <1>1, <1>4 DEF Recv
<1>5. CASE InsertRow
  <2>1. PICK m \in Memories \ rows : rows' = rows \cup {m} /\ made' = [made EXCEPT ![writer.call] = m]
    BY <1>5 DEF InsertRow
  <2>2. writer.call \in Calls /\ tagRows' = tagRows /\ op' = op
        /\ writer' = [writer EXCEPT !.step = "fts", !.left = op[writer.call].tags]
    BY <1>5, WriterCall DEF InsertRow, At
  <2>3. writer'.call = writer.call /\ writer'.left = op[writer.call].tags /\ made'[writer.call] = m
    BY <2>1, <2>2 DEF IInv, TypeOK
  <2>4. \A t : <<m, t>> \notin tagRows
    BY <2>1 DEF TagsInv
  <2> QED BY <2>1, <2>2, <2>3, <2>4 DEF TagsInv
<1>6. CASE InsertFts
  <2>1. writer'.call = writer.call /\ writer'.left = writer.left
    BY <1>6 DEF InsertFts, Goto, IInv, TypeOK
  <2> QED BY <1>1, <1>6, <2>1 DEF InsertFts, At
<1>7. CASE InsertTag
  <2>1. PICK t \in writer.left : tagRows' = tagRows \cup {<<made[writer.call], t>>}
                                 /\ writer' = [writer EXCEPT !.left = @ \ {t}]
    BY <1>7 DEF InsertTag
  <2>2. writer'.call = writer.call /\ writer'.step = "tags" /\ writer.step = "tags"
        /\ writer'.left = writer.left \ {t}
    BY <1>7, <2>1 DEF InsertTag, At, IInv, TypeOK
  <2>3. writer.call # None /\ UNCHANGED <<made, op, rows>>
    BY <1>7 DEF InsertTag, At
  <2>4. made[writer.call] \in rows
    <3>1. made[writer.call] \in Memories /\ writer.call \in Calls
      BY <2>2, <2>3, WriterCall
    <3> QED BY <3>1, QueueAssumption DEF IInv, CallInv
  <2> QED BY <2>1, <2>2, <2>3, <2>4 DEF TagsInv
<1>8. CASE RetainDone \/ Forget \/ UpdateAccess \/ Fail
  <2>1. writer'.step \in {"ok", "err"}
    BY <1>8 DEF RetainDone, Forget, UpdateAccess, Fail, StatementFails, Goto, IInv, TypeOK
  <2> QED BY <1>1, <1>8, <2>1 DEF RetainDone, Forget, UpdateAccess, Fail
<1>9. CASE Reply \/ Crash
  BY <1>1, <1>9 DEF Reply, Crash, Idle
<1>10. ASSUME NEW m \in Memories, BackgroundFact(m) PROVE TagsInv'
  BY <1>1, <1>10 DEF BackgroundFact
<1>11. CASE UNCHANGED vars
  BY <1>1, <1>11 DEF vars
<1> QED
  BY <1>2, <1>3, <1>4, <1>5, <1>6, <1>7, <1>8, <1>9, <1>10, <1>11 DEF Next, WriterStep

AbsRows == rows \ Unfinished
AbsTags == {r \in tagRows : r[1] \notin Unfinished}
absVars == <<AbsStatus, op, AbsOutcome, AbsMade, AbsRows, AbsTags, current>>

(* The call in the writer's hands and what it hides.                       *)
LEMMA Hidden ==
  ASSUME RInv
  PROVE  /\ writer.call = None \/ writer.step \in {"begin", "ok", "err"} => Unfinished = {}
         /\ writer.call # None /\ writer.step \in {"fts", "tags"} =>
              /\ Unfinished = {made[writer.call]}
              /\ made[writer.call] \in rows
              /\ \A d \in Calls : made[d] = made[writer.call] => d = writer.call
<1> USE DEF RInv
<1>1. CASE writer.call = None \/ writer.step \in {"ok", "err"}
  <2>1. Unfinished = {}
    BY <1>1 DEF Unfinished, Decided
  <2> QED BY <1>1, <2>1
<1>2. CASE writer.call # None /\ writer.step = "begin"
  <2>1. Unfinished = {}
    BY <1>2, WriterCall DEF Unfinished, Decided
  <2> QED BY <1>2, <2>1
<1>3. CASE writer.call # None /\ writer.step \in {"fts", "tags"}
  <2>1. writer.call \in Calls /\ made[writer.call] \in Memories
    BY <1>3, WriterCall
  <2>2. made[writer.call] # None
    BY <2>1, QueueAssumption
  <2>3. Unfinished = {made[writer.call]}
    BY <1>3, <2>2 DEF Unfinished, Decided
  <2>4. made[writer.call] \in rows
    BY <2>1, <2>2 DEF IInv, CallInv
  <2>5. \A d \in Calls : made[d] = made[writer.call] => d = writer.call
    BY <2>1, <2>2 DEF IInv, OneRowPerCall
  <2> QED BY <1>3, <2>3, <2>4, <2>5
<1> QED BY <1>1, <1>2, <1>3 DEF IInv, TypeOK, WriterInv

LEMMA SameOperations == Abs!Operation = WriteOp /\ Abs!NoOp = NoOp
BY DEF Abs!Operation, Abs!NoOp, WriteOp, NoOp

LEMMA InitAbs == Init => Abs!Init
<1> SUFFICES ASSUME Init PROVE Abs!Init
  OBVIOUS
<1> USE DEF Init, Idle
<1>1. Unfinished = {}
  BY DEF Unfinished
<1>2. AbsStatus = [c \in Calls |-> "idle"]
  BY DEF AbsStatus
<1>3. AbsOutcome = [c \in Calls |-> "none"]
  BY DEF AbsOutcome, Decided
<1>4. AbsMade = [c \in Calls |-> None]
  BY <1>1 DEF AbsMade
<1> QED BY <1>1, <1>2, <1>3, <1>4, SameOperations DEF Abs!Init

(* Two steps of which the store sees nothing but a call that starts or one *)
(* that is given up: what is hidden stays hidden.                          *)
LEMMA SameOutcome ==
  ASSUME RInv, UNCHANGED <<made, writer, rows, tagRows>>
  PROVE  UNCHANGED <<AbsOutcome, AbsMade, AbsRows, AbsTags>>
<1>1. Unfinished' = Unfinished
  BY DEF Unfinished, Decided
<1> QED BY <1>1 DEF AbsOutcome, AbsMade, AbsRows, AbsTags, Decided

(* AbsStatus is a function over the calls.                                 *)
LEMMA StatusChanges ==
  ASSUME NEW c \in Calls, NEW v,
         \A d \in Calls : AbsStatus'[d] = IF d = c THEN v ELSE AbsStatus[d]
  PROVE  AbsStatus' = [AbsStatus EXCEPT ![c] = v]
<1>1. /\ AbsStatus = [d \in Calls |-> AbsStatus[d]]
      /\ AbsStatus' = [d \in Calls |-> AbsStatus'[d]]
  BY DEF AbsStatus
<1> QED BY <1>1

LEMMA InvokeAbs ==
  ASSUME RInv, NEW c \in Calls, Invoke(c) PROVE Abs!Invoke(c)
<1> USE DEF Invoke, RInv, tables
<1>1. UNCHANGED <<AbsOutcome, AbsMade, AbsRows, AbsTags, current>>
  BY SameOutcome
<1>2. AbsStatus[c] = "idle"
  BY DEF AbsStatus
<1>3. AbsStatus' = [AbsStatus EXCEPT ![c] = "open"]
  <2>1. phase \in [Calls -> {"idle", "sending", "waiting", "cancelled", "ok", "err", "dead"}]
    BY DEF IInv, TypeOK
  <2>2. \A d \in Calls : phase'[d] = IF d = c THEN "sending" ELSE phase[d]
    BY <2>1
  <2>3. \A d \in Calls : InChannel(d)' = InChannel(d)
    BY DEF InChannel
  <2>4. \A d \in Calls : AbsStatus'[d] = IF d = c THEN "open" ELSE AbsStatus[d]
    BY <2>2, <2>3 DEF AbsStatus
  <2> QED BY <2>4, StatusChanges
<1>4. \E o \in Abs!Operation : op' = [op EXCEPT ![c] = o]
  BY SameOperations
<1> QED BY <1>1, <1>2, <1>3, <1>4 DEF Abs!Invoke, AbsRows, AbsTags

LEMMA CancelAbs ==
  ASSUME RInv, NEW c \in Calls, Cancel(c) PROVE Abs!Abandon(c)
<1> USE DEF Cancel, RInv, tables
<1>1. UNCHANGED <<op, AbsOutcome, AbsMade, AbsRows, AbsTags, current>>
  BY SameOutcome
<1>2. AbsStatus[c] = "open"
  BY DEF AbsStatus
<1> DEFINE s == IF InChannel(c) \/ writer.call = c THEN "lost" ELSE "gone"
<1>3. AbsStatus' = [AbsStatus EXCEPT ![c] = s]
  <2>1. phase \in [Calls -> {"idle", "sending", "waiting", "cancelled", "ok", "err", "dead"}]
    BY DEF IInv, TypeOK
  <2>2. \A d \in Calls : phase'[d] = IF d = c THEN "cancelled" ELSE phase[d]
    BY <2>1
  <2>3. \A d \in Calls : InChannel(d)' = InChannel(d) /\ writer' = writer
    BY DEF InChannel
  <2>4. \A d \in Calls : AbsStatus'[d] = IF d = c THEN s ELSE AbsStatus[d]
    BY <2>2, <2>3 DEF AbsStatus
  <2> HIDE DEF s
  <2> QED BY <2>4, StatusChanges
<1>4. s = "gone" => AbsOutcome[c] = "none"
  BY DEF AbsOutcome
<1> QED BY <1>1, <1>2, <1>3, <1>4 DEF Abs!Abandon, AbsRows, AbsTags

LEMMA SendAbs ==
  ASSUME RInv, NEW c \in Calls, Send(c) PROVE UNCHANGED absVars
<1> USE DEF Send, RInv, tables
<1>1. UNCHANGED <<op, AbsOutcome, AbsMade, AbsRows, AbsTags, current>>
  BY SameOutcome
<1>2. AbsStatus' = AbsStatus
  <2>1. phase \in [Calls -> {"idle", "sending", "waiting", "cancelled", "ok", "err", "dead"}]
    BY DEF IInv, TypeOK
  <2>2. \A d \in Calls : phase'[d] = IF d = c THEN "waiting" ELSE phase[d]
    BY <2>1
  <2>3. /\ \A i \in DOMAIN queue : i \in DOMAIN queue' /\ queue'[i] = queue[i]
        /\ \A i \in DOMAIN queue' : i \in DOMAIN queue \/ queue'[i] = c
    BY DEF IInv, TypeOK
  <2>4. \A d \in Calls : d # c => InChannel(d)' = InChannel(d)
    BY <2>3 DEF InChannel
  <2> QED BY <2>2, <2>4 DEF AbsStatus
<1> QED BY <1>1, <1>2 DEF absVars

LEMMA RecvAbs ==
  ASSUME RInv, Recv PROVE UNCHANGED absVars
<1> USE DEF Recv, RInv, tables, callers
<1> DEFINE c == Head(queue)
<1>1. /\ queue \in Seq(Calls) /\ queue # <<>> /\ c = queue[1] /\ 1 \in DOMAIN queue
      /\ Len(queue) \in Nat \ {0} /\ DOMAIN queue = 1 .. Len(queue)
  BY EmptySeq DEF IInv, TypeOK
<1>2. /\ DOMAIN queue' = 1 .. Len(queue) - 1
      /\ \A i \in 1 .. Len(queue) - 1 : queue'[i] = queue[i + 1]
  BY <1>1
<1>3. c \in Calls /\ made[c] = None /\ writer' = [call |-> c, step |-> "begin", left |-> {}]
  BY <1>1 DEF IInv, ChannelInv
<1>4. Unfinished' = {} /\ Unfinished = {}
  BY <1>3 DEF Unfinished, Idle
<1>5. UNCHANGED <<op, AbsMade, AbsRows, AbsTags, current>>
  BY <1>4 DEF AbsMade, AbsRows, AbsTags
<1>6. AbsOutcome' = AbsOutcome
  BY <1>3 DEF AbsOutcome, Idle, Decided
<1>7. ASSUME NEW d \in Calls
      PROVE  (InChannel(d) \/ writer.call = d)' <=> (InChannel(d) \/ writer.call = d)
  <2>1. writer.call # d
    BY QueueAssumption DEF Idle
  <2>2. InChannel(d)' => InChannel(d)
    <3>1. \A i \in 1 .. Len(queue) - 1 : i + 1 \in DOMAIN queue
      BY <1>1
    <3> QED BY <1>2, <3>1 DEF InChannel
  <2>3. InChannel(d) /\ d # c => InChannel(d)'
    <3> SUFFICES ASSUME InChannel(d), d # c PROVE InChannel(d)'
      OBVIOUS
    <3>1. PICK i \in 1 .. Len(queue) : queue[i] = d
      BY <1>1 DEF InChannel
    <3>2. i - 1 \in 1 .. Len(queue) - 1 /\ (i - 1) + 1 = i
      BY <1>1, <3>1
    <3> QED BY <1>2, <3>1, <3>2 DEF InChannel
  <2>4. InChannel(c)
    BY <1>1 DEF InChannel
  <2> QED BY <1>3, <2>1, <2>2, <2>3, <2>4
<1>8. AbsStatus' = AbsStatus
  BY <1>7 DEF AbsStatus
<1> QED BY <1>5, <1>6, <1>8 DEF absVars

(* A step of the writer within a call.                                     *)
LEMMA SameStatus ==
  ASSUME UNCHANGED <<phase, queue>>, writer'.call = writer.call PROVE AbsStatus' = AbsStatus
BY DEF AbsStatus, InChannel

(* The statements of a retain before it is decided are not seen.           *)
LEMMA InsertRowAbs ==
  ASSUME RInv, InsertRow PROVE UNCHANGED absVars
<1> USE DEF RInv, callers
<1> DEFINE c == writer.call
<1>1. PICK m \in Memories \ rows : rows' = rows \cup {m} /\ made' = [made EXCEPT ![c] = m]
  BY DEF InsertRow
<1>2. /\ c \in Calls /\ c # None /\ made[c] = None
      /\ writer'.call = c /\ writer'.step = "fts" /\ writer.step = "begin"
      /\ UNCHANGED <<phase, queue, op, tagRows, current>>
  BY WriterCall DEF InsertRow, At, IInv, TypeOK
<1>3. \A d \in Calls : made'[d] = IF d = c THEN m ELSE made[d]
  BY <1>1 DEF IInv, TypeOK
<1>4. m # None /\ (\A d \in Calls : made[d] # m) /\ (\A r \in tagRows : r[1] # m)
  BY <1>1, QueueAssumption DEF IInv, CallInv, TagsInv
<1>5. Unfinished = {}
  BY <1>2, Hidden
<1>6. Unfinished' = {m}
  BY <1>2, <1>3, <1>4 DEF Unfinished, Decided
<1>7. AbsRows' = AbsRows /\ AbsTags' = AbsTags
  BY <1>1, <1>2, <1>4, <1>5, <1>6 DEF AbsRows, AbsTags
<1>8. AbsMade' = AbsMade
  BY <1>2, <1>3, <1>4, <1>5, <1>6 DEF AbsMade
<1>9. AbsOutcome' = AbsOutcome
  BY <1>2 DEF AbsOutcome, Decided
<1> QED BY <1>2, <1>7, <1>8, <1>9, SameStatus DEF absVars

LEMMA InsertMoreAbs ==
  ASSUME RInv, InsertFts \/ InsertTag PROVE UNCHANGED absVars
<1> USE DEF RInv, callers
<1> DEFINE c == writer.call
<1>1. /\ c # None /\ writer'.call = c /\ writer'.step = "tags" /\ writer.step \in {"fts", "tags"}
      /\ UNCHANGED <<phase, queue, op, made, rows, current>>
  BY DEF InsertFts, InsertTag, At, Goto, IInv, TypeOK
<1>2. Unfinished = {made[c]}
  BY <1>1, Hidden
<1>3. Unfinished' = Unfinished
  BY <1>1 DEF Unfinished, Decided
<1>4. tagRows' = tagRows \/ \E t : tagRows' = tagRows \cup {<<made[c], t>>}
  BY DEF InsertFts, InsertTag
<1>5. AbsTags' = AbsTags
  BY <1>2, <1>3, <1>4 DEF AbsTags
<1>6. AbsRows' = AbsRows /\ AbsMade' = AbsMade /\ AbsOutcome' = AbsOutcome
  BY <1>1, <1>3 DEF AbsRows, AbsMade, AbsOutcome, Decided
<1> QED BY <1>1, <1>5, <1>6, SameStatus DEF absVars

(* The step that decides a call is the instant at which it takes effect.   *)
LEMMA DecidingCall ==
  ASSUME RInv, RetainDone \/ Forget \/ UpdateAccess \/ Fail
  PROVE  LET c == writer.call IN
         /\ c \in Calls /\ writer'.call = c
         /\ AbsStatus[c] \in {"open", "lost"} /\ AbsStatus' = AbsStatus
         /\ AbsOutcome[c] = "none" /\ AbsOutcome' = [AbsOutcome EXCEPT ![c] = writer'.step]
         /\ writer'.step \in {"ok", "err"} /\ Unfinished' = {}
         /\ UNCHANGED <<op, made, rows, tagRows>>
<1> USE DEF RInv, callers, tables
<1> DEFINE c == writer.call
<1>1. /\ c # None /\ writer.step \in {"begin", "tags"}
      /\ writer'.call = c /\ writer'.step \in {"ok", "err"}
      /\ UNCHANGED <<phase, op, made, queue, rows, tagRows>>
  BY DEF RetainDone, Forget, UpdateAccess, Fail, StatementFails, Goto, At, IInv, TypeOK
<1>2. c \in Calls /\ phase[c] \in {"waiting", "cancelled"}
  BY <1>1 DEF IInv, TypeOK, WriterInv
<1>3. AbsStatus[c] \in {"open", "lost"}
  BY <1>2 DEF AbsStatus
<1>4. AbsStatus' = AbsStatus
  BY <1>1, SameStatus
<1>5. AbsOutcome[c] = "none" /\ AbsOutcome' = [AbsOutcome EXCEPT ![c] = writer'.step]
  BY <1>1, <1>2 DEF AbsOutcome, Decided
<1>6. Unfinished' = {}
  BY <1>1 DEF Unfinished, Decided
<1> QED BY <1>1, <1>2, <1>3, <1>4, <1>5, <1>6

(* The row of a retain and the tags it has appear in the store at once.    *)
LEMMA RowAppears ==
  ASSUME RInv, writer.call # None, writer.step \in {"fts", "tags"},
         UNCHANGED <<made, rows, tagRows, current>>, Unfinished' = {}
  PROVE  LET c == writer.call
             m == made[c]
             T == {t \in Tags : <<m, t>> \in tagRows}
         IN  /\ c \in Calls /\ m \in Memories /\ m \notin AbsRows
             /\ AbsMade' = [AbsMade EXCEPT ![c] = m]
             /\ AbsRows' = AbsRows \cup {m}
             /\ AbsTags' = AbsTags \cup ({m} \X T)
             /\ op[c].kind = "retain" /\ T \subseteq op[c].tags
             /\ \A t \in writer.left : t \in op[c].tags /\ t \notin T
<1> USE DEF RInv
<1> DEFINE c == writer.call
           m == made[c]
           T == {t \in Tags : <<m, t>> \in tagRows}
<1>1. c \in Calls /\ m \in Memories /\ op[c].kind = "retain"
  BY WriterCall DEF IInv, KindInv
<1>2. Unfinished = {m} /\ m \in rows /\ \A d \in Calls : made[d] = m => d = c
  BY Hidden
<1>3. m \notin AbsRows /\ AbsRows' = AbsRows \cup {m}
  BY <1>2 DEF AbsRows
<1>4. AbsTags' = AbsTags \cup ({m} \X T)
  <2>1. tagRows \subseteq Memories \X Tags
    BY DEF IInv, TypeOK
  <2> QED BY <1>2, <2>1 DEF AbsTags
<1>5. AbsMade' = [AbsMade EXCEPT ![c] = m]
  BY <1>1, <1>2 DEF AbsMade
<1>6. T \subseteq op[c].tags /\ \A t \in writer.left : t \in op[c].tags /\ t \notin T
  BY DEF TagsInv
<1> QED BY <1>1, <1>3, <1>4, <1>5, <1>6

LEMMA DecideAbs ==
  ASSUME RInv, RetainDone \/ Forget \/ UpdateAccess \/ Fail
  PROVE  Abs!Apply(writer.call)
<1> USE DEF RInv, tables
<1> DEFINE c == writer.call
<1>1. /\ c \in Calls /\ writer'.call = c
      /\ AbsStatus[c] \in {"open", "lost"} /\ AbsStatus' = AbsStatus
      /\ AbsOutcome[c] = "none" /\ AbsOutcome' = [AbsOutcome EXCEPT ![c] = writer'.step]
      /\ writer'.step \in {"ok", "err"} /\ Unfinished' = {}
      /\ UNCHANGED <<op, made, rows, tagRows>>
  BY DecidingCall
<1>2. c # None
  BY DEF RetainDone, Forget, UpdateAccess, Fail, At
<1>3. ASSUME writer.step = "begin" PROVE UNCHANGED <<AbsMade, AbsRows, AbsTags>>
  <2>1. Unfinished = {}
    BY <1>3, Hidden
  <2> QED BY <1>1, <2>1 DEF AbsMade, AbsRows, AbsTags
<1> DEFINE m == made[c]
           T == {t \in Tags : <<m, t>> \in tagRows}
<1>4. ASSUME writer.step = "tags", current' = current
      PROVE  /\ m \in Memories /\ op[c].kind = "retain" /\ T \in SUBSET op[c].tags
             /\ Abs!Create(c, m, T)
             /\ \A t \in writer.left : t \in op[c].tags /\ t \notin T
  BY <1>1, <1>2, <1>4, RowAppears DEF Abs!Create, AbsRows, AbsTags
<1>5. CASE RetainDone
  <2>1. writer'.step = "ok" /\ writer.step = "tags" /\ writer.left = {} /\ current' = current
    BY <1>5 DEF RetainDone, At, Goto, IInv, TypeOK
  <2>2. op[c].tags \in SUBSET Tags
    BY <1>2, <1>4, <2>1, WriterCall
  <2>3. \A t \in op[c].tags : <<m, t>> \in tagRows
    BY <1>2, <1>4, <2>1 DEF IInv, ProgressInv
  <2>4. T = op[c].tags
    BY <1>4, <2>1, <2>2, <2>3
  <2>5. op[c].kind = "retain" /\ \E x \in Memories : Abs!Create(c, x, op[c].tags)
    <3> HIDE DEF m, T
    <3> QED BY <1>4, <2>1, <2>4 DEF Abs!Create
  <2> QED BY <1>1, <2>1, <2>5 DEF Abs!Apply
<1>6. CASE Forget
  <2>1. writer'.step = "ok" /\ writer.step = "begin"
    BY <1>6 DEF Forget, At, Goto, IInv, TypeOK
  <2> QED BY <1>1, <1>3, <1>6, <2>1 DEF Forget, Abs!Apply, AbsRows, AbsTags
<1>7. CASE UpdateAccess
  <2>1. writer'.step = "ok" /\ writer.step = "begin"
    BY <1>7 DEF UpdateAccess, At, Goto, IInv, TypeOK
  <2> QED BY <1>1, <1>3, <1>7, <2>1 DEF UpdateAccess, Abs!Apply, AbsRows, AbsTags
<1>8. CASE Fail
  <2>1. writer'.step = "err" /\ current' = current
    BY <1>8 DEF Fail, StatementFails, Goto, IInv, TypeOK
  <2>2. CASE writer.step = "begin"
    BY <1>1, <1>3, <2>1, <2>2 DEF Abs!Apply, AbsRows, AbsTags
  <2>3. CASE writer.step = "tags" /\ writer.left # {}
    <3>1. T # op[c].tags
      BY <1>4, <2>1, <2>3
    <3>2. op[c].kind = "retain" /\ \E x \in Memories, S \in SUBSET op[c].tags :
                                      S # op[c].tags /\ Abs!Create(c, x, S)
      <4> HIDE DEF m, T
      <4> QED BY <1>4, <2>1, <2>3, <3>1 DEF Abs!Create
    <3> QED BY <1>1, <2>1, <3>2 DEF Abs!Apply
  <2> QED BY <1>8, <2>2, <2>3 DEF Fail, At
<1> QED BY <1>5, <1>6, <1>7, <1>8

(* The answer.                                                             *)
LEMMA ReplyAbs ==
  ASSUME RInv, Reply PROVE Abs!Answer(writer.call)
<1> USE DEF RInv, tables
<1> DEFINE c == writer.call
<1>1. /\ c \in Calls /\ c # None /\ phase[c] \in {"waiting", "cancelled"}
      /\ writer.step \in {"ok", "err"} /\ writer' = Idle
      /\ UNCHANGED <<op, made, queue, rows, tagRows, current>>
  BY DEF Reply, At, IInv, TypeOK, WriterInv
<1>2. Unfinished = {} /\ Unfinished' = {}
  BY <1>1, Hidden DEF Unfinished, Idle
<1>3. UNCHANGED <<op, AbsMade, AbsRows, AbsTags, current>>
  BY <1>1, <1>2 DEF AbsMade, AbsRows, AbsTags
<1>4. AbsOutcome[c] = writer.step /\ AbsOutcome' = [AbsOutcome EXCEPT ![c] = "none"]
  BY <1>1, QueueAssumption DEF AbsOutcome, Decided, Idle
<1>5. \A d \in Calls : InChannel(d)' = InChannel(d) /\ writer'.call # d
  BY <1>1, QueueAssumption DEF InChannel, Idle
<1>6. ~ InChannel(c)
  BY DEF InChannel, IInv, ChannelInv
<1>7. \A d \in Calls : phase'[d] = IF d = c /\ phase[c] = "waiting" THEN writer.step ELSE phase[d]
  BY <1>1 DEF Reply, IInv, TypeOK
<1> DEFINE v == IF AbsStatus[c] = "open" THEN AbsOutcome[c] ELSE "gone"
<1>8. \A d \in Calls : AbsStatus'[d] = IF d = c THEN v ELSE AbsStatus[d]
  <2>1. CASE phase[c] = "waiting"
    <3>1. AbsStatus[c] = "open"
      BY <1>1, <2>1 DEF AbsStatus
    <3>2. v = writer.step
      BY <1>4, <3>1
    <3> HIDE DEF v
    <3> QED BY <1>1, <1>5, <1>7, <2>1, <3>2 DEF AbsStatus
  <2>2. CASE phase[c] = "cancelled"
    <3>1. AbsStatus[c] = "lost"
      BY <1>1, <2>2 DEF AbsStatus
    <3>2. v = "gone"
      BY <3>1
    <3> HIDE DEF v
    <3> QED BY <1>1, <1>5, <1>6, <1>7, <2>2, <3>2 DEF AbsStatus
  <2> QED BY <1>1, <2>1, <2>2
<1>9. AbsStatus' = [AbsStatus EXCEPT ![c] = v]
  <2> HIDE DEF v
  <2> QED BY <1>1, <1>8, StatusChanges
<1> QED BY <1>1, <1>3, <1>4, <1>9 DEF Abs!Answer, AbsRows, AbsTags

(* The fact of a background task.                                          *)
LEMMA BackgroundAbs ==
  ASSUME RInv, NEW m \in Memories, BackgroundFact(m) PROVE Abs!AddFact(m)
<1> USE DEF RInv, callers
<1>1. UNCHANGED <<AbsOutcome, AbsMade, AbsRows, AbsTags>>
  BY SameOutcome DEF BackgroundFact
<1>2. AbsStatus' = AbsStatus /\ op' = op /\ current' = current \cup {m}
  BY SameStatus DEF BackgroundFact
<1>3. PICK c \in Calls : phase[c] = "ok" /\ made[c] = m
  BY DEF BackgroundFact
<1>4. m \notin Unfinished
  <2>1. writer.call # None => writer.call # c
    BY <1>3 DEF IInv, WriterInv
  <2> QED BY <1>3, <2>1, Hidden DEF IInv, TypeOK, WriterInv, Unfinished, Decided
<1>5. AbsStatus[c] = "ok" /\ AbsMade[c] = m
  BY <1>3, <1>4 DEF AbsStatus, AbsMade
<1> QED BY <1>1, <1>2, <1>5 DEF Abs!AddFact, AbsRows, AbsTags

(* A crash may leave the row of the retain in progress with part of its    *)
(* tags.                                                                   *)
LEMMA CrashAbs ==
  ASSUME RInv, Crash PROVE Abs!Crash
<1> USE DEF RInv, tables
<1>1. /\ writer' = Idle /\ queue' = <<>>
      /\ UNCHANGED <<op, made, rows, tagRows, current>>
  BY DEF Crash
<1>2. Unfinished' = {}
  BY <1>1 DEF Unfinished, Idle
<1>3. AbsOutcome' = [d \in Calls |-> "none"]
  BY <1>1, QueueAssumption DEF AbsOutcome, Idle
<1>4. AbsStatus' = [d \in Calls |-> IF AbsStatus[d] \in {"open", "lost", "gone"}
                                    THEN "dead" ELSE AbsStatus[d]]
  <2>1. \A d \in Calls : phase[d] \in {"idle", "sending", "waiting", "cancelled", "ok", "err", "dead"}
    BY DEF IInv, TypeOK
  <2>2. \A d \in Calls : phase'[d] = IF phase[d] \in {"sending", "waiting", "cancelled"}
                                     THEN "dead" ELSE phase[d]
    BY DEF Crash
  <2>3. \A d \in Calls : AbsStatus'[d] = IF AbsStatus[d] \in {"open", "lost", "gone"}
                                         THEN "dead" ELSE AbsStatus[d]
    BY <2>1, <2>2 DEF AbsStatus
  <2>4. AbsStatus' = [d \in Calls |-> AbsStatus'[d]]
    BY DEF AbsStatus
  <2> QED BY <2>3, <2>4
<1>5. CASE Unfinished = {}
  <2>1. UNCHANGED <<AbsMade, AbsRows, AbsTags>>
    BY <1>1, <1>2, <1>5 DEF AbsMade, AbsRows, AbsTags
  <2> QED BY <1>1, <1>3, <1>4, <2>1 DEF Abs!Crash, AbsRows, AbsTags
<1>6. CASE Unfinished # {}
  <2> DEFINE c == writer.call
             m == made[c]
             T == {t \in Tags : <<m, t>> \in tagRows}
  <2>1. c # None /\ writer.step \in {"fts", "tags"}
    BY <1>6, Hidden DEF IInv, TypeOK, WriterInv
  <2>2. /\ c \in Calls /\ m \in Memories /\ m \notin AbsRows
        /\ AbsMade' = [AbsMade EXCEPT ![c] = m]
        /\ AbsRows' = AbsRows \cup {m}
        /\ AbsTags' = AbsTags \cup ({m} \X T)
        /\ op[c].kind = "retain" /\ T \subseteq op[c].tags
    BY <1>1, <1>2, <2>1, RowAppears
  <2>3. phase[c] \in {"waiting", "cancelled"}
    BY <2>1 DEF IInv, WriterInv
  <2>4. AbsStatus[c] \in {"open", "lost"}
    BY <2>2, <2>3 DEF AbsStatus
  <2>5. AbsOutcome[c] = "none"
    BY <2>1, <2>2 DEF AbsOutcome, Decided
  <2> HIDE DEF c, m, T
  <2> QED BY <1>1, <1>3, <1>4, <2>2, <2>4, <2>5 DEF Abs!Crash, AbsRows, AbsTags
<1> QED BY <1>5, <1>6

LEMMA StepAbs == RInv /\ [Next]_vars => [Abs!Next]_(Abs!avars)
<1> SUFFICES ASSUME RInv, [Next]_vars PROVE Abs!Next \/ UNCHANGED absVars
  BY DEF Abs!avars, absVars, AbsRows, AbsTags
<1>1. ASSUME NEW c \in Calls, Invoke(c) PROVE Abs!Next
  BY <1>1, InvokeAbs DEF Abs!Next
<1>2. ASSUME NEW c \in Calls, Send(c) PROVE UNCHANGED absVars
  BY <1>2, SendAbs
<1>3. ASSUME NEW c \in Calls, Cancel(c) PROVE Abs!Next
  BY <1>3, CancelAbs DEF Abs!Next
<1>4. CASE Recv \/ InsertRow \/ InsertFts \/ InsertTag
  BY <1>4, RecvAbs, InsertRowAbs, InsertMoreAbs
<1>5. CASE RetainDone \/ Forget \/ UpdateAccess \/ Fail
  <2>1. writer.call \in Calls
    BY <1>5, DecidingCall
  <2> QED BY <1>5, <2>1, DecideAbs DEF Abs!Next
<1>6. CASE Reply
  <2>1. writer.call \in Calls
    BY <1>6 DEF Reply, At, RInv, IInv, TypeOK
  <2> QED BY <1>6, <2>1, ReplyAbs DEF Abs!Next
<1>7. ASSUME NEW m \in Memories, BackgroundFact(m) PROVE Abs!Next
  BY <1>7, BackgroundAbs DEF Abs!Next
<1>8. CASE Crash
  BY <1>8, CrashAbs DEF Abs!Next
<1>9. CASE UNCHANGED vars
  <2>1. UNCHANGED <<AbsOutcome, AbsMade, AbsRows, AbsTags>> /\ AbsStatus' = AbsStatus
    BY <1>9, SameOutcome, SameStatus DEF vars
  <2> QED BY <1>9, <2>1 DEF vars, absVars
<1> QED
  BY <1>1, <1>2, <1>3, <1>4, <1>5, <1>6, <1>7, <1>8, <1>9 DEF Next, WriterStep

(* The queue, its writer and the statements they run, with cancellations,  *)
(* faults and crashes, implement a store in which every call takes effect  *)
(* at one instant, at most once, and is answered with what it did.         *)
THEOREM QueueIsSerial == Spec => ImplementsSerialStore
<1>1. Init => RInv
  BY InitIInv DEF RInv, TagsInv, Init, Idle
<1>2. RInv /\ [Next]_vars => RInv'
  BY NextIInv, TagsStep DEF RInv
<1> QED
  BY <1>1, <1>2, InitAbs, StepAbs, PTL DEF Spec, ImplementsSerialStore, Abs!Spec
=============================================================================
