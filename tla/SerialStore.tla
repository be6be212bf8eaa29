----------------------------- MODULE SerialStore -----------------------------
(***************************************************************************)
(* What the SQLite write path promises its callers, with no queue, no      *)
(* writer task and no statements: every call takes effect at one instant   *)
(* between its invocation and its answer, at most once, and the answer     *)
(* says what the effect was.                                               *)
(*                                                                         *)
(*  - "ok" for a retain: one new row with every one of its tags;           *)
(*  - "err" for a retain: nothing, or one new row that lacks some tag (the *)
(*    insert of a tag failed after the row was committed);                 *)
(*  - a caller that goes away leaves a call that may still take effect;    *)
(*  - a crash abandons every open call; one of them may have left a row    *)
(*    with only part of its tags.                                          *)
(***************************************************************************)
EXTENDS Naturals, FiniteSets

CONSTANTS
  Calls,      (* one identifier per call of SqliteStorage               *)
  Memories,   (* the memory ids a retain may generate (Uuid::new_v4)    *)
  Tags,       (* the tags a retain may carry                            *)
  None        (* the id of a call that has created no row               *)

VARIABLES
  status,     (* status[c]: where the call is, as its caller sees it    *)
  op,         (* op[c]: the operation of the call                       *)
  outcome,    (* outcome[c]: the effect a call had and has not answered *)
  made,       (* made[c]: the row the call created                      *)
  rows,       (* the memories table                                     *)
  tagRows,    (* the memory_tags table                                  *)
  current     (* the memories that have a fact with valid_until NULL    *)

avars == <<status, op, outcome, made, rows, tagRows, current>>

NoOp == [kind |-> "none"]

Operation ==
  [kind : {"retain"}, tags : SUBSET Tags]
    \cup [kind : {"forget", "touch"}, mem : Memories]

Init ==
  /\ status = [c \in Calls |-> "idle"]
  /\ op = [c \in Calls |-> NoOp]
  /\ outcome = [c \in Calls |-> "none"]
  /\ made = [c \in Calls |-> None]
  /\ rows = {}
  /\ tagRows = {}
  /\ current = {}

Invoke(c) ==
  /\ status[c] = "idle"
  /\ status' = [status EXCEPT ![c] = "open"]
  /\ \E o \in Operation : op' = [op EXCEPT ![c] = o]
  /\ UNCHANGED <<outcome, made, rows, tagRows, current>>

(* The row m with the tags of T appears, at once, as the work of call c.  *)
Create(c, m, T) ==
  /\ m \notin rows
  /\ made' = [made EXCEPT ![c] = m]
  /\ rows' = rows \cup {m}
  /\ tagRows' = tagRows \cup ({m} \X T)
  /\ UNCHANGED current

(* A call takes effect once; its caller may have left ("lost") by then.   *)
Apply(c) ==
  /\ status[c] \in {"open", "lost"}
  /\ outcome[c] = "none"
  /\ UNCHANGED <<status, op>>
  /\ \/ /\ op[c].kind = "retain"
        /\ outcome' = [outcome EXCEPT ![c] = "ok"]
        /\ \E m \in Memories : Create(c, m, op[c].tags)
     \/ /\ op[c].kind = "retain"
        /\ outcome' = [outcome EXCEPT ![c] = "err"]
        /\ \E m \in Memories, T \in SUBSET op[c].tags :
             T # op[c].tags /\ Create(c, m, T)
     \/ /\ outcome' = [outcome EXCEPT ![c] = "err"]
        /\ UNCHANGED <<made, rows, tagRows, current>>
     \/ /\ op[c].kind = "forget"
        /\ outcome' = [outcome EXCEPT ![c] = "ok"]
        /\ current' = current \ {op[c].mem}
        /\ UNCHANGED <<made, rows, tagRows>>
     \/ /\ op[c].kind = "touch"
        /\ outcome' = [outcome EXCEPT ![c] = "ok"]
        /\ UNCHANGED <<made, rows, tagRows, current>>

(* The answer is the outcome of an effect that has already happened; when  *)
(* the caller has left, nobody hears it.                                   *)
Answer(c) ==
  /\ outcome[c] # "none"
  /\ status' = [status EXCEPT ![c] = IF @ = "open" THEN outcome[c] ELSE "gone"]
  /\ outcome' = [outcome EXCEPT ![c] = "none"]
  /\ UNCHANGED <<op, made, rows, tagRows, current>>

(* The caller leaves before the answer. Its call may still take effect     *)
(* ("lost"), unless it had not reached the store ("gone").                 *)
Abandon(c) ==
  /\ status[c] = "open"
  /\ \E s \in {"lost", "gone"} :
       /\ s = "gone" => outcome[c] = "none"
       /\ status' = [status EXCEPT ![c] = s]
  /\ UNCHANGED <<op, outcome, made, rows, tagRows, current>>

(* Another connection adds a fact of a memory whose retain was answered.   *)
AddFact(m) ==
  /\ \E c \in Calls : status[c] = "ok" /\ made[c] = m
  /\ current' = current \cup {m}
  /\ UNCHANGED <<status, op, outcome, made, rows, tagRows>>

Crash ==
  /\ status' = [c \in Calls |-> IF status[c] \in {"open", "lost", "gone"}
                                THEN "dead" ELSE status[c]]
  /\ outcome' = [c \in Calls |-> "none"]
  /\ UNCHANGED <<op, current>>
  /\ \/ UNCHANGED <<made, rows, tagRows>>
     \/ \E c \in Calls, m \in Memories \ rows :
          /\ status[c] \in {"open", "lost"}
          /\ outcome[c] = "none"
          /\ op[c].kind = "retain"
          /\ made' = [made EXCEPT ![c] = m]
          /\ rows' = rows \cup {m}
          /\ \E T \in SUBSET op[c].tags : tagRows' = tagRows \cup ({m} \X T)

Next ==
  \/ \E c \in Calls : Invoke(c) \/ Apply(c) \/ Answer(c) \/ Abandon(c)
  \/ \E m \in Memories : AddFact(m)
  \/ Crash

Spec == Init /\ [][Next]_avars
=============================================================================
