----------------------------- MODULE MCWriteQueue -----------------------------
(***************************************************************************)
(* Who writes to SQLite behind the caller: the writer task of the queue,   *)
(* and the audit tasks on connections of their own. They write to          *)
(* different tables and share nothing, so each gets a scene of its own.    *)
(***************************************************************************)
EXTENDS WriteQueue, AuditChain

VARIABLE scene

WritesInit == Init /\ AuditInit /\ scene \in {"queue", "audit"}

WritesNext ==
  \/ scene = "queue" /\ Next /\ UNCHANGED <<auditVars, scene>>
  \/ scene = "audit" /\ AuditNext /\ UNCHANGED <<vars, scene>>

WritesSpec ==
  /\ WritesInit /\ [][WritesNext]_<<vars, auditVars, scene>>
  /\ Fairness
  /\ AuditFairness
=============================================================================
