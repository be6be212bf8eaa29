------------------------------- MODULE MCEngine -------------------------------
(***************************************************************************)
(* Engine::retain and expand on the three stores, and one Engine::recall   *)
(* on the rows they leave. A recall only reads, so each gets a scene of    *)
(* its own.                                                                *)
(***************************************************************************)
EXTENDS Engine, MCRecall
CONSTANTS c1, c2, c3, h1
VARIABLE scene

(* Calls and texts are only compared for equality, and m1 and m3 are alike *)
(* to a recall. So the calls may as well begin in one order, the first of  *)
(* them with one text, and m1 may be the older of its pair.                *)
InOrder ==
  /\ job[c1].kind # "none" => job[c1].hash = h1
  /\ job[c2].kind # "none" => job[c1].kind # "none"
  /\ job[c3].kind # "none" => job[c2].kind # "none"
  /\ m3 \in Rows => m1 \in Rows

(* Duplicates in the index come without the Cloud tier, and without a      *)
(* store that moves on behind the recall.                                  *)
OneTrouble == reruns > 0 => late = 0 /\ ~ cloud

CallsInit ==
  /\ Init /\ RecallInit /\ OneTrouble
  /\ scene \in {"retain", "recall"}
  /\ scene = "retain" => reruns = 0 /\ ~ cloud

CallsNext ==
  \/ scene = "retain" /\ Next /\ UNCHANGED <<recallVars, scene>> /\ InOrder'
  \/ scene = "recall" /\ RecallNext /\ UNCHANGED <<vars, scene>> /\ InOrder' /\ OneTrouble'

CallsSpec == CallsInit /\ [][CallsNext]_<<vars, recallVars, scene>>
=============================================================================
