-------------------------- MODULE FactTimelineProofs --------------------------
(***************************************************************************)
(* Proofs about FactTimeline for any number of memories, keys, objects and *)
(* facts per memory, and any number of faults and exits.                   *)
(***************************************************************************)
EXTENDS FactTimeline, SequenceTheorems, TLAPS

-----------------------------------------------------------------------------
(* The inductive invariant.                                                *)

(* Facts are stored in the order of the text, by a task that has started;   *)
(* only stored facts have an end.                                          *)
StoredInv ==
  /\ \A f \in stored :
       /\ pc[f[1]] \notin {"new", "spawned"}
       /\ f[2] <= idx[f[1]]
       /\ f[2] = idx[f[1]] => pc[f[1]] \in {"detect", "decide", "resolve", "killed"}
  /\ \A f \in FactId : until[f] # None => f \in stored

(* A task at work on a fact has one; it stored it, unless a statement      *)
(* failed.                                                                 *)
WorkInv ==
  \A m \in Memories :
    /\ pc[m] \in {"insert", "detect", "decide", "resolve"} => idx[m] <= MaxFacts
    /\ (faults = 0 /\ pc[m] \in {"detect", "decide", "resolve"}) => This(m) \in stored

(* What a task has found contradicts the fact it is working on.            *)
FoundInv ==
  \A m \in Memories :
    /\ pc[m] \notin {"decide", "resolve", "killed"} => found[m] = {}
    /\ pc[m] \in {"decide", "resolve"} =>
         \A g \in found[m] : g \in stored /\ Contradicts(This(m), g)

(* Times only grow.                                                        *)
TimeInv ==
  /\ \A m \in Memories : seen[m] <= now /\ stamp[m] <= now
  /\ \A m \in Memories : pc[m] = "resolve" =>
       \A g \in found[m] : seen[g[1]] <= stamp[m]
  /\ IntervalsRunForward

IInv ==
  /\ TypeOK
  /\ StoredInv
  /\ WorkInv
  /\ FoundInv
  /\ TimeInv
  /\ ContradictionsAreHandled

-----------------------------------------------------------------------------
(* Lemmas about the operators.                                             *)

LEMMA TextLength ==
  ASSUME NEW s \in Texts PROVE Len(s) \in 0..MaxFacts
<1>1. PICK n \in 0..MaxFacts : s \in [1..n -> Keys \X Objects]
  BY DEF Texts
<1>2. s \in Seq(Keys \X Objects) /\ Len(s) = n
  BY <1>1, FactAssumption, LenProperties
<1> QED
  BY <1>1, <1>2, FactAssumption

LEMMA ContradictsSymmetric ==
  ASSUME NEW f, NEW g, Contradicts(f, g) PROVE Contradicts(g, f)
BY DEF Contradicts

LEMMA FactIdParts ==
  ASSUME NEW f \in FactId
  PROVE  f[1] \in Memories /\ f[2] \in 1..MaxFacts /\ f = <<f[1], f[2]>>
BY DEF FactId

(* The fact a working task is on is a fact id.                             *)
LEMMA ThisIsFactId ==
  ASSUME IInv, NEW m \in Memories,
         pc[m] \in {"insert", "detect", "decide", "resolve"}
  PROVE  This(m) \in FactId /\ This(m)[1] = m /\ This(m)[2] = idx[m]
<1>1. idx[m] \in 1..MaxFacts
  BY FactAssumption DEF IInv, TypeOK, WorkInv
<1> QED
  BY <1>1 DEF This, FactId

LEMMA InitIInv == Init => IInv
<1> SUFFICES ASSUME Init PROVE IInv
  OBVIOUS
<1> USE FactAssumption DEF Init
<1>1. TypeOK
  <2>1. <<>> \in Texts
    <3>1. <<>> \in [1..0 -> Keys \X Objects]
      OBVIOUS
    <3> QED
      BY <3>1 DEF Texts
  <2> QED
    BY <2>1 DEF TypeOK
<1>2. StoredInv /\ WorkInv /\ FoundInv
  BY DEF StoredInv, WorkInv, FoundInv
<1>3. TimeInv
  BY DEF TimeInv, IntervalsRunForward
<1>4. ContradictionsAreHandled
  BY DEF ContradictionsAreHandled
<1> QED
  BY <1>1, <1>2, <1>3, <1>4 DEF IInv

-----------------------------------------------------------------------------
(* The steps of a task that neither store nor end a fact.                  *)

LEMMA RetainIInv ==
  ASSUME IInv, NEW m \in Memories, Retain(m) PROVE IInv'
<1>1. PICK s \in Texts : text' = [text EXCEPT ![m] = s]
  BY DEF Retain
<1>2. /\ pc[m] = "new" /\ pc' = [pc EXCEPT ![m] = "spawned"]
      /\ UNCHANGED <<idx, seen, found, stamp, stored, until, forgotten, now, faults, kills, past>>
  BY DEF Retain
<1>3. \A f \in stored : f \in FactId /\ f[1] \in Memories /\ f[1] # m
  BY <1>2, FactIdParts DEF IInv, TypeOK, StoredInv
<1>4. \A f \in stored : Fact(f)' = Fact(f) /\ pc'[f[1]] = pc[f[1]]
  BY <1>1, <1>2, <1>3 DEF Fact, IInv, TypeOK
<1>5. TypeOK'
  BY <1>1, <1>2 DEF IInv, TypeOK
<1>6. StoredInv'
  BY <1>2, <1>3, <1>4 DEF IInv, StoredInv
<1>7. WorkInv'
  BY <1>2 DEF IInv, TypeOK, WorkInv, This
<1>8. FoundInv'
  <2>1. ASSUME NEW n \in Memories, pc'[n] \in {"decide", "resolve"}, NEW g \in found[n]
        PROVE  g \in stored /\ Contradicts(This(n), g)'
    <3>1. n # m /\ pc'[n] = pc[n]
      BY <1>2, <2>1 DEF IInv, TypeOK
    <3>2. This(n)' = This(n) /\ Fact(This(n))' = Fact(This(n))
      BY <1>1, <1>2, <3>1 DEF This, Fact, IInv, TypeOK
    <3> QED
      BY <1>4, <2>1, <3>1, <3>2 DEF IInv, FoundInv, Contradicts
  <2> QED
    BY <1>2, <2>1 DEF IInv, TypeOK, FoundInv
<1>9. TimeInv'
  BY <1>2 DEF IInv, TypeOK, TimeInv, IntervalsRunForward
<1>10. ContradictionsAreHandled'
  BY <1>2, <1>3, <1>4
     DEF IInv, ContradictionsAreHandled, Handles, IsCurrent, Contradicts
<1> QED
  BY <1>5, <1>6, <1>7, <1>8, <1>9, <1>10 DEF IInv

(* Extract and NextFact move a task that is not at work on a fact.         *)
LEMMA ExtractIInv ==
  ASSUME IInv, NEW m \in Memories, Extract(m) PROVE IInv'
<1>1. /\ pc[m] = "spawned"
      /\ \E s \in {"next", "panicked"} : pc' = [pc EXCEPT ![m] = s]
      /\ seen' = [seen EXCEPT ![m] = now]
      /\ past' = [past EXCEPT ![m] = {n \in Memories : Over(n)}]
      /\ UNCHANGED <<text, idx, found, stamp, stored, until, forgotten, now, faults, kills>>
  BY DEF Extract
<1>2. \A f \in stored : f[1] \in Memories /\ f[1] # m
  BY <1>1, FactIdParts DEF IInv, TypeOK, StoredInv
<1>3. \A f, g : Contradicts(f, g)' = Contradicts(f, g)
  BY <1>1 DEF Contradicts, Fact
<1>4. TypeOK'
  BY <1>1 DEF IInv, TypeOK
<1>5. StoredInv' /\ WorkInv' /\ FoundInv'
  BY <1>1, <1>2, <1>3 DEF IInv, TypeOK, StoredInv, WorkInv, FoundInv, This
<1>6. TimeInv'
  <2>1. \A n \in Memories : seen'[n] <= now' /\ stamp'[n] <= now'
    BY <1>1 DEF IInv, TypeOK, TimeInv
  <2>2. ASSUME NEW n \in Memories, pc'[n] = "resolve", NEW g \in found[n]
        PROVE  seen'[g[1]] <= stamp[n]
    <3>1. pc[n] = "resolve" /\ g \in stored
      BY <1>1, <2>2 DEF IInv, TypeOK, FoundInv
    <3> QED
      BY <1>1, <1>2, <3>1 DEF IInv, TypeOK, TimeInv
  <2>3. IntervalsRunForward'
    BY <1>1, <1>2 DEF IInv, TypeOK, TimeInv, IntervalsRunForward
  <2> QED
    BY <1>1, <2>1, <2>2, <2>3 DEF TimeInv
<1>7. ContradictionsAreHandled'
  BY <1>1, <1>2, <1>3
     DEF IInv, TypeOK, ContradictionsAreHandled, Handles, IsCurrent
<1> QED
  BY <1>4, <1>5, <1>6, <1>7 DEF IInv

LEMMA NextFactIInv ==
  ASSUME IInv, NEW m \in Memories, NextFact(m) PROVE IInv'
<1>1. /\ pc[m] = "next"
      /\ pc' = [pc EXCEPT ![m] = IF idx[m] <= Len(text[m]) THEN "insert" ELSE "done"]
      /\ UNCHANGED <<text, idx, seen, found, stamp, stored, until, forgotten, now, faults, kills, past>>
  BY DEF NextFact
<1>2. /\ pc'[m] \in {"insert", "done"}
      /\ pc'[m] = "insert" => idx[m] <= MaxFacts
  <2>1. Len(text[m]) \in 0..MaxFacts /\ idx[m] \in Nat
    BY TextLength, FactAssumption DEF IInv, TypeOK
  <2> QED
    BY <1>1, <2>1, FactAssumption DEF IInv, TypeOK
<1>3. \A n \in Memories : n # m => pc'[n] = pc[n]
  BY <1>1 DEF IInv, TypeOK
<1>4. \A f, g : Contradicts(f, g)' = Contradicts(f, g)
  BY <1>1 DEF Contradicts, Fact
<1>5. TypeOK'
  BY <1>1 DEF IInv, TypeOK
<1>6. StoredInv'
  BY <1>1, <1>2, <1>3, FactIdParts DEF IInv, TypeOK, StoredInv
<1>7. WorkInv' /\ FoundInv'
  BY <1>1, <1>2, <1>3, <1>4 DEF IInv, WorkInv, FoundInv, This
<1>8. TimeInv'
  BY <1>1, <1>2, <1>3 DEF IInv, TimeInv, IntervalsRunForward
<1>9. ContradictionsAreHandled'
  BY <1>1, <1>2, <1>3, <1>4, FactIdParts
     DEF IInv, TypeOK, ContradictionsAreHandled, Handles, IsCurrent
<1> QED
  BY <1>5, <1>6, <1>7, <1>8, <1>9 DEF IInv
-----------------------------------------------------------------------------
(* The steps of a task that is at work on a fact.                          *)

LEMMA InsertIInv ==
  ASSUME IInv, NEW m \in Memories, Insert(m) PROVE IInv'
<1>1. /\ pc[m] = "insert" /\ pc' = [pc EXCEPT ![m] = "detect"]
      /\ \/ stored' = stored \cup {This(m)} /\ UNCHANGED faults
         \/ faults < MaxFaults /\ faults' = faults + 1 /\ UNCHANGED stored
      /\ UNCHANGED <<text, idx, seen, found, stamp, until, forgotten, now, kills, past>>
  BY DEF Insert, StatementFails
<1>2. /\ This(m) \in FactId /\ This(m)[1] = m /\ This(m)[2] = idx[m]
      /\ This(m)' = This(m)
  BY <1>1, ThisIsFactId DEF This
<1>3. \A n \in Memories : n # m => pc'[n] = pc[n]
  BY <1>1 DEF IInv, TypeOK
<1>4. pc'[m] = "detect"
  BY <1>1 DEF IInv, TypeOK
<1>5. \A f, g : Contradicts(f, g)' = Contradicts(f, g)
  BY <1>1 DEF Contradicts, Fact
<1>6. TypeOK'
  BY <1>1, <1>2, FactAssumption DEF IInv, TypeOK
<1>7. StoredInv'
  BY <1>1, <1>2, <1>3, <1>4, FactIdParts, FactAssumption DEF IInv, TypeOK, StoredInv
<1>8. WorkInv'
  <2>1. faults' = 0 => faults = 0 /\ This(m) \in stored'
    BY <1>1, FactAssumption DEF IInv, TypeOK
  <2> QED
    BY <1>1, <1>2, <1>3, <1>4, <2>1 DEF IInv, WorkInv, This
<1>9. FoundInv'
  BY <1>1, <1>3, <1>4, <1>5 DEF IInv, FoundInv, This
<1>10. TimeInv'
  <2>1. \A n \in Memories : pc'[n] = "resolve" => pc[n] = "resolve"
    BY <1>3, <1>4
  <2>2. IntervalsRunForward'
    BY <1>1, <1>2 DEF IInv, StoredInv, TimeInv, IntervalsRunForward
  <2> QED
    BY <1>1, <2>1, <2>2 DEF IInv, TimeInv
<1>11. ContradictionsAreHandled'
  <2> SUFFICES ASSUME faults' = 0, kills' = 0,
                      NEW f \in stored', NEW g \in stored',
                      IsCurrent(f)', IsCurrent(g)', Contradicts(f, g)
               PROVE  Handles(f, g)' \/ Handles(g, f)'
    BY <1>5 DEF ContradictionsAreHandled
  <2>1. stored' = stored \cup {This(m)} /\ faults = 0 /\ kills = 0
    BY <1>1, FactAssumption DEF IInv, TypeOK
  <2>2. CASE f = This(m) \/ g = This(m)
    BY <1>1, <1>2, <1>4, <2>2 DEF Handles
  <2>3. CASE f \in stored /\ g \in stored
    <3>1. Handles(f, g) \/ Handles(g, f)
      BY <1>1, <2>1, <2>3 DEF IInv, ContradictionsAreHandled, IsCurrent
    <3>2. ASSUME NEW h \in stored, NEW k, Handles(h, k) PROVE Handles(h, k)'
      <4>1. h[1] \in Memories /\ h[1] # m
        BY <1>1, <2>1, <3>2, FactIdParts DEF IInv, TypeOK, Handles
      <4> QED
        BY <1>1, <1>3, <3>2, <4>1 DEF Handles
    <3> QED
      BY <2>3, <3>1, <3>2
  <2> QED
    BY <2>1, <2>2, <2>3
<1> QED
  BY <1>6, <1>7, <1>8, <1>9, <1>10, <1>11 DEF IInv

LEMMA DetectIInv ==
  ASSUME IInv, NEW m \in Memories, Detect(m) PROVE IInv'
<1>1. /\ pc[m] = "detect" /\ pc' = [pc EXCEPT ![m] = "decide"]
      /\ \/ found' = [found EXCEPT ![m] = Conflicting(This(m))] /\ UNCHANGED faults
         \/ faults < MaxFaults /\ faults' = faults + 1 /\ UNCHANGED found
      /\ UNCHANGED <<text, idx, seen, stamp, stored, until, forgotten, now, kills, past>>
  BY DEF Detect, StatementFails
<1>2. /\ This(m) \in FactId /\ This(m)[1] = m /\ This(m)[2] = idx[m]
      /\ \A n : This(n)' = This(n)
  BY <1>1, ThisIsFactId DEF This
<1>3. /\ pc'[m] = "decide"
      /\ \A n \in Memories : n # m => pc'[n] = pc[n] /\ found'[n] = found[n]
  BY <1>1 DEF IInv, TypeOK
<1>4. \A f, g : Contradicts(f, g)' = Contradicts(f, g)
  BY <1>1 DEF Contradicts, Fact
<1>5. found'[m] \in {Conflicting(This(m)), {}}
  BY <1>1 DEF IInv, TypeOK, FoundInv
<1>6. Conflicting(This(m)) \subseteq stored /\ stored \subseteq FactId
  BY DEF Conflicting, IInv, TypeOK
<1>7. TypeOK'
  BY <1>1, <1>6, FactAssumption DEF IInv, TypeOK
<1>8. StoredInv'
  BY <1>1, <1>3, FactIdParts DEF IInv, TypeOK, StoredInv
<1>9. WorkInv'
  <2>1. faults' = 0 => faults = 0
    BY <1>1, FactAssumption DEF IInv, TypeOK
  <2> QED
    BY <1>1, <1>2, <1>3, <2>1 DEF IInv, WorkInv
<1>10. FoundInv'
  <2>1. \A g \in found'[m] : g \in stored /\ Contradicts(This(m), g)
    BY <1>5 DEF Conflicting
  <2> QED
    BY <1>1, <1>2, <1>3, <1>4, <2>1 DEF IInv, FoundInv
<1>11. TimeInv'
  BY <1>1, <1>3 DEF IInv, TimeInv, IntervalsRunForward
<1>12. ContradictionsAreHandled'
  <2> SUFFICES ASSUME faults' = 0, kills' = 0, NEW f \in stored, NEW g \in stored,
                      IsCurrent(f), IsCurrent(g), Contradicts(f, g)
               PROVE  Handles(f, g)' \/ Handles(g, f)'
    BY <1>1, <1>4 DEF ContradictionsAreHandled, IsCurrent
  <2>1. faults = 0 /\ kills = 0 /\ found' = [found EXCEPT ![m] = Conflicting(This(m))]
    BY <1>1, FactAssumption DEF IInv, TypeOK
  <2>2. Handles(f, g) \/ Handles(g, f)
    BY <2>1 DEF IInv, ContradictionsAreHandled
  <2>3. ASSUME NEW h \in stored, NEW k \in stored, IsCurrent(k), Contradicts(h, k),
               Handles(h, k)
        PROVE  Handles(h, k)'
    <3>1. h \in FactId /\ h[1] \in Memories /\ h = <<h[1], h[2]>>
      BY FactIdParts DEF IInv, TypeOK
    <3>2. CASE h[1] = m
      <4>1. h = This(m)
        BY <2>3, <3>1, <3>2 DEF Handles, This
      <4>2. k \in found'[m]
        BY <2>1, <2>3, <4>1 DEF Conflicting, IsCurrent, IInv, TypeOK
      <4> QED
        BY <1>1, <1>3, <2>3, <3>2, <4>2 DEF Handles
    <3>3. CASE h[1] # m
      BY <1>1, <1>3, <2>3, <3>1, <3>3 DEF Handles
    <3> QED
      BY <3>2, <3>3
  <2> QED
    BY <2>2, <2>3, ContradictsSymmetric
<1> QED
  BY <1>7, <1>8, <1>9, <1>10, <1>11, <1>12 DEF IInv

(* A conflict found is one to end; a task without one goes on.             *)
LEMMA DecideIInv ==
  ASSUME IInv, NEW m \in Memories, Decide(m) PROVE IInv'
<1>1. /\ pc[m] = "decide"
      /\ UNCHANGED <<text, seen, found, stored, until, forgotten, now, faults, kills, past>>
      /\ \/ /\ found[m] = {} /\ pc' = [pc EXCEPT ![m] = "next"]
            /\ idx' = [idx EXCEPT ![m] = @ + 1] /\ UNCHANGED stamp
         \/ /\ found[m] # {} /\ pc' = [pc EXCEPT ![m] = "resolve"]
            /\ stamp' = [stamp EXCEPT ![m] = now] /\ UNCHANGED idx
  BY DEF Decide
<1>2. /\ idx[m] \in 1..MaxFacts
      /\ \A n \in Memories : n # m => /\ pc'[n] = pc[n] /\ idx'[n] = idx[n]
                                      /\ stamp'[n] = stamp[n] /\ This(n)' = This(n)
      /\ \/ found[m] = {} /\ pc'[m] = "next" /\ idx'[m] = idx[m] + 1
         \/ pc'[m] = "resolve" /\ idx'[m] = idx[m] /\ stamp'[m] = now /\ This(m)' = This(m)
  <2>1. idx[m] \in 1..MaxFacts
    BY <1>1, FactAssumption DEF IInv, TypeOK, WorkInv
  <2>2. \A n \in Memories : n # m => /\ pc'[n] = pc[n] /\ idx'[n] = idx[n]
                                      /\ stamp'[n] = stamp[n]
    BY <1>1 DEF IInv, TypeOK
  <2>3. \/ found[m] = {} /\ pc'[m] = "next" /\ idx'[m] = idx[m] + 1
        \/ pc'[m] = "resolve" /\ idx'[m] = idx[m] /\ stamp'[m] = now
    BY <1>1 DEF IInv, TypeOK
  <2> QED
    BY <2>1, <2>2, <2>3 DEF This
<1>3. \A f, g : Contradicts(f, g)' = Contradicts(f, g)
  BY <1>1 DEF Contradicts, Fact
<1>4. TypeOK'
  BY <1>1, <1>2, FactAssumption DEF IInv, TypeOK
<1>5. StoredInv'
  BY <1>1, <1>2, FactIdParts, FactAssumption DEF IInv, TypeOK, StoredInv
<1>6. WorkInv' /\ FoundInv'
  <2>1. \A n \in Memories : pc'[n] \in {"insert", "detect", "decide", "resolve"} =>
           pc[n] \in {pc'[n], "decide"} /\ idx'[n] = idx[n] /\ This(n)' = This(n)
    BY <1>1, <1>2
  <2>2. WorkInv'
    BY <1>1, <2>1 DEF IInv, WorkInv
  <2>3. \A n \in Memories : pc'[n] \in {"decide", "resolve"} =>
           \A g \in found[n] : g \in stored /\ Contradicts(This(n), g)
    BY <2>1 DEF IInv, FoundInv
  <2>4. \A n \in Memories : pc'[n] \notin {"decide", "resolve", "killed"} => found[n] = {}
    BY <1>1, <1>2 DEF IInv, FoundInv
  <2>5. FoundInv'
    BY <1>1, <1>3, <2>1, <2>3, <2>4 DEF FoundInv
  <2> QED
    BY <2>2, <2>5
<1>7. TimeInv'
  <2>1. \A g \in found[m] : g \in stored /\ g[1] \in Memories
    BY <1>1, FactIdParts DEF IInv, TypeOK, FoundInv
  <2>2. \A n \in Memories : seen'[n] <= now' /\ stamp'[n] <= now'
    BY <1>1, <1>2 DEF IInv, TypeOK, TimeInv
  <2>3. \A n \in Memories : pc'[n] = "resolve" =>
           \A g \in found'[n] : seen'[g[1]] <= stamp'[n]
    BY <1>1, <1>2, <2>1 DEF IInv, TimeInv
  <2>4. IntervalsRunForward'
    BY <1>1 DEF IInv, TimeInv, IntervalsRunForward
  <2> QED
    BY <2>2, <2>3, <2>4 DEF TimeInv
<1>8. ContradictionsAreHandled'
  <2>1. ASSUME NEW h \in stored, NEW k, Handles(h, k) PROVE Handles(h, k)'
    <3>1. h[1] \in Memories
      BY FactIdParts DEF IInv, TypeOK
    <3> QED
      BY <1>1, <1>2, <2>1, <3>1 DEF Handles
  <2> QED
    BY <1>1, <1>3, <2>1 DEF IInv, ContradictionsAreHandled, IsCurrent
<1> QED
  BY <1>4, <1>5, <1>6, <1>7, <1>8 DEF IInv
LEMMA ResolveIInv ==
  ASSUME IInv, NEW m \in Memories, Resolve(m) PROVE IInv'
<1>1. PICK g \in found[m] :
         /\ until' = [until EXCEPT ![g] = stamp[m]]
         /\ found' = [found EXCEPT ![m] = @ \ {g}]
  BY DEF Resolve
<1>2. /\ pc[m] = "resolve"
      /\ UNCHANGED <<pc, text, idx, seen, stamp, stored, forgotten, now, faults, kills, past>>
  BY DEF Resolve
<1>3. /\ g \in stored /\ g \in FactId /\ g[1] \in Memories
      /\ Contradicts(This(m), g) /\ seen[g[1]] <= stamp[m]
      /\ stamp[m] \in 0..MaxTime
  BY <1>2, FactIdParts DEF IInv, TypeOK, FoundInv, TimeInv
<1>4. /\ until'[g] = stamp[m] /\ until'[g] # None
      /\ \A f \in FactId : f # g => until'[f] = until[f]
      /\ found'[m] = found[m] \ {g}
      /\ \A n \in Memories : n # m => found'[n] = found[n]
  BY <1>1, <1>3, FactAssumption DEF IInv, TypeOK
<1>5. \A f, h : Contradicts(f, h)' = Contradicts(f, h) /\ This(f)' = This(f)
  BY <1>2 DEF Contradicts, Fact, This
<1>6. TypeOK'
  BY <1>1, <1>2, <1>3 DEF IInv, TypeOK
<1>7. StoredInv' /\ WorkInv'
  BY <1>2, <1>3, <1>4, <1>5 DEF IInv, StoredInv, WorkInv
<1>8. FoundInv'
  BY <1>2, <1>4, <1>5 DEF IInv, FoundInv
<1>9. TimeInv'
  <2>1. IntervalsRunForward'
    BY <1>2, <1>3, <1>4 DEF IInv, TypeOK, TimeInv, IntervalsRunForward
  <2> QED
    BY <1>2, <1>4, <2>1 DEF IInv, TimeInv
<1>10. ContradictionsAreHandled'
  <2>1. ASSUME NEW h \in stored, NEW k \in stored, IsCurrent(k)', Handles(h, k)
        PROVE  Handles(h, k)'
    BY <1>2, <1>4, <2>1, FactIdParts DEF Handles, IsCurrent, IInv, TypeOK
  <2>2. \A h \in stored : IsCurrent(h)' => IsCurrent(h)
    BY <1>2, <1>4 DEF IsCurrent, IInv, TypeOK
  <2> QED
    BY <1>2, <1>5, <2>1, <2>2 DEF IInv, ContradictionsAreHandled
<1> QED
  BY <1>6, <1>7, <1>8, <1>9, <1>10 DEF IInv

LEMMA ResolvedIInv ==
  ASSUME IInv, NEW m \in Memories, Resolved(m) PROVE IInv'
<1>1. /\ pc[m] = "resolve" /\ pc' = [pc EXCEPT ![m] = "next"]
      /\ idx' = [idx EXCEPT ![m] = @ + 1]
      /\ found' = [found EXCEPT ![m] = {}]
      /\ \/ found[m] = {} /\ UNCHANGED faults
         \/ found[m] # {} /\ faults < MaxFaults /\ faults' = faults + 1
      /\ UNCHANGED <<text, seen, stamp, stored, until, forgotten, now, kills, past>>
  BY DEF Resolved, StatementFails
<1>2. /\ idx[m] \in 1..MaxFacts
      /\ \A n \in Memories : n # m => /\ pc'[n] = pc[n] /\ idx'[n] = idx[n]
                                      /\ found'[n] = found[n] /\ This(n)' = This(n)
      /\ pc'[m] = "next" /\ idx'[m] = idx[m] + 1 /\ found'[m] = {}
      /\ faults' = 0 => faults = 0 /\ found[m] = {}
  <2>1. idx[m] \in 1..MaxFacts
    BY <1>1, FactAssumption DEF IInv, TypeOK, WorkInv
  <2>2. \A n \in Memories : n # m => /\ pc'[n] = pc[n] /\ idx'[n] = idx[n]
                                      /\ found'[n] = found[n]
    BY <1>1 DEF IInv, TypeOK
  <2>3. pc'[m] = "next" /\ idx'[m] = idx[m] + 1 /\ found'[m] = {}
    BY <1>1 DEF IInv, TypeOK
  <2>4. faults' = 0 => faults = 0 /\ found[m] = {}
    BY <1>1, FactAssumption DEF IInv, TypeOK
  <2> QED
    BY <2>1, <2>2, <2>3, <2>4 DEF This
<1>3. \A f, g : Contradicts(f, g)' = Contradicts(f, g)
  BY <1>1 DEF Contradicts, Fact
<1>4. TypeOK'
  BY <1>1, <1>2, FactAssumption DEF IInv, TypeOK
<1>5. StoredInv'
  BY <1>1, <1>2, FactIdParts, FactAssumption DEF IInv, TypeOK, StoredInv
<1>6. WorkInv'
  BY <1>1, <1>2 DEF IInv, WorkInv
<1>7. FoundInv'
  BY <1>1, <1>2, <1>3 DEF IInv, FoundInv
<1>8. TimeInv'
  BY <1>1, <1>2 DEF IInv, TimeInv, IntervalsRunForward
<1>9. ContradictionsAreHandled'
  <2>1. ASSUME faults' = 0, NEW h \in stored, NEW k, Handles(h, k)
        PROVE  Handles(h, k)'
    <3>1. h[1] \in Memories
      BY FactIdParts DEF IInv, TypeOK
    <3> QED
      BY <1>1, <1>2, <2>1, <3>1 DEF Handles
  <2> QED
    BY <1>1, <1>2, <1>3, <2>1 DEF IInv, ContradictionsAreHandled, IsCurrent
<1> QED
  BY <1>4, <1>5, <1>6, <1>7, <1>8, <1>9 DEF IInv

-----------------------------------------------------------------------------
(* The steps of everyone else.                                             *)

LEMMA ForgetIInv ==
  ASSUME IInv, NEW m \in Memories, Forget(m) PROVE IInv'
<1>1. /\ pc[m] # "new"
      /\ until' = [f \in FactId |->
                     IF f[1] = m /\ IsCurrent(f) THEN now ELSE until[f]]
      /\ forgotten' = forgotten \cup {m}
      /\ UNCHANGED <<pc, text, idx, seen, found, stamp, stored, now, faults, kills, past>>
  BY DEF Forget
<1>2. \A f \in FactId : /\ until'[f] = until[f] \/ (f[1] = m /\ until'[f] = now /\ f \in stored)
                        /\ until[f] # None => until'[f] = until[f]
  BY <1>1 DEF IsCurrent
<1>3. \A f, g : Contradicts(f, g)' = Contradicts(f, g) /\ This(f)' = This(f)
  BY <1>1 DEF Contradicts, Fact, This
<1>4. \A f \in stored : IsCurrent(f)' => IsCurrent(f)
  BY <1>1, <1>2 DEF IsCurrent, IInv, TypeOK
<1>5. TypeOK'
  BY <1>1 DEF IInv, TypeOK
<1>6. StoredInv' /\ WorkInv' /\ FoundInv'
  BY <1>1, <1>2, <1>3 DEF IInv, StoredInv, WorkInv, FoundInv
<1>7. TimeInv'
  <2>1. IntervalsRunForward'
    BY <1>1, <1>2, FactIdParts DEF IInv, TypeOK, TimeInv, IntervalsRunForward
  <2> QED
    BY <1>1, <2>1 DEF IInv, TimeInv
<1>8. ContradictionsAreHandled'
  BY <1>1, <1>3, <1>4 DEF IInv, ContradictionsAreHandled, Handles
<1> QED
  BY <1>5, <1>6, <1>7, <1>8 DEF IInv

LEMMA TickIInv ==
  ASSUME IInv, Tick PROVE IInv'
<1>1. /\ now' = now + 1 /\ now' \in 0..MaxTime
      /\ UNCHANGED <<pc, text, idx, seen, found, stamp, stored, until, forgotten, faults, kills, past>>
  BY FactAssumption DEF Tick, IInv, TypeOK
<1>2. \A f, g : Contradicts(f, g)' = Contradicts(f, g) /\ This(f)' = This(f)
  BY <1>1 DEF Contradicts, Fact, This
<1>3. TypeOK'
  BY <1>1 DEF IInv, TypeOK
<1>4. StoredInv' /\ WorkInv' /\ FoundInv'
  BY <1>1, <1>2 DEF IInv, StoredInv, WorkInv, FoundInv
<1>5. TimeInv'
  <2>1. \A n \in Memories : seen[n] <= now + 1 /\ stamp[n] <= now + 1
    BY FactAssumption DEF IInv, TypeOK, TimeInv
  <2> QED
    BY <1>1, <2>1 DEF IInv, TimeInv, IntervalsRunForward
<1>6. ContradictionsAreHandled'
  BY <1>1, <1>2
     DEF IInv, ContradictionsAreHandled, Handles, IsCurrent
<1> QED
  BY <1>3, <1>4, <1>5, <1>6 DEF IInv

LEMMA KillIInv ==
  ASSUME IInv, Kill PROVE IInv'
<1>1. /\ kills' = kills + 1 /\ kills' \in 0..MaxKills /\ kills' # 0
      /\ pc' = [m \in Memories |-> IF Running(m) THEN "killed" ELSE pc[m]]
      /\ UNCHANGED <<text, idx, seen, found, stamp, stored, until, forgotten, now, faults, past>>
  BY FactAssumption DEF Kill, IInv, TypeOK
<1>2. \A m \in Memories : pc'[m] = "killed" \/ (pc'[m] = pc[m] /\ pc[m] \in {"new", "done", "panicked"})
  BY <1>1 DEF Running, Over, IInv, TypeOK
<1>3. \A f, g : Contradicts(f, g)' = Contradicts(f, g) /\ This(f)' = This(f)
  BY <1>1 DEF Contradicts, Fact, This
<1>4. TypeOK'
  BY <1>1 DEF IInv, TypeOK
<1>5. StoredInv'
  BY <1>1, <1>2, FactIdParts DEF IInv, TypeOK, StoredInv
<1>6. WorkInv' /\ FoundInv'
  BY <1>1, <1>2, <1>3 DEF IInv, WorkInv, FoundInv
<1>7. TimeInv'
  BY <1>1, <1>2 DEF IInv, TimeInv, IntervalsRunForward
<1>8. ContradictionsAreHandled'
  BY <1>1, <1>3 DEF IInv, ContradictionsAreHandled
<1> QED
  BY <1>4, <1>5, <1>6, <1>7, <1>8 DEF IInv

LEMMA StutterIInv ==
  ASSUME IInv, UNCHANGED vars PROVE IInv'
<1>1. \A f, g : Contradicts(f, g)' = Contradicts(f, g) /\ This(f)' = This(f)
  BY DEF vars, Contradicts, Fact, This
<1>2. TypeOK' /\ StoredInv' /\ WorkInv' /\ FoundInv' /\ TimeInv'
  BY <1>1 DEF vars, IInv, TypeOK, StoredInv, WorkInv, FoundInv, TimeInv,
              IntervalsRunForward
<1>3. ContradictionsAreHandled'
  BY <1>1 DEF vars, IInv, ContradictionsAreHandled, Handles, IsCurrent
<1> QED
  BY <1>2, <1>3 DEF IInv

LEMMA NextIInv == IInv /\ [Next]_vars => IInv'
BY RetainIInv, ExtractIInv, NextFactIInv, InsertIInv, DetectIInv, DecideIInv,
   ResolveIInv, ResolvedIInv, ForgetIInv, TickIInv, KillIInv, StutterIInv
   DEF Next, TaskStep

LEMMA Invariance == Spec => []IInv
BY InitIInv, NextIInv, PTL DEF Spec

-----------------------------------------------------------------------------
(* The theorems.                                                           *)

(* Type correctness of the timeline.                                       *)
THEOREM TimelineTypes == Spec => []TypeOK
<1>1. IInv => TypeOK
  BY DEF IInv
<1> QED
  BY Invariance, <1>1, PTL

(* However the background tasks interleave, no two of them miss each       *)
(* other: current facts that contradict each other have a task that is     *)
(* about to end one of them.                                               *)
THEOREM ContradictionsHandled == Spec => []ContradictionsAreHandled
<1>1. IInv => ContradictionsAreHandled
  BY DEF IInv
<1> QED
  BY Invariance, <1>1, PTL

(* A key has at most one current object when no task is at work, no        *)
(* statement has failed and the process has not exited.                    *)
OneObjectAtRest ==
  (faults = 0 /\ kills = 0 /\ \A m \in Memories : ~Running(m)) =>
    \A f, g \in stored : IsCurrent(f) /\ IsCurrent(g) => ~Contradicts(f, g)

THEOREM OneObjectPerKey == Spec => []OneObjectAtRest
<1>1. IInv => OneObjectAtRest
  <2> SUFFICES ASSUME IInv, faults = 0, kills = 0,
                      \A m \in Memories : ~Running(m),
                      NEW f \in stored, NEW g \in stored,
                      IsCurrent(f), IsCurrent(g), Contradicts(f, g)
               PROVE  FALSE
    BY DEF OneObjectAtRest
  <2>1. Handles(f, g) \/ Handles(g, f)
    BY DEF IInv, ContradictionsAreHandled
  <2>2. f[1] \in Memories /\ g[1] \in Memories
    BY FactIdParts DEF IInv, TypeOK
  <2> QED
    BY <2>1, <2>2 DEF Handles, Running, Over
<1> QED
  BY Invariance, <1>1, PTL

(* Every interval of validity runs forward in time.                        *)
THEOREM IntervalsForward == Spec => []IntervalsRunForward
<1>1. IInv => IntervalsRunForward
  BY DEF IInv, TimeInv
<1> QED
  BY Invariance, <1>1, PTL

-----------------------------------------------------------------------------
(* What ends a fact.                                                       *)

(* A task that was over when another began is over.                        *)
PastInv == \A m \in Memories : \A n \in past[m] : Over(n)

(* g ends f: a later line of the same text, or of a task that was not over *)
(* when that of f began.                                                   *)
Rival(f, g) ==
  Contradicts(f, g) /\ IF g[1] = f[1] THEN f[2] < g[2] ELSE g[1] \notin past[f[1]]

LEMMA OverStays ==
  ASSUME IInv, [Next]_vars, NEW n \in Memories, Over(n) PROVE Over(n)'
<1> USE DEF Over, IInv, TypeOK
<1>1. ASSUME NEW m \in Memories, Retain(m) PROVE Over(n)'
  BY <1>1 DEF Retain
<1>2. ASSUME NEW m \in Memories, Extract(m) \/ NextFact(m) PROVE Over(n)'
  BY <1>2 DEF Extract, NextFact
<1>3. ASSUME NEW m \in Memories, Insert(m) \/ Detect(m) \/ Decide(m) PROVE Over(n)'
  BY <1>3 DEF Insert, Detect, Decide
<1>4. ASSUME NEW m \in Memories, Resolve(m) \/ Resolved(m) \/ Forget(m) PROVE Over(n)'
  BY <1>4 DEF Resolve, Resolved, Forget
<1>5. CASE Tick \/ Kill \/ UNCHANGED vars
  BY <1>5 DEF Tick, Kill, Running, vars
<1> QED
  BY <1>1, <1>2, <1>3, <1>4, <1>5 DEF Next, TaskStep

LEMMA PastStep == IInv /\ PastInv /\ [Next]_vars => PastInv'
<1> SUFFICES ASSUME IInv, PastInv, [Next]_vars, NEW m \in Memories, NEW n \in past'[m]
             PROVE  Over(n)'
  BY DEF PastInv
<1>1. past'[m] = past[m] \/ past'[m] = {k \in Memories : Over(k)}
  BY DEF Next, TaskStep, Retain, Extract, NextFact, Insert, Detect, Decide, Resolve,
         Resolved, Forget, Tick, Kill, vars, IInv, TypeOK
<1>2. n \in Memories /\ Over(n)
  BY <1>1 DEF PastInv, IInv, TypeOK
<1> QED
  BY <1>2, OverStays

(* No step takes a rival away from a stored fact.                          *)
LEMMA RivalStays ==
  ASSUME IInv, [Next]_vars, NEW f \in stored, NEW g \in stored, Rival(f, g)
  PROVE  f \in stored' /\ g \in stored' /\ Rival(f, g)'
<1> USE DEF IInv, TypeOK
<1>f. \A h \in stored : h[1] \in Memories /\ pc[h[1]] \notin {"new", "spawned"}
  BY FactIdParts DEF StoredInv
<1>1. stored \subseteq stored'
  BY DEF Next, TaskStep, Retain, Extract, NextFact, Insert, Detect, Decide, Resolve,
         Resolved, Forget, Tick, Kill, vars
<1>2. \A h \in stored : text'[h[1]] = text[h[1]]
  BY <1>f DEF Next, TaskStep, Retain, Extract, NextFact, Insert, Detect, Decide, Resolve,
         Resolved, Forget, Tick, Kill, vars
<1>3. \A h \in stored : past'[h[1]] = past[h[1]]
  BY <1>f DEF Next, TaskStep, Retain, Extract, NextFact, Insert, Detect, Decide, Resolve,
         Resolved, Forget, Tick, Kill, vars
<1> QED
  BY <1>1, <1>2, <1>3 DEF Rival, Contradicts, Fact

(* A fact gets its end from a task that is at work on a rival.             *)
LEMMA EndGiven ==
  ASSUME IInv, PastInv, [Next]_vars, faults = 0,
         NEW f \in stored', until'[f] # None, f[1] \notin forgotten'
  PROVE  /\ f \in stored
         /\ \/ until[f] # None /\ f[1] \notin forgotten
            \/ \E g \in stored : Rival(f, g)
<1> USE DEF IInv, TypeOK
<1>1. ASSUME NEW m \in Memories, Insert(m) PROVE f \in stored /\ until[f] # None /\ f[1] \notin forgotten
  <2>1. This(m) \in FactId /\ stored' \subseteq stored \cup {This(m)} /\ UNCHANGED <<until, forgotten>>
    BY <1>1, ThisIsFactId DEF Insert
  <2> QED BY <2>1 DEF StoredInv
<1>2. ASSUME NEW m \in Memories, Forget(m) PROVE f \in stored /\ until[f] # None /\ f[1] \notin forgotten
  <2>1. f \in FactId /\ UNCHANGED stored /\ f[1] # m /\ f[1] \notin forgotten
    BY <1>2 DEF Forget
  <2> QED BY <1>2, <2>1 DEF Forget
<1>3. ASSUME NEW m \in Memories, Resolve(m)
      PROVE  /\ f \in stored
             /\ \/ until[f] # None /\ f[1] \notin forgotten
                \/ \E g \in stored : Rival(f, g)
  <2>1. PICK g \in found[m] : until' = [until EXCEPT ![g] = stamp[m]]
    BY <1>3 DEF Resolve
  <2>2. pc[m] = "resolve" /\ UNCHANGED <<stored, forgotten>> /\ f \in FactId
    BY <1>3 DEF Resolve
  <2>3. CASE f # g
    BY <2>1, <2>2, <2>3
  <2>4. CASE f = g
    <3>1. /\ This(m) \in stored /\ This(m)[1] = m /\ This(m)[2] = idx[m]
          /\ Contradicts(This(m), f)
      BY <2>2, <2>4, ThisIsFactId DEF WorkInv, FoundInv
    <3>2. Contradicts(f, This(m)) /\ f # This(m)
      BY <3>1, ContradictsSymmetric DEF Contradicts
    <3>3. CASE f[1] = m
      <4>1. f[2] <= idx[m] /\ f = <<f[1], f[2]>> /\ f[2] \in Nat /\ idx[m] \in Nat
        BY <2>2, <3>3, FactIdParts, FactAssumption DEF StoredInv
      <4>2. f[2] < idx[m]
        BY <4>1, <3>2, <3>3 DEF This
      <4> QED BY <2>2, <3>1, <3>2, <3>3, <4>2 DEF Rival
    <3>4. CASE f[1] # m
      <4>1. f[1] \in Memories /\ m \notin past[f[1]]
        BY <2>2, FactIdParts DEF PastInv, Over
      <4> QED BY <2>2, <3>1, <3>2, <3>4, <4>1 DEF Rival
    <3> QED BY <3>3, <3>4
  <2> QED BY <2>3, <2>4
<1>4. ASSUME NEW m \in Memories,
             Retain(m) \/ Extract(m) \/ NextFact(m) \/ Detect(m) \/ Decide(m) \/ Resolved(m)
      PROVE  UNCHANGED <<stored, until, forgotten>>
  BY <1>4 DEF Retain, Extract, NextFact, Detect, Decide, Resolved
<1>5. CASE Tick \/ Kill \/ UNCHANGED vars
  BY <1>5 DEF Tick, Kill, vars
<1> QED
  BY <1>1, <1>2, <1>3, <1>4, <1>5 DEF Next, TaskStep

LEMMA RivalStep == IInv /\ PastInv /\ EndedHasRival /\ [Next]_vars => EndedHasRival'
<1> SUFFICES ASSUME IInv, PastInv, EndedHasRival, [Next]_vars, faults' = 0,
                    NEW f \in stored', until'[f] # None, f[1] \notin forgotten'
             PROVE  \E g \in stored' : Rival(f, g)'
  BY DEF EndedHasRival, Rival
<1>1. faults = 0
  BY FactAssumption DEF Next, TaskStep, Retain, Extract, NextFact, Insert, Detect, Decide,
     Resolve, Resolved, StatementFails, Forget, Tick, Kill, vars, IInv, TypeOK
<1>2. f \in stored /\ \E g \in stored : Rival(f, g)
  BY <1>1, EndGiven DEF EndedHasRival, Rival
<1> QED
  BY <1>2, RivalStays

(* A fact that was not forgotten ends only for a contradicting one that    *)
(* its own text states later, or that another task recorded which was not  *)
(* over when its own began.                                                *)
THEOREM EndedFactsHaveRivals == Spec => []EndedHasRival
<1>1. Init => PastInv /\ EndedHasRival
  BY DEF Init, PastInv, EndedHasRival
<1> QED
  BY InitIInv, NextIInv, PastStep, RivalStep, <1>1, PTL DEF Spec

-----------------------------------------------------------------------------
(* The last word on a key within one text.                                 *)

(* An earlier line that a later one contradicts has an end, or the task is *)
(* at work on the later one, or was killed there.                          *)
EndedOrAtWork(f, g) == until[f] # None \/ Handles(g, f) \/ pc[g[1]] = "killed"

LineInv ==
  (faults = 0) =>
    \A f, g \in stored :
      (f[1] = g[1] /\ f[2] < g[2] /\ Contradicts(f, g)) => EndedOrAtWork(f, g)

LEMMA LineStep == IInv /\ LineInv /\ [Next]_vars => LineInv'
<1> SUFFICES ASSUME IInv, LineInv, [Next]_vars PROVE LineInv'
  OBVIOUS
<1>t. /\ \A f \in stored : f \in FactId /\ f[1] \in Memories /\ f[2] \in 1..MaxFacts /\ f = <<f[1], f[2]>>
      /\ faults \in Nat
  BY FactIdParts, FactAssumption DEF IInv, TypeOK
(* A step that stores nothing new and keeps what is ended or at work.      *)
<1>k. ASSUME faults' = 0 => faults = 0, UNCHANGED <<text, stored>>,
             ASSUME faults' = 0, NEW f \in stored, NEW g \in stored,
                    f[1] = g[1], Contradicts(f, g), EndedOrAtWork(f, g)
             PROVE  EndedOrAtWork(f, g)'
      PROVE  LineInv'
  <2>1. \A f, g : Contradicts(f, g)' = Contradicts(f, g)
    BY <1>k DEF Contradicts, Fact
  <2> QED BY <1>k, <2>1 DEF LineInv
<1>1. ASSUME NEW m \in Memories, Retain(m) PROVE LineInv'
  <2>1. /\ UNCHANGED <<idx, found, stored, until, faults>> /\ pc[m] = "new"
        /\ \A n \in Memories : n # m => pc'[n] = pc[n] /\ text'[n] = text[n]
    BY <1>1 DEF Retain, IInv, TypeOK
  <2>2. \A f \in stored : f[1] # m
    BY <2>1 DEF IInv, StoredInv
  <2>3. \A f, g \in stored : Contradicts(f, g)' = Contradicts(f, g)
    BY <1>t, <2>1, <2>2 DEF Contradicts, Fact
  <2> QED BY <1>t, <2>1, <2>2, <2>3 DEF LineInv, EndedOrAtWork, Handles
<1>2. ASSUME NEW m \in Memories, Extract(m) \/ NextFact(m) PROVE LineInv'
  <2>1. /\ UNCHANGED <<text, idx, found, stored, until, faults>> /\ pc[m] \in {"spawned", "next"}
        /\ \A n \in Memories : n # m => pc'[n] = pc[n]
    BY <1>2 DEF Extract, NextFact, IInv, TypeOK
  <2> QED BY <1>t, <1>k, <2>1 DEF EndedOrAtWork, Handles
<1>3. ASSUME NEW m \in Memories, Insert(m) PROVE LineInv'
  <2> SUFFICES ASSUME faults' = 0, NEW f \in stored', NEW g \in stored',
                      f[1] = g[1], f[2] < g[2], Contradicts(f, g)'
               PROVE  EndedOrAtWork(f, g)'
    BY DEF LineInv
  <2>1. /\ stored' = stored \cup {This(m)} /\ faults = 0
        /\ UNCHANGED <<text, idx, found, until>> /\ pc[m] = "insert" /\ pc'[m] = "detect"
        /\ \A n \in Memories : n # m => pc'[n] = pc[n]
    BY <1>3, <1>t DEF Insert, StatementFails, IInv, TypeOK
  <2>2. This(m)[1] = m /\ This(m)[2] = idx[m] /\ idx[m] \in Nat
    BY <2>1, ThisIsFactId, FactAssumption DEF IInv, TypeOK
  <2>3. Contradicts(f, g)
    BY <2>1 DEF Contradicts, Fact
  <2>4. CASE g = This(m)
    BY <2>1, <2>2, <2>4 DEF EndedOrAtWork, Handles
  <2>5. CASE g # This(m) /\ f = This(m)
    <3>1. g \in stored /\ g[1] = m /\ idx[m] < g[2]
      BY <2>1, <2>2, <2>5
    <3> QED BY <3>1, <1>t, <2>2 DEF IInv, StoredInv
  <2>6. CASE f \in stored /\ g \in stored
    <3>1. EndedOrAtWork(f, g)
      BY <2>1, <2>3, <2>6 DEF LineInv
    <3> QED BY <1>t, <2>1, <2>6, <3>1 DEF EndedOrAtWork, Handles
  <2> QED BY <2>1, <2>4, <2>5, <2>6
<1>4. ASSUME NEW m \in Memories, Detect(m) PROVE LineInv'
  <2>1. /\ UNCHANGED <<text, idx, stored, until>> /\ pc[m] = "detect" /\ pc'[m] = "decide"
        /\ faults' = 0 => faults = 0 /\ found'[m] = Conflicting(This(m))
        /\ \A n \in Memories : n # m => pc'[n] = pc[n] /\ found'[n] = found[n]
    BY <1>4, <1>t DEF Detect, StatementFails, IInv, TypeOK
  <2>2. ASSUME faults' = 0, NEW f \in stored, NEW g \in stored,
               f[1] = g[1], Contradicts(f, g), EndedOrAtWork(f, g)
        PROVE  EndedOrAtWork(f, g)'
    <3>1. CASE g[1] # m
      BY <1>t, <2>1, <2>2, <3>1 DEF EndedOrAtWork, Handles
    <3>2. CASE g[1] = m /\ Handles(g, f) /\ until[f] = None
      <4>1. g = This(m)
        BY <1>t, <3>2 DEF Handles, This
      <4>2. f \in Conflicting(This(m))
        BY <2>2, <3>2, <4>1, ContradictsSymmetric DEF Conflicting
      <4> QED BY <2>1, <2>2, <3>2, <4>2 DEF EndedOrAtWork, Handles
    <3> QED BY <2>1, <2>2, <3>1, <3>2 DEF EndedOrAtWork
  <2> QED BY <1>k, <2>1, <2>2
<1>5. ASSUME NEW m \in Memories, Decide(m) PROVE LineInv'
  <2>1. /\ UNCHANGED <<text, found, stored, until, faults>> /\ pc[m] = "decide"
        /\ \/ found[m] = {}
           \/ pc'[m] = "resolve" /\ idx'[m] = idx[m]
        /\ \A n \in Memories : n # m => pc'[n] = pc[n] /\ idx'[n] = idx[n]
    BY <1>5 DEF Decide, IInv, TypeOK
  <2> QED BY <1>t, <1>k, <2>1 DEF EndedOrAtWork, Handles
<1>6. ASSUME NEW m \in Memories, Resolve(m) PROVE LineInv'
  <2>1. PICK h \in found[m] : until' = [until EXCEPT ![h] = stamp[m]] /\ found' = [found EXCEPT ![m] = @ \ {h}]
    BY <1>6 DEF Resolve
  <2>2. /\ UNCHANGED <<pc, text, idx, stored, faults>>
        /\ stamp[m] # None /\ h \in FactId
        /\ \A f \in FactId : until'[f] = IF f = h THEN stamp[m] ELSE until[f]
        /\ \A n \in Memories : found'[n] = IF n = m THEN found[n] \ {h} ELSE found[n]
    <3>1. pc[m] = "resolve" /\ UNCHANGED <<pc, text, idx, stored, faults>>
      BY <1>6 DEF Resolve
    <3>2. stamp[m] # None /\ h \in FactId
      BY <2>1, FactAssumption DEF IInv, TypeOK
    <3>3. \A f \in FactId : until'[f] = IF f = h THEN stamp[m] ELSE until[f]
      BY <2>1, <3>2 DEF IInv, TypeOK
    <3>4. \A n \in Memories : found'[n] = IF n = m THEN found[n] \ {h} ELSE found[n]
      BY <2>1 DEF IInv, TypeOK
    <3> QED BY <3>1, <3>2, <3>3, <3>4
  <2> QED BY <1>t, <1>k, <2>2 DEF EndedOrAtWork, Handles
<1>7. ASSUME NEW m \in Memories, Resolved(m) PROVE LineInv'
  <2>1. /\ UNCHANGED <<text, stored, until>> /\ pc[m] = "resolve"
        /\ faults' = 0 => faults = 0 /\ found[m] = {}
        /\ \A n \in Memories : n # m => pc'[n] = pc[n] /\ idx'[n] = idx[n] /\ found'[n] = found[n]
    BY <1>7, <1>t DEF Resolved, StatementFails, IInv, TypeOK
  <2> QED BY <1>t, <1>k, <2>1 DEF EndedOrAtWork, Handles
<1>8. ASSUME NEW m \in Memories, Forget(m) PROVE LineInv'
  <2>1. /\ UNCHANGED <<pc, text, idx, found, stored, faults>>
        /\ \A f \in FactId : until[f] # None => until'[f] # None
    BY <1>8, FactAssumption DEF Forget, IsCurrent, IInv, TypeOK
  <2> QED BY <1>t, <1>k, <2>1 DEF EndedOrAtWork, Handles
<1>9. CASE Tick
  <2>1. UNCHANGED <<pc, text, idx, found, stored, until, faults>>
    BY <1>9 DEF Tick
  <2> QED BY <1>t, <1>k, <2>1 DEF EndedOrAtWork, Handles
<1>10. CASE Kill
  <2>1. /\ UNCHANGED <<text, idx, found, stored, until, faults>>
        /\ \A n \in Memories : pc[n] \in {"detect", "decide", "resolve", "killed"} => pc'[n] = "killed"
    BY <1>10 DEF Kill, Running, Over, IInv, TypeOK
  <2> QED BY <1>t, <1>k, <2>1 DEF EndedOrAtWork, Handles
<1>11. CASE UNCHANGED vars
  BY <1>11, <1>k DEF vars, EndedOrAtWork, Handles
<1> QED
  BY <1>1, <1>2, <1>3, <1>4, <1>5, <1>6, <1>7, <1>8, <1>9, <1>10, <1>11 DEF Next, TaskStep

(* The last word on a key within one text wins.                            *)
THEOREM LastWordWins == Spec => []LaterLineWins
<1>1. Init => LineInv
  BY DEF Init, LineInv
<1>2. IInv /\ LineInv => LaterLineWins
  <2> SUFFICES ASSUME IInv, LineInv, faults = 0, NEW f \in stored, NEW g \in stored,
                      f[1] = g[1], pc[f[1]] = "done", f[2] < g[2], Contradicts(f, g)
               PROVE  until[f] # None
    BY DEF LaterLineWins
  <2>1. EndedOrAtWork(f, g)
    BY DEF LineInv
  <2> QED BY <2>1 DEF EndedOrAtWork, Handles
<1> QED
  BY InitIInv, NextIInv, LineStep, <1>1, <1>2, PTL DEF Spec
=============================================================================
