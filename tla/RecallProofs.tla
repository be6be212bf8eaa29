------------------------------ MODULE RecallProofs ------------------------------
(***************************************************************************)
(* What a recall returns is in scope, for any store, any number of changes *)
(* to it while the recall runs, any answers of the four searches.          *)
(*                                                                         *)
(* The archive only grows, so what the snapshot lets pass was not archived *)
(* when the request came; and nothing gets into the response but through   *)
(* the snapshot and the gate.                                              *)
(*                                                                         *)
(* What all searches rank alike keeps its order.  The weight of a rank     *)
(* falls from rank to rank, so each answer adds at least as much to the    *)
(* score of a memory as to that of one it is ahead of, and more as soon as *)
(* it adds anything to the latter.                                         *)
(***************************************************************************)
EXTENDS Recall, WellFoundedInduction, TLAPS

(* The request was granted and the snapshot was taken for it.              *)
SnapshotInScope ==
  /\ phase \in {"snapshot", "search", "done"} /\ want.stream # NoStream => want.stream \in Readable
  /\ \A m \in snap :
       /\ phase \in {"search", "done"}
       /\ want.stream # NoStream => StreamOf[m] = want.stream
       /\ want.include \/ m \notin hidden

(* The response is a gated part of the snapshot.                           *)
HitsFromSnapshot ==
  \A m \in Elements(hits) : m \in snap /\ (cloud => m \in Eligible)

IInv ==
  /\ want.include \in BOOLEAN
  /\ hidden \subseteq archived
  /\ phase = "snapshot" => snap = {}
  /\ phase # "done" => hits = <<>>
  /\ SnapshotInScope
  /\ HitsFromSnapshot

LEMMA NoHits == hits = <<>> => Elements(hits) = {}
BY DEF Elements

LEMMA InitInv == RecallInit => IInv
BY NoHits DEF RecallInit, IInv, SnapshotInScope, HitsFromSnapshot

(* Changes to the store only add to the archive.                           *)
LEMMA ChangeInv ==
  ASSUME IInv, Change, archived \subseteq archived'
  PROVE  IInv'
<1> USE DEF Change, query, setting, history
<1>1. hidden' \subseteq archived'
  BY DEF IInv
<1>2. Elements(hits)' = Elements(hits)
  BY DEF Elements
<1>3. SnapshotInScope'
  BY DEF IInv, SnapshotInScope
<1>4. HitsFromSnapshot'
  BY <1>2 DEF IInv, HitsFromSnapshot
<1> QED BY <1>1, <1>3, <1>4 DEF IInv

(* An answer of a search adds to the scores alone.                         *)
LEMMA AnswerInv ==
  ASSUME IInv, NEW strategy, NEW list, Answer(strategy, list)
  PROVE  IInv'
<1> USE DEF Answer, store, setting
<1>1. Elements(hits)' = Elements(hits)
  BY DEF Elements
<1>2. SnapshotInScope'
  BY DEF IInv, SnapshotInScope
<1>3. HitsFromSnapshot'
  BY <1>1 DEF IInv, HitsFromSnapshot
<1> QED BY <1>2, <1>3 DEF IInv

LEMMA NextInv == IInv /\ [RecallNext]_recallVars => IInv'
<1> SUFFICES ASSUME IInv, [RecallNext]_recallVars PROVE IInv'
  OBVIOUS
<1>1. ASSUME NEW m \in Memories, InsertRow(m)
      PROVE  IInv'
  BY <1>1, ChangeInv DEF InsertRow
<1>2. ASSUME NEW m \in Memories, Archive(m)
      PROVE  IInv'
  BY <1>2, ChangeInv DEF Archive
<1>3. ASSUME NEW stream \in Streams \cup {NoStream}, NEW include \in BOOLEAN, Ask(stream, include)
      PROVE  IInv'
  <2>1. hits' = <<>> /\ snap = {} /\ snap' = {}
    BY <1>3 DEF Ask, IInv, SnapshotInScope
  <2>2. hidden' \subseteq archived' /\ want'.include \in BOOLEAN
    BY <1>3 DEF Ask, store
  <2>3. SnapshotInScope'
    BY <1>3, <2>1 DEF Ask, SnapshotInScope
  <2>4. Elements(hits)' = {}
    BY <2>1 DEF Elements
  <2> QED BY <1>3, <2>1, <2>2, <2>3, <2>4 DEF Ask, IInv, HitsFromSnapshot
<1>4. CASE TakeSnapshot
  <2> USE <1>4 DEF TakeSnapshot, store, setting, history
  <2>1. hits' = <<>> /\ hidden' \subseteq archived' /\ want' = want
    BY DEF IInv
  <2>2. \A m \in snap' : InStream(m) /\ NotHidden(m)
    BY DEF Visible
  <2>3. SnapshotInScope'
    BY <2>2 DEF IInv, SnapshotInScope, InStream, NotHidden
  <2>4. Elements(hits)' = {}
    BY <2>1 DEF Elements
  <2> QED BY <2>1, <2>3, <2>4 DEF IInv, HitsFromSnapshot
<1>5. CASE Semantic
  BY <1>5, AnswerInv DEF Semantic
<1>6. CASE Keyword
  BY <1>6, AnswerInv DEF Keyword
<1>7. CASE Temporal
  BY <1>7, AnswerInv DEF Temporal
<1>8. CASE Graph
  BY <1>8, AnswerInv DEF Graph
<1>9. CASE NoAnswer
  BY <1>9, AnswerInv DEF NoAnswer
<1>10. CASE Respond
  <2> USE <1>10 DEF Respond, store, setting, history
  <2>1. PICK list \in Lists(Candidates, TopK) :
          hits' \in {rest \in Lists(Elements(list), TopK) : Gated(list, rest)}
    OBVIOUS
  <2>2. Elements(list) \subseteq Candidates
    BY <2>1 DEF Lists, Elements
  <2>3. Elements(hits') = {m \in Elements(list) : Passes(m)}
    BY <2>1 DEF Gated
  <2>4. \A m \in Elements(hits') : m \in snap' /\ (cloud' => m \in Eligible)
    BY <2>2, <2>3 DEF Candidates, Passes
  <2>5. SnapshotInScope'
    BY DEF IInv, SnapshotInScope
  <2>6. HitsFromSnapshot'
    BY <2>4 DEF HitsFromSnapshot, Elements
  <2> QED BY <2>5, <2>6 DEF IInv
<1>11. CASE Fail
  <2> USE <1>11 DEF Fail, store, setting
  <2>1. hits' = <<>>
    BY DEF IInv
  <2>2. Elements(hits)' = {}
    BY <2>1 DEF Elements
  <2> QED BY <2>1, <2>2 DEF IInv, SnapshotInScope, HitsFromSnapshot
<1>12. CASE UNCHANGED recallVars
  <2> USE <1>12 DEF recallVars, store, setting, query, history
  <2>1. Elements(hits)' = Elements(hits)
    BY DEF Elements
  <2>2. SnapshotInScope' /\ HitsFromSnapshot'
    BY <2>1 DEF IInv, SnapshotInScope, HitsFromSnapshot
  <2> QED BY <2>2 DEF IInv
<1> QED
  BY <1>1, <1>2, <1>3, <1>4, <1>5, <1>6, <1>7, <1>8, <1>9, <1>10, <1>11, <1>12 DEF RecallNext

(* Whatever the searches find and however the store changes meanwhile, the *)
(* response has memories of the asked and readable stream, not archived    *)
(* before the request, and in the Cloud tier eligible ones only.           *)
THEOREM RecallStaysInScope == RecallSpec => []HitsInScope
<1>1. RecallSpec => []IInv
  BY InitInv, NextInv, PTL DEF RecallSpec
<1>2. IInv => HitsInScope
  <2> SUFFICES ASSUME IInv, NEW m \in Elements(hits)
               PROVE  /\ want.stream # NoStream =>
                           want.stream \in Readable /\ StreamOf[m] = want.stream
                      /\ want.include \/ m \notin hidden
                      /\ cloud => m \in Eligible
    BY DEF HitsInScope
  <2>1. m \in snap /\ (cloud => m \in Eligible)
    BY DEF IInv, HitsFromSnapshot
  <2> QED BY <2>1 DEF IInv, SnapshotInScope
<1> QED BY <1>1, <1>2, PTL

--------------------------------------------------------------------------------
(* A set of naturals that is not empty has a least element.                *)
LEMMA LeastNatural ==
  ASSUME NEW T, T \subseteq Nat, T # {}
  PROVE  \E n \in T : \A k \in T : n <= k
<1>1. \E n \in T : \A k \in T : ~ (<<k, n>> \in OpToRel(<, Nat))
  BY WFMin, NatLessThanWellFounded
<1>2. PICK n \in T : \A k \in T : ~ (<<k, n>> \in OpToRel(<, Nat))
  BY <1>1
<1>3. \A k \in T : ~ (k < n)
  BY <1>2 DEF OpToRel
<1> QED BY <1>3

(* Induction up to n: a set with 0 and with each number its successor has  *)
(* all.  A recursive function is what solves its equation, by this.        *)
LEMMA StepsReach ==
  ASSUME NEW n \in Nat, NEW T, 0 \in T,
         \A i \in 1 .. n : i - 1 \in T => i \in T
  PROVE  0 .. n \subseteq T
<1> DEFINE Missed == {i \in 0 .. n : i \notin T}
<1> SUFFICES ASSUME Missed # {} PROVE FALSE
  OBVIOUS
<1>1. Missed \subseteq Nat
  OBVIOUS
<1>2. PICK i \in Missed : \A k \in Missed : i <= k
  BY <1>1, LeastNatural
<1>3. i \in 1 .. n /\ i - 1 \in 0 .. n
  BY <1>2
<1>4. i - 1 \notin Missed
  BY <1>2, <1>3
<1> QED BY <1>3, <1>4

(* A list without repetition.                                              *)
NoRepeat(list) == \A i, j \in 1 .. Len(list) : list[i] = list[j] => i = j

(* A better rank weighs more, because the unit is fine enough.             *)
LEMMA WeightFalls ==
  ASSUME NEW i \in Nat, NEW j \in 1 .. TopK, i < j
  PROVE  /\ Weight(i) \in Nat /\ Weight(j) \in Nat
         /\ Weight(i) > Weight(j)
         /\ Weight(j) > 0
<1> DEFINE a == 60 + i
           b == 60 + j
           q == Scale \div b
<1>1. a \in Nat /\ b \in Nat /\ a <= b - 1 /\ a > 0 /\ b > 0 /\ b <= 60 + TopK
  BY RecallAssumption
<1>2. Scale \in Nat /\ Scale >= b * b
  <2>1. TopK \in Nat
    BY RecallAssumption
  <2>2. b * b <= (60 + TopK) * (60 + TopK)
    BY <1>1, <2>1
  <2> QED BY <1>1, <2>1, <2>2, RecallAssumption
<1> HIDE DEF a, b
<1>3. q \in Nat /\ b * q <= Scale /\ Scale < b * (q + 1)
  BY <1>1, <1>2
<1>4. q >= b
  BY <1>1, <1>2, <1>3
<1>5. a * (q + 1) <= Scale
  <2> HIDE DEF q
  <2>1. a * (q + 1) <= (b - 1) * (q + 1)
    BY <1>1, <1>3
  <2>2. (b - 1) * (q + 1) = b * q - q + b - 1
    BY <1>1, <1>3
  <2>3. a * (q + 1) \in Nat /\ b * q \in Nat
    BY <1>1, <1>3
  <2> QED BY <1>1, <1>2, <1>3, <1>4, <2>1, <2>2, <2>3
<1>6. Scale \div a \in Nat /\ Scale \div a >= q + 1
  <2> HIDE DEF q
  <2> DEFINE p == Scale \div a
  <2>1. p \in Nat /\ Scale < a * (p + 1)
    BY <1>1, <1>2
  <2> HIDE DEF p
  <2>2. a * (q + 1) < a * (p + 1)
    BY <1>1, <1>2, <1>3, <1>5, <2>1
  <2>3. q + 1 < p + 1
    BY <1>1, <1>3, <2>1, <2>2
  <2>4. p >= q + 1
    BY <1>3, <2>1, <2>3
  <2> QED BY <2>1, <2>4 DEF p
<1>7. Weight(i) = Scale \div a /\ Weight(j) = q
  BY DEF Weight, a, b
<1> QED BY <1>1, <1>3, <1>4, <1>6, <1>7

(* What a list without repetition adds to a score: the weight of the place *)
(* of the memory in the list, nothing for a memory it does not name.       *)
LEMMA ScoreOfPlace ==
  ASSUME NEW list \in Seq(Memories), NoRepeat(list), Len(list) <= TopK, NEW m
  PROVE  /\ \A i \in 1 .. Len(list) : list[i] = m => ScoreIn(list, m) = Weight(i)
         /\ (\A i \in 1 .. Len(list) : list[i] # m) => ScoreIn(list, m) = 0
<1> DEFINE n == Len(list)
           next(i, before) == before + (IF list[i] = m THEN Weight(i) ELSE 0)
           F(f) == [i \in 0 .. n |-> IF i = 0 THEN 0 ELSE next(i, f[i - 1])]
           total(i) == IF \E j \in 1 .. i : list[j] = m
                       THEN Weight(CHOOSE j \in 1 .. n : list[j] = m) ELSE 0
           g == [i \in 0 .. n |-> total(i)]
           f == CHOOSE h : h = F(h)
<1>1. n \in Nat /\ TopK \in Nat
  BY RecallAssumption
<1>2. \A j \in 1 .. n : Weight(j) \in Nat
  BY <1>1, WeightFalls
<1>3. \A j \in 1 .. n : list[j] = m => (CHOOSE k \in 1 .. n : list[k] = m) = j
  BY <1>1 DEF NoRepeat
<1>4. g = F(g)
  <2>1. ASSUME NEW i \in 0 .. n, i # 0, list[i] = m
        PROVE  total(i) = next(i, total(i - 1))
    <3>1. i \in 1 .. n /\ ~ \E j \in 1 .. i - 1 : list[j] = m
      BY <1>1, <2>1 DEF NoRepeat
    <3>2. (CHOOSE j \in 1 .. n : list[j] = m) = i
      BY <3>1, <2>1, <1>3
    <3>3. \E j \in 1 .. i : list[j] = m
      BY <3>1, <2>1
    <3>4. total(i - 1) = 0 /\ total(i) = Weight(i)
      BY <3>1, <3>2, <3>3
    <3> QED BY <3>1, <3>4, <2>1, <1>2
  <2>2. ASSUME NEW i \in 0 .. n, i # 0, list[i] # m
        PROVE  total(i) = next(i, total(i - 1))
    <3>1. (\E j \in 1 .. i - 1 : list[j] = m) <=> (\E j \in 1 .. i : list[j] = m)
      BY <1>1, <2>2
    <3>2. total(i) = total(i - 1) /\ total(i) \in Nat
      BY <1>1, <3>1, <1>2, <1>3
    <3> QED BY <3>2, <2>2
  <2>3. total(0) = 0
    OBVIOUS
  <2>4. \A i \in 0 .. n : i # 0 => i - 1 \in 0 .. n
    BY <1>1
  <2> HIDE DEF total, next
  <2>5. \A i \in 0 .. n : total(i) = IF i = 0 THEN 0 ELSE next(i, g[i - 1])
    BY <2>1, <2>2, <2>3, <2>4
  <2> QED BY <2>5
<1>5. f = F(f)
  <2> HIDE DEF g, F
  <2> QED BY <1>4
<1>6. f[n] = g[n]
  <2> HIDE DEF f, g, n
  <2> DEFINE Same == {i \in 0 .. n : f[i] = g[i]}
  <2>1. 0 \in Same
    BY <1>1, <1>4, <1>5
  <2>2. \A i \in 1 .. n : i - 1 \in Same => i \in Same
    BY <1>1, <1>4, <1>5
  <2> HIDE DEF Same
  <2>3. 0 .. n \subseteq Same
    BY <1>1, <2>1, <2>2, StepsReach
  <2> QED BY <1>1, <2>3 DEF Same
<1>7. ScoreIn(list, m) = f[n]
  BY DEF ScoreIn
<1>8. n \in 0 .. n
  BY <1>1
<1>9. ASSUME NEW i \in 1 .. n, list[i] = m
      PROVE  g[n] = Weight(i)
  <2>1. (CHOOSE j \in 1 .. n : list[j] = m) = i
    BY <1>3, <1>9
  <2>2. \E j \in 1 .. n : list[j] = m
    BY <1>9
  <2> QED BY <2>1, <2>2, <1>8
<1>10. ASSUME \A i \in 1 .. n : list[i] # m
       PROVE  g[n] = 0
  BY <1>8, <1>10
<1> QED BY <1>6, <1>7, <1>9, <1>10

(* Lists have no repetition and a bounded length.                          *)
LEMMA ListFacts ==
  ASSUME NEW S, NEW k \in Nat, NEW list \in Lists(S, k)
  PROVE  list \in Seq(S) /\ Len(list) \in Nat /\ Len(list) <= k /\ NoRepeat(list)
<1>1. PICK n \in 0 .. k : list \in [1 .. n -> S]
  BY DEF Lists
<1>2. Len(list) = n /\ list \in Seq(S)
  BY <1>1
<1> QED BY <1>2 DEF Lists, NoRepeat

(* An index that names each memory once answers with the ranking itself.   *)
LEMMA OneCopyEach ==
  ASSUME NEW S, NEW list \in Seq(S), NEW times,
         \A i \in 1 .. Len(list) : times[i] = 1
  PROVE  Copies(list, times) = list
<1> DEFINE n == Len(list)
           next(i, before) == before \o [k \in 1 .. times[i] |-> list[i]]
           F(f) == [i \in 0 .. n |-> IF i = 0 THEN <<>> ELSE next(i, f[i - 1])]
           g == [i \in 0 .. n |-> SubSeq(list, 1, i)]
           f == CHOOSE h : h = F(h)
<1>1. n \in Nat
  OBVIOUS
<1>2. g = F(g)
  <2>1. SubSeq(list, 1, 0) = <<>>
    OBVIOUS
  <2>2. ASSUME NEW i \in 1 .. n
        PROVE  SubSeq(list, 1, i) = next(i, SubSeq(list, 1, i - 1))
    <3>1. [k \in 1 .. times[i] |-> list[i]] = <<list[i]>>
      <4>1. times[i] = 1
        BY <2>2
      <4> QED BY <4>1
    <3>2. SubSeq(list, 1, i) = SubSeq(list, 1, i - 1) \o <<list[i]>>
      <4> DEFINE a == SubSeq(list, 1, i)
                 b == SubSeq(list, 1, i - 1)
      <4>1. a \in Seq(S) /\ Len(a) = i /\ \A k \in 1 .. i : a[k] = list[k]
        BY <1>1, <2>2
      <4>2. b \in Seq(S) /\ Len(b) = i - 1 /\ \A k \in 1 .. i - 1 : b[k] = list[k]
        BY <1>1, <2>2
      <4>3. list[i] \in S
        BY <2>2
      <4> HIDE DEF a, b
      <4>4. b \o <<list[i]>> \in Seq(S) /\ Len(b \o <<list[i]>>) = i
        BY <4>2, <4>3, <2>2
      <4>5. \A k \in 1 .. i : (b \o <<list[i]>>)[k] = list[k]
        BY <4>2, <4>3, <2>2
      <4> QED BY <4>1, <4>4, <4>5 DEF a, b
    <3> QED BY <3>1, <3>2
  <2>3. \A i \in 0 .. n : i # 0 => i - 1 \in 0 .. n /\ i \in 1 .. n
    BY <1>1
  <2> HIDE DEF next
  <2>4. \A i \in 0 .. n : SubSeq(list, 1, i) = IF i = 0 THEN <<>> ELSE next(i, g[i - 1])
    BY <2>1, <2>2, <2>3
  <2> QED BY <2>4
<1>3. f = F(f)
  <2> HIDE DEF g, F
  <2> QED BY <1>2
<1>4. f[n] = g[n]
  <2> HIDE DEF f, g, n, next
  <2> DEFINE Same == {i \in 0 .. n : f[i] = g[i]}
  <2>1. 0 \in Same
    BY <1>1, <1>2, <1>3
  <2>2. \A i \in 1 .. n : i - 1 \in Same => i \in Same
    BY <1>1, <1>2, <1>3
  <2> HIDE DEF Same
  <2>3. 0 .. n \subseteq Same
    BY <1>1, <2>1, <2>2, StepsReach
  <2> QED BY <1>1, <2>3 DEF Same
<1>5. Copies(list, times) = f[n]
  BY DEF Copies
<1>6. g[n] = SubSeq(list, 1, n)
  BY <1>1
<1>7. SubSeq(list, 1, n) = list
  OBVIOUS
<1> QED BY <1>4, <1>5, <1>6, <1>7

(* The cut at top_k leaves a list alone that is short enough.              *)
LEMMA FirstOfShort ==
  ASSUME NEW S, NEW list \in Seq(S), Len(list) <= TopK
  PROVE  FirstOf(list) = list
<1>1. Len(list) \in Nat /\ TopK \in Nat
  BY RecallAssumption
<1>2. FirstOf(list) = SubSeq(list, 1, Len(list))
  BY <1>1 DEF FirstOf
<1> QED BY <1>2

(* What an answer may be when no index row is there twice.                 *)
Answers == {list \in Seq(Memories) : NoRepeat(list) /\ Len(list) <= TopK}

(* The scores follow the order that the searches agree on.                 *)
OrderOfScores ==
  /\ score \in [Memories -> Nat]
  /\ \A pair \in ahead :
       /\ score[pair[1]] >= score[pair[2]]
       /\ score[pair[2]] > 0 => score[pair[1]] > score[pair[2]]

(* The inductive invariant: no row is there twice, nothing is scored       *)
(* before the search and nothing returned before the response.             *)
OrderInv ==
  /\ corpus \in Seq(Memories) /\ NoRepeat(corpus)
  /\ reruns \in Nat
  /\ ahead \subseteq Memories \X Memories
  /\ phase \in {"idle", "snapshot"} => \A m \in Memories : score[m] = 0
  /\ phase # "done" => hits = <<>>
  /\ reruns = 0 => OrderOfScores
  /\ UnanimousOrder

(* An answer without repetition keeps the scores in the agreed order.      *)
LEMMA AnswerOrder ==
  ASSUME OrderInv, reruns = 0, NEW strategy, NEW list \in Answers, Answer(strategy, list)
  PROVE  OrderOfScores'
<1> DEFINE s(m) == ScoreIn(list, m)
<1>1. /\ list \in Seq(Memories) /\ NoRepeat(list)
      /\ Len(list) \in Nat /\ TopK \in Nat /\ Len(list) <= TopK
  BY RecallAssumption DEF Answers
<1>2. \A m \in Memories, i \in 1 .. Len(list) :
        list[i] = m => s(m) = Weight(i)
  BY <1>1, ScoreOfPlace
<1>3. \A m \in Memories : (\A i \in 1 .. Len(list) : list[i] # m) => s(m) = 0
  BY <1>1, ScoreOfPlace
<1>4. \A i \in 1 .. Len(list) : Weight(i) \in Nat /\ Weight(i) > 0
  <2> TAKE i \in 1 .. Len(list)
  <2>1. i - 1 \in Nat /\ i \in 1 .. TopK /\ i - 1 < i
    BY <1>1
  <2> QED BY <2>1, WeightFalls
<1>5. \A m \in Memories : s(m) \in Nat
  BY <1>2, <1>3, <1>4
<1>6. score' = [m \in Memories |-> score[m] + s(m)]
  BY DEF Answer
<1>7. ASSUME NEW pair \in ahead'
      PROVE  s(pair[1]) >= s(pair[2]) /\ (s(pair[2]) > 0 => s(pair[1]) > s(pair[2]))
  <2>1. pair \in ahead /\ pair[1] \in Memories /\ pair[2] \in Memories
    BY DEF Answer, OrderInv
  <2>2. CASE \E j \in 1 .. Len(list) : list[j] = pair[2]
    <3>1. PICK j \in 1 .. Len(list) : list[j] = pair[2]
      BY <2>2
    <3>2. PICK i \in 1 .. j - 1 : list[i] = pair[1]
      BY <3>1 DEF Answer
    <3>3. i \in Nat /\ j \in 1 .. TopK /\ i < j /\ i \in 1 .. Len(list)
      BY <1>1
    <3>4. Weight(i) > Weight(j)
      BY <3>3, WeightFalls
    <3> HIDE DEF s
    <3>5. s(pair[1]) = Weight(i) /\ s(pair[2]) = Weight(j)
      BY <3>1, <3>2, <3>3, <2>1, <1>2
    <3> QED BY <3>3, <3>4, <3>5, <1>4
  <2>3. CASE ~ \E j \in 1 .. Len(list) : list[j] = pair[2]
    <3> HIDE DEF s
    <3>1. s(pair[2]) = 0
      BY <2>3, <2>1, <1>3
    <3> QED BY <3>1, <2>1, <1>5
  <2> QED BY <2>2, <2>3
<1> HIDE DEF s
<1>8. \A pair \in ahead' : pair \in ahead /\ pair[1] \in Memories /\ pair[2] \in Memories
  BY DEF Answer, OrderInv
<1>9. score \in [Memories -> Nat]
  BY DEF OrderInv, OrderOfScores
<1>10. score' \in [Memories -> Nat]
  BY <1>5, <1>6, <1>9
<1>11. ASSUME NEW pair \in ahead'
       PROVE  /\ score'[pair[1]] >= score'[pair[2]]
              /\ score'[pair[2]] > 0 => score'[pair[1]] > score'[pair[2]]
  <2> DEFINE m == pair[1]
             n == pair[2]
  <2>1. m \in Memories /\ n \in Memories
    BY <1>8
  <2>2. score'[m] = score[m] + s(m) /\ score'[n] = score[n] + s(n)
    BY <2>1, <1>6
  <2>3. score[m] \in Nat /\ score[n] \in Nat /\ s(m) \in Nat /\ s(n) \in Nat
    BY <2>1, <1>5, <1>9
  <2>4. score[m] >= score[n] /\ (score[n] > 0 => score[m] > score[n])
    BY <1>8, <1>11 DEF OrderInv, OrderOfScores
  <2>5. s(m) >= s(n) /\ (s(n) > 0 => s(m) > s(n))
    BY <1>7
  <2> HIDE DEF m, n
  <2>6. score'[m] >= score'[n] /\ (score'[n] > 0 => score'[m] > score'[n])
    BY <2>2, <2>3, <2>4, <2>5
  <2> QED BY <2>6 DEF m, n
<1> QED BY <1>10, <1>11 DEF OrderOfScores

(* So do the four searches, when no index row is there twice.              *)
LEMMA SearchOrder ==
  ASSUME OrderInv, reruns = 0, Semantic \/ Keyword \/ Temporal \/ Graph \/ NoAnswer
  PROVE  OrderOfScores'
<1>1. TopK \in Nat /\ Linked \subseteq Memories
  BY RecallAssumption
<1>2. \A i \in 1 .. Len(corpus) : corpus[i] \in Memories
  BY DEF OrderInv
<1>3. Rows \subseteq Memories
  BY <1>2 DEF Rows, Elements
<1>4. ASSUME NEW S, S \subseteq Memories, NEW list \in Lists(S, TopK)
      PROVE  list \in Answers /\ Len(list) <= TopK
  <2>1. list \in Seq(S) /\ Len(list) <= TopK /\ NoRepeat(list)
    BY <1>1, ListFacts
  <2>2. list \in Seq(Memories)
    BY <2>1, <1>4
  <2> QED BY <2>1, <2>2 DEF Answers
<1>5. CASE Semantic
  <2>1. PICK list \in Lists({m \in Rows : InStream(m)}, TopK) : Answer("semantic", list)
    BY <1>5 DEF Semantic
  <2>2. list \in Answers
    BY <1>3, <1>4
  <2> QED BY <2>1, <2>2, AnswerOrder
<1>6. CASE Keyword
  <2>0. PICK list \in Lists({m \in Rows : Visible(m)}, TopK) :
          \E times \in [1 .. Len(list) -> 1 .. 1 + reruns] :
            Answer("keyword", FirstOf(Copies(list, times)))
    BY <1>6 DEF Keyword
  <2>1. PICK times \in [1 .. Len(list) -> 1 .. 1 + reruns] :
          Answer("keyword", FirstOf(Copies(list, times)))
    BY <2>0
  <2>2. list \in Answers
    BY <1>3, <1>4
  <2>3. \A i \in 1 .. Len(list) : times[i] = 1
    BY <2>1
  <2>4. Copies(list, times) = list
    BY <2>2, <2>3, OneCopyEach DEF Answers
  <2>5. FirstOf(list) = list
    BY <2>2, FirstOfShort DEF Answers
  <2> QED BY <2>1, <2>2, <2>4, <2>5, AnswerOrder
<1>7. CASE Temporal
  <2>0. PICK from \in 1 .. Len(corpus) :
          \E to \in from .. Len(corpus) :
            \E places \in Latest({i \in from .. to : NotHidden(corpus[i])}) :
              Answer("temporal", [i \in 1 .. Len(places) |-> corpus[places[i]]])
    BY <1>7 DEF Temporal
  <2>1. PICK to \in from .. Len(corpus) :
          \E places \in Latest({i \in from .. to : NotHidden(corpus[i])}) :
            Answer("temporal", [i \in 1 .. Len(places) |-> corpus[places[i]]])
    BY <2>0
  <2> DEFINE span == {i \in from .. to : NotHidden(corpus[i])}
             list(places) == [i \in 1 .. Len(places) |-> corpus[places[i]]]
  <2>2. PICK places \in Latest(span) : Answer("temporal", list(places))
    BY <2>1 DEF span, list
  <2>3. Len(corpus) \in Nat /\ span \subseteq 1 .. Len(corpus)
    BY DEF OrderInv
  <2>4. places \in Lists(span, TopK)
    BY DEF Latest
  <2> HIDE DEF span
  <2>5. places \in Seq(span) /\ Len(places) \in Nat /\ Len(places) <= TopK /\ NoRepeat(places)
    BY <2>4, <1>1, ListFacts
  <2>6. \A i \in 1 .. Len(places) : places[i] \in 1 .. Len(corpus)
    <3>1. \A i \in 1 .. Len(places) : places[i] \in span
      BY <2>5
    <3> QED BY <3>1, <2>3
  <2>7. list(places) \in Seq(Memories) /\ Len(list(places)) = Len(places)
    BY <2>5, <2>6, <1>2
  <2>8. NoRepeat(list(places))
    <3>1. ASSUME NEW i \in 1 .. Len(places), NEW j \in 1 .. Len(places),
                 corpus[places[i]] = corpus[places[j]]
          PROVE  i = j
      <4>1. places[i] = places[j]
        BY <3>1, <2>6 DEF OrderInv, NoRepeat
      <4> QED BY <4>1, <2>5 DEF NoRepeat
    <3> QED BY <3>1, <2>7 DEF NoRepeat
  <2>9. list(places) \in Answers
    BY <2>5, <2>7, <2>8 DEF Answers
  <2> HIDE DEF list
  <2> QED BY <2>2, <2>9, AnswerOrder
<1>8. CASE Graph
  <2>1. PICK list \in Lists(Linked \cap Rows, TopK) : Answer("graph", list)
    BY <1>8 DEF Graph
  <2>2. list \in Answers
    BY <1>3, <1>4
  <2> QED BY <2>1, <2>2, AnswerOrder
<1>9. CASE NoAnswer
  <2>1. PICK strategy \in Strategies : Answer(strategy, <<>>)
    BY <1>9 DEF NoAnswer
  <2>2. <<>> \in Answers
    BY <1>1 DEF Answers, NoRepeat
  <2> QED BY <2>1, <2>2, AnswerOrder
<1> QED BY <1>5, <1>6, <1>7, <1>8, <1>9

(* An empty response is in order.                                          *)
LEMMA NoHitsInOrder == hits = <<>> => UnanimousOrder
BY DEF UnanimousOrder

(* The response is in the agreed order: what is ahead of a hit scores      *)
(* more, so it is a candidate, is not cut off and comes first.             *)
LEMMA RespondOrder ==
  ASSUME OrderInv, Respond
  PROVE  UnanimousOrder'
<1> SUFFICES ASSUME reruns = 0,
                    NEW i \in 1 .. Len(hits'), NEW m \in snap,
                    <<m, hits'[i]>> \in ahead, Passes(m)
             PROVE  \E j \in 1 .. i - 1 : hits'[j] = m
  BY DEF UnanimousOrder, Respond, setting, history, Passes
<1>1. PICK list \in Lists(Candidates, TopK) :
        /\ Ranked(list)
        /\ \A n \in Candidates \ Elements(list), k \in 1 .. Len(list) :
             score[n] <= score[list[k]]
        /\ hits' \in {rest \in Lists(Elements(list), TopK) : Gated(list, rest)}
  BY DEF Respond
<1>2. TopK \in Nat
  BY RecallAssumption
<1>3. list \in Seq(Candidates) /\ hits' \in Seq(Elements(list)) /\ Gated(list, hits')
  BY <1>1, <1>2, ListFacts
<1> DEFINE n == (hits')[i]
<1>4. n \in Elements(list) /\ n \in Candidates
  BY <1>3 DEF Elements
<1>5. m \in Memories /\ n \in Memories /\ score[n] > 0
  BY <1>4 DEF OrderInv, Candidates, Found
<1>6. score[m] > score[n] /\ score \in [Memories -> Nat]
  BY <1>5 DEF OrderInv, OrderOfScores
<1>7. m \in Candidates
  BY <1>5, <1>6 DEF Candidates, Found
<1>8. m \in Elements(list)
  <2> SUFFICES ASSUME m \notin Elements(list) PROVE FALSE
    OBVIOUS
  <2>1. PICK k \in 1 .. Len(list) : list[k] = n
    BY <1>4 DEF Elements
  <2>2. score[m] <= score[n]
    BY <1>1, <1>7, <2>1
  <2> QED BY <2>2, <1>5, <1>6
<1>9. m \in Elements(hits')
  BY <1>3, <1>8 DEF Gated
<1>10. PICK j \in 1 .. Len(hits') : hits'[j] = m
  BY <1>9 DEF Elements
<1>11. ~ (i < j)
  <2> SUFFICES ASSUME i < j PROVE FALSE
    OBVIOUS
  <2>1. PICK a, b \in 1 .. Len(list) : a < b /\ list[a] = n /\ list[b] = m
    BY <1>3, <1>10 DEF Gated
  <2>2. score[n] >= score[m]
    BY <1>1, <2>1 DEF Ranked
  <2> QED BY <2>2, <1>5, <1>6
<1>12. i # j
  BY <1>5, <1>6, <1>10
<1>13. Len(hits') \in Nat
  BY <1>3
<1> QED BY <1>10, <1>11, <1>12, <1>13

(* Nothing is stored, nothing scored.                                      *)
LEMMA InitOrder == RecallInit => OrderInv
<1> SUFFICES ASSUME RecallInit PROVE OrderInv
  OBVIOUS
<1> USE DEF RecallInit
<1>1. corpus \in Seq(Memories) /\ NoRepeat(corpus)
  BY DEF NoRepeat
<1>2. reruns \in Nat
  BY RecallAssumption
<1>3. OrderOfScores
  BY DEF OrderOfScores
<1>4. UnanimousOrder
  BY NoHitsInOrder
<1> QED BY <1>1, <1>2, <1>3, <1>4 DEF OrderInv

(* Changes to the store meet nothing but the rows.                         *)
LEMMA ChangeOrder ==
  ASSUME OrderInv, Change, corpus' \in Seq(Memories), NoRepeat(corpus')
  PROVE  OrderInv'
<1> USE DEF Change, setting, query, history
<1>1. OrderOfScores' = OrderOfScores
  BY DEF OrderOfScores
<1>2. UnanimousOrder'
  BY DEF OrderInv, UnanimousOrder, Passes
<1>3. NoRepeat(corpus)'
  BY DEF NoRepeat
<1> QED BY <1>1, <1>2, <1>3 DEF OrderInv

(* Steps before the response return nothing.                               *)
LEMMA QuietOrder ==
  ASSUME OrderInv, UNCHANGED <<corpus, reruns>>,
         ahead' \subseteq Memories \X Memories,
         phase' \in {"idle", "snapshot"} => \A m \in Memories : score'[m] = 0,
         reruns = 0 => OrderOfScores', hits' = <<>>
  PROVE  OrderInv'
<1>1. UnanimousOrder'
  BY DEF UnanimousOrder
<1>2. NoRepeat(corpus)'
  BY DEF OrderInv, NoRepeat
<1> QED BY <1>1, <1>2 DEF OrderInv

LEMMA NextOrder == OrderInv /\ [RecallNext]_recallVars => OrderInv'
<1> SUFFICES ASSUME OrderInv, [RecallNext]_recallVars PROVE OrderInv'
  OBVIOUS
<1>1. ASSUME NEW m \in Memories, InsertRow(m)
      PROVE  OrderInv'
  <2>1. corpus \in Seq(Memories) /\ corpus' = Append(corpus, m) /\ m \notin Rows /\ Change
    BY <1>1 DEF InsertRow, OrderInv
  <2>2. corpus' \in Seq(Memories) /\ Len(corpus') = Len(corpus) + 1 /\ Len(corpus) \in Nat
    BY <2>1
  <2>3. \A i \in 1 .. Len(corpus') :
          /\ i \in 1 .. Len(corpus) => corpus'[i] = corpus[i] /\ corpus'[i] # m
          /\ i \notin 1 .. Len(corpus) => i = Len(corpus') /\ corpus'[i] = m
    BY <2>1, <2>2 DEF Rows, Elements
  <2>4. NoRepeat(corpus')
    <3> SUFFICES ASSUME NEW i \in 1 .. Len(corpus'), NEW j \in 1 .. Len(corpus'), corpus'[i] = corpus'[j]
                 PROVE  i = j
      BY DEF NoRepeat
    <3>1. CASE i \in 1 .. Len(corpus) /\ j \in 1 .. Len(corpus)
      <4>1. corpus[i] = corpus[j]
        BY <2>3, <3>1
      <4> QED BY <4>1, <3>1 DEF OrderInv, NoRepeat
    <3>2. CASE i \notin 1 .. Len(corpus) \/ j \notin 1 .. Len(corpus)
      BY <2>3, <3>2
    <3> QED BY <3>1, <3>2
  <2> QED BY <2>1, <2>2, <2>4, ChangeOrder
<1>2. ASSUME NEW m \in Memories, Archive(m)
      PROVE  OrderInv'
  BY <1>2, ChangeOrder DEF Archive, OrderInv
<1>3. ASSUME NEW stream \in Streams \cup {NoStream}, NEW include \in BOOLEAN, Ask(stream, include)
      PROVE  OrderInv'
  <2> USE <1>3 DEF Ask, store, setting
  <2>1. hits' = <<>> /\ ahead' \subseteq Memories \X Memories
    BY DEF OrderInv
  <2>2. score' = score /\ \A m \in Memories : score[m] = 0
    BY DEF OrderInv
  <2>3. ASSUME reruns = 0 PROVE OrderOfScores'
    <3>1. score' \in [Memories -> Nat]
      BY <2>2, <2>3 DEF OrderInv, OrderOfScores
    <3>2. \A pair \in ahead' : score'[pair[1]] = 0 /\ score'[pair[2]] = 0
      BY <2>1, <2>2
    <3> QED BY <3>1, <3>2 DEF OrderOfScores
  <2> QED BY <2>1, <2>2, <2>3, QuietOrder
<1>4. CASE TakeSnapshot
  <2> USE <1>4 DEF TakeSnapshot, store, setting, history
  <2>1. hits' = <<>> /\ ahead' \subseteq Memories \X Memories
    BY DEF OrderInv
  <2>2. reruns = 0 => OrderOfScores'
    BY DEF OrderInv, OrderOfScores
  <2> QED BY <2>1, <2>2, QuietOrder
<1>5. CASE Semantic \/ Keyword \/ Temporal \/ Graph \/ NoAnswer
  <2>1. \E strategy, list : Answer(strategy, list)
    BY <1>5 DEF Semantic, Keyword, Temporal, Graph, NoAnswer
  <2>2. /\ UNCHANGED <<corpus, reruns, phase, hits>>
        /\ phase = "search"
        /\ ahead' \subseteq ahead
    BY <2>1 DEF Answer, store, setting
  <2>3. hits' = <<>> /\ ahead' \subseteq Memories \X Memories
    BY <2>2 DEF OrderInv
  <2>4. reruns = 0 => OrderOfScores'
    BY <1>5, SearchOrder
  <2> QED BY <2>2, <2>3, <2>4, QuietOrder
<1>6. CASE Respond
  <2> USE <1>6 DEF Respond, store, setting, history
  <2>1. UnanimousOrder'
    BY RespondOrder
  <2>2. reruns = 0 => OrderOfScores'
    BY DEF OrderInv, OrderOfScores
  <2>3. NoRepeat(corpus)'
    BY DEF OrderInv, NoRepeat
  <2> QED BY <2>1, <2>2, <2>3 DEF OrderInv
<1>7. CASE Fail
  <2> USE <1>7 DEF Fail, store, setting
  <2>1. hits' = <<>> /\ ahead' = {} /\ score' = [m \in Memories |-> 0]
    BY DEF OrderInv
  <2>2. OrderOfScores'
    BY <2>1 DEF OrderOfScores
  <2> QED BY <2>1, <2>2, QuietOrder
<1>8. CASE UNCHANGED recallVars
  <2> USE <1>8 DEF recallVars, store, setting, query, history
  <2>1. OrderOfScores' = OrderOfScores
    BY DEF OrderOfScores
  <2>2. UnanimousOrder'
    BY DEF OrderInv, UnanimousOrder, Passes
  <2>3. NoRepeat(corpus)'
    BY DEF OrderInv, NoRepeat
  <2> QED BY <2>1, <2>2, <2>3 DEF OrderInv
<1> QED
  BY <1>1, <1>2, <1>3, <1>4, <1>5, <1>6, <1>7, <1>8 DEF RecallNext

(* UnanimousOrder for any number of memories and any top_k: what every     *)
(* search that found n had before n is returned with it and before it.     *)
THEOREM ResponseKeepsOrder == RecallSpec => []UnanimousOrder
<1>1. OrderInv => UnanimousOrder
  BY DEF OrderInv
<1> QED BY <1>1, InitOrder, NextOrder, PTL DEF RecallSpec
================================================================================
