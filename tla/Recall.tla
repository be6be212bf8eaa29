--------------------------------- MODULE Recall ---------------------------------
(***************************************************************************)
(* Engine::recall (engine/mod.rs) and retrieval/: a permission check, a    *)
(* snapshot of the newest rows, four searches, their fusion, the cloud     *)
(* gate and the response.                                                  *)
(*                                                                         *)
(* Each part is a read of its own, on its own connection and outside any   *)
(* transaction, so rows are retained, archived and indexed between any two *)
(* of them.  Two of the searches look at the stream, two do not, and three *)
(* respect the archive in one way or another; what reaches the caller is   *)
(* decided by the snapshot alone.                                          *)
(***************************************************************************)
EXTENDS Naturals, Sequences, FiniteSets

CONSTANTS
  Memories,       (* memories; each has a summary, as Engine::retain gives *)
  Streams,        (* streams                                               *)
  NoStream,       (* no stream                                             *)
  StreamOf,       (* StreamOf[m]: the stream of a memory                   *)
  Readable,       (* streams that can_read grants to the local user        *)
  Eligible,       (* memories of a cloud-eligible classification           *)
  Linked,         (* memories that the entity graph names                  *)
  TopK,           (* retrieval.top_k                                       *)
  SnapshotLimit,  (* the limit that recall gives search_memories           *)
  Scale,          (* the unit of the scores: 1 / Scale                      *)
  MaxReruns,      (* bound: how often migration 002 has run again before   *)
  MaxLate         (* bound: changes to the store while the recall runs     *)

(* Scores are floats, which tell any two ranks of a list apart: the unit   *)
(* is fine enough for the longest list.                                    *)
ASSUME RecallAssumption ==
  /\ NoStream \notin Streams
  /\ StreamOf \in [Memories -> Streams \cup {NoStream}]
  /\ Readable \subseteq Streams
  /\ Eligible \subseteq Memories
  /\ Linked \subseteq Memories
  /\ TopK \in Nat \ {0}
  /\ SnapshotLimit \in Nat \ {0}
  /\ Scale \in Nat /\ Scale >= (60 + TopK) * (60 + TopK)
  /\ MaxReruns \in Nat
  /\ MaxLate \in Nat

Strategies == {"semantic", "keyword", "temporal", "graph"}

VARIABLES
  corpus,    (* the memories, in the order of created_at                   *)
  archived,  (* memories with archived = 1                                 *)
  reruns,    (* how often each row may be in the full-text index again     *)
  cloud,     (* the tier is Cloud                                          *)
  late,      (* changes to the store since the request                     *)
  phase,     (* what recall does next                                      *)
  want,      (* the request: a stream or NoStream, and include_archived    *)
  snap,      (* the snapshot: memories by id                               *)
  left,      (* strategies that have not answered                          *)
  score,     (* score[m]: the fused score, 0 for what nothing found        *)
  hits,      (* the response, best first                                   *)
  hidden,    (* history: what was archived when the request came           *)
  ahead      (* history: the pairs <<m, n>> where no search that found n   *)
             (* failed to put m before it                                  *)

store == <<corpus, archived, late>>
setting == <<reruns, cloud>>
history == <<hidden, ahead>>
query == <<phase, want, snap, left, score, hits, history>>
recallVars == <<store, setting, query>>

Elements(s) == {s[i] : i \in 1 .. Len(s)}
Rows == Elements(corpus)

(* Sequences without repetition over a set, up to a length.                *)
Lists(S, k) ==
  {s \in UNION {[1 .. n -> S] : n \in 0 .. k} :
     \A i, j \in 1 .. Len(s) : s[i] = s[j] => i = j}

RecallInit ==
  /\ corpus = <<>>
  /\ archived = {}
  /\ late = 0
  /\ reruns \in 0 .. MaxReruns
  /\ cloud \in BOOLEAN
  /\ phase = "idle"
  /\ want = [stream |-> NoStream, include |-> FALSE]
  /\ snap = {}
  /\ left = {}
  /\ score = [m \in Memories |-> 0]
  /\ hits = <<>>
  /\ hidden = {}
  /\ ahead = {}

--------------------------------------------------------------------------------
(* The store moves on, before the request and behind the back of the       *)
(* recall; what happens after it is of no interest.  Which rows have a     *)
(* vector and an index row is left open: the searches below may miss any.  *)
Change ==
  /\ phase \in {"idle", "snapshot", "search"}
  /\ IF phase = "idle" THEN UNCHANGED late ELSE late < MaxLate /\ late' = late + 1
  /\ UNCHANGED <<setting, query>>

InsertRow(m) ==
  /\ m \notin Rows
  /\ corpus' = Append(corpus, m)
  /\ Change
  /\ UNCHANGED archived

(* archive_memory sets the row's flag and leaves index and vector alone.   *)
Archive(m) ==
  /\ m \in Rows \ archived
  /\ archived' = archived \cup {m}
  /\ Change
  /\ UNCHANGED corpus

--------------------------------------------------------------------------------
InStream(m) == want.stream = NoStream \/ StreamOf[m] = want.stream
NotHidden(m) == want.include \/ m \notin archived

(* A request.  A named stream must be readable; can_read fails for one     *)
(* that does not exist and recall fails with it.                           *)
Ask(stream, include) ==
  /\ phase = "idle"
  /\ want' = [stream |-> stream, include |-> include]
  /\ hidden' = archived
  /\ ahead' = {pair \in Memories \X Memories : pair[1] # pair[2]}
  /\ phase' = IF stream = NoStream \/ stream \in Readable THEN "snapshot" ELSE "denied"
  /\ UNCHANGED <<store, setting, snap, left, score, hits>>

(* Mutant of Visible: every search looks at the stream, so why twice.      *)
VisibleAnywhere(m) == NotHidden(m)

(* WHERE of search_memories.                                               *)
Visible(m) == InStream(m) /\ NotHidden(m)

(* ORDER BY created_at DESC LIMIT.                                         *)
Newest(i) == Cardinality({j \in i + 1 .. Len(corpus) : Visible(corpus[j])}) < SnapshotLimit

(* search_memories: the newest visible rows, at most SnapshotLimit.        *)
TakeSnapshot ==
  /\ phase = "snapshot"
  /\ phase' = "search"
  /\ snap' = {corpus[i] : i \in {i \in 1 .. Len(corpus) : Visible(corpus[i]) /\ Newest(i)}}
  /\ left' = Strategies
  /\ UNCHANGED <<store, setting, want, score, hits, history>>

(* Mutant of Weight: ranks count from the wrong end.                       *)
WeightUpward(rank) == Scale \div (100 - rank)

(* 1 / (k + rank + 1) for k = 60 and ranks from 0.                         *)
Weight(rank) == Scale \div (60 + rank)

(* The scores of the places that a list gives to m, most often one.        *)
ScoreIn(list, m) ==
  LET places[i \in 0 .. Len(list)] ==
        IF i = 0 THEN 0
        ELSE places[i - 1] + (IF list[i] = m THEN Weight(i) ELSE 0)
  IN places[Len(list)]

(* The keyword, temporal and graph searches run one after the other, the   *)
(* semantic search waits for LanceDB meanwhile.                            *)
Turn(strategy) ==
  /\ strategy \in left
  /\ strategy \in {"temporal", "graph"} => "keyword" \notin left
  /\ strategy = "graph" => "temporal" \notin left

(* One strategy answers with a list; reciprocal_rank_fusion adds it up.    *)
Answer(strategy, list) ==
  /\ phase = "search"
  /\ Turn(strategy)
  /\ left' = left \ {strategy}
  /\ score' = [m \in Memories |-> score[m] + ScoreIn(list, m)]
  /\ ahead' = {pair \in ahead :
       \A j \in 1 .. Len(list) :
         list[j] = pair[2] => \E i \in 1 .. j - 1 : list[i] = pair[1]}
  /\ UNCHANGED <<store, setting, phase, want, snap, hits, hidden>>

(* LanceStorage::search: the nearest vectors, by stream, archived or not.  *)
Semantic ==
  \E list \in Lists({m \in Rows : InStream(m)}, TopK) : Answer("semantic", list)

FirstOf(list) == SubSeq(list, 1, IF Len(list) < TopK THEN Len(list) ELSE TopK)

(* A ranking of memories, each as often as the index names it.             *)
Copies(list, times) ==
  LET spread[i \in 0 .. Len(list)] ==
        IF i = 0 THEN <<>> ELSE spread[i - 1] \o [k \in 1 .. times[i] |-> list[i]]
  IN spread[Len(list)]

(* keyword::search: the ranked index rows of the words' matches, cut at    *)
(* top_k, or, when there is none, a LIKE search over the rows.  What ranks *)
(* behind top_k memories is always cut.                                    *)
Keyword ==
  \E list \in Lists({m \in Rows : Visible(m)}, TopK) :
    \E times \in [1 .. Len(list) -> 1 .. 1 + reruns] :
      Answer("keyword", FirstOf(Copies(list, times)))

(* ORDER BY created_at DESC LIMIT top_k: the last places of a span.        *)
Latest(span) ==
  {places \in Lists(span, TopK) :
     /\ \A i, j \in 1 .. Len(places) : i < j => places[j] < places[i]
     /\ Len(places) = TopK \/ Elements(places) = span
     /\ \A p \in span \ Elements(places), i \in 1 .. Len(places) : p < places[i]}

(* temporal::search: the rows of a span of time, newest first.             *)
Temporal ==
  \E from \in 1 .. Len(corpus) : \E to \in from .. Len(corpus) :
    \E places \in Latest({i \in from .. to : NotHidden(corpus[i])}) :
      Answer("temporal", [i \in 1 .. Len(places) |-> corpus[places[i]]])

(* graph::search: memories behind the entities of the query, sorted by     *)
(* their random ids; neither stream nor archive is looked at.              *)
Graph == \E list \in Lists(Linked \cap Rows, TopK) : Answer("graph", list)

(* unwrap_or_default: a failed search, a query without an embedding, a     *)
(* time or a known entity count as an empty answer.                        *)
NoAnswer == \E strategy \in Strategies : Answer(strategy, <<>>)

--------------------------------------------------------------------------------
Found == {m \in Memories : score[m] > 0}

(* The candidates of rerank_results: what the snapshot has a summary of.   *)
Candidates == Found \cap snap

(* The order of the fused scores, in which PassthroughReranker leaves the  *)
(* candidates.  Equal scores come in the order of a HashMap.               *)
Ranked(list) == \A i, j \in 1 .. Len(list) : i < j => score[list[i]] >= score[list[j]]

(* The gate of the Cloud tier.                                             *)
Passes(m) == ~ cloud \/ m \in Eligible

(* What the gate leaves of a list, in its order.                           *)
Gated(list, rest) ==
  /\ Elements(rest) = {m \in Elements(list) : Passes(m)}
  /\ \A i, j \in 1 .. Len(rest) :
       i < j => \E a, b \in 1 .. Len(list) : a < b /\ list[a] = rest[i] /\ list[b] = rest[j]

(* Truncation to top_k, the gate, and the response.  The gate comes after  *)
(* the cut, so it leaves gaps that nothing fills.                          *)
Respond ==
  /\ phase = "search"
  /\ left = {}
  /\ \E list \in Lists(Candidates, TopK) :
       /\ Ranked(list)
       /\ Len(list) = TopK \/ Elements(list) = Candidates
       /\ \A m \in Candidates \ Elements(list), i \in 1 .. Len(list) : score[m] <= score[list[i]]
       /\ hits' \in {rest \in Lists(Elements(list), TopK) : Gated(list, rest)}
  /\ phase' = "done"
  /\ UNCHANGED <<store, setting, want, snap, left, score, history>>

(* A failed read of the snapshot or a failed connection fails the recall.  *)
Fail ==
  /\ phase \in {"snapshot", "search"}
  /\ phase' = "failed"
  /\ snap' = {}
  /\ left' = {}
  /\ score' = [m \in Memories |-> 0]
  /\ ahead' = {}
  /\ UNCHANGED <<store, setting, want, hits, hidden>>

RecallNext ==
  \/ \E m \in Memories : InsertRow(m) \/ Archive(m)
  \/ \E stream \in Streams \cup {NoStream}, include \in BOOLEAN : Ask(stream, include)
  \/ TakeSnapshot
  \/ Semantic \/ Keyword \/ Temporal \/ Graph \/ NoAnswer
  \/ Respond \/ Fail

RecallSpec == RecallInit /\ [][RecallNext]_recallVars

--------------------------------------------------------------------------------
(* What a recall returns was asked for and may be shown: the stream is     *)
(* readable and the memory belongs to it, it was not yet archived when the *)
(* request came, and in the Cloud tier it is eligible.  The temporal and   *)
(* the graph search ignore streams, the semantic and the graph search the  *)
(* archive, and the gate lets pass what it does not know, so this rests on *)
(* the snapshot as the only source of candidates.                          *)
HitsInScope ==
  \A m \in Elements(hits) :
    /\ want.stream # NoStream => want.stream \in Readable /\ StreamOf[m] = want.stream
    /\ want.include \/ m \notin hidden
    /\ cloud => m \in Eligible

(* The order of the response respects the searches: where all searches     *)
(* that found n had m before it, and the index is free of duplicates, n is *)
(* not returned without m, nor before it, however the ranks are fused, cut *)
(* and gated.                                                              *)
UnanimousOrder ==
  reruns = 0 =>
    \A i \in 1 .. Len(hits), m \in snap :
      <<m, hits[i]>> \in ahead /\ Passes(m) => \E j \in 1 .. i - 1 : hits[j] = m

(* docs/benchmarks.md: the pipeline does not degrade as the corpus grows.  *)
(* A memory that may be shown and is all that the searches find is         *)
(* returned, if the store stands still.  It is not: when it is older than  *)
(* the snapshot reaches, it is no candidate.                               *)
LoneMatchIsReturned ==
  \A m \in Memories :
    phase = "done" /\ late = 0 /\ Found = {m} /\ Visible(m) /\ Passes(m) => hits = <<m>>
================================================================================
