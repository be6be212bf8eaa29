--------------------------- MODULE ContextCompiler ---------------------------
(***************************************************************************)
(* The context that is put in front of a prompt (context/): the texts of   *)
(* four layers are taken in order of priority as long as they fit in a     *)
(* budget of tokens.  A text is a record of the hash of its content and    *)
(* its length in bytes.  There is no state.                                *)
(***************************************************************************)
EXTENDS Integers, Sequences, SequencesExt

\* The sum of a sequence of numbers, as a function so that it can be proved about.
Total(numbers) ==
    LET sum[i \in 0 .. Len(numbers)] == IF i = 0 THEN 0 ELSE sum[i - 1] + numbers[i]
    IN  sum[Len(numbers)]

\* What a layer renders: its parts, joined by a separator (none if there are no parts).
RenderedLen(lens, separator) == IF lens = <<>> THEN 0 ELSE separator * (Len(lens) - 1) + Total(lens)

\* L0 always names the tier; the stream and the user are optional.
L0Len(parts) == RenderedLen(<<parts.tier>> \o parts.optional, 3)

\* L1 is the description of the stream, if any, and the recent facts.
L1Len(parts) == RenderedLen(parts.description \o parts.facts, 1)

EstimateTokens(len) == Max({len \div 4, 1})

\* A known source is registered whole and, beyond 50 bytes, paragraph by paragraph.
RegisterKnownContent(known, content) ==
    known \cup {content.hash} \cup {p.hash : p \in {q \in ToSet(content.paragraphs) : q.len > 50}}

IsDuplicate(known, text) == text.hash \in known

\* Everything that is offered to the compiler, in order of priority.
Offered(l0, l1, l2, l3) ==
    <<[layer |-> "L0", text |-> l0], [layer |-> "L1", text |-> l1]>>
      \o [i \in 1 .. Len(l2) |-> [layer |-> "L2", text |-> l2[i]]]
      \o [i \in 1 .. Len(l3) |-> [layer |-> "L3", text |-> l3[i]]]

\* The part of compile that has been assembled so far.
Assembled(budget) == [taken |-> <<>>, remaining |-> budget, l2_count |-> 0, l3_count |-> 0]

Put(acc, offer) ==
    [taken |-> Append(acc.taken, offer),
     remaining |-> acc.remaining - EstimateTokens(offer.text.len),
     l2_count |-> acc.l2_count + (IF offer.layer = "L2" THEN 1 ELSE 0),
     l3_count |-> acc.l3_count + (IF offer.layer = "L3" THEN 1 ELSE 0)]

\* L0 and L1 are not looked up among the known contents; an empty L1 is left out.
PutFixed(acc, offer) ==
    IF EstimateTokens(offer.text.len) <= acc.remaining /\ (offer.layer = "L1" => offer.text.len > 0)
    THEN Put(acc, offer) ELSE acc

\* Mutant of PutMemory: a memory that would use up the budget is left out.
PutMemoryBelow(acc, known, offer) ==
    IF acc.remaining = 0 \/ IsDuplicate(known, offer.text) \/ EstimateTokens(offer.text.len) >= acc.remaining
    THEN acc ELSE Put(acc, offer)

\* The body of the loops over L2 and L3.
PutMemory(acc, known, offer) ==
    IF acc.remaining = 0 \/ IsDuplicate(known, offer.text) \/ EstimateTokens(offer.text.len) > acc.remaining
    THEN acc ELSE Put(acc, offer)

\* ContextCompiler::compile
Compile(budget, known, l0, l1, l2, l3) ==
    LET offers == Offered(l0, l1, l2, l3)
        acc[i \in 0 .. Len(offers)] ==
          IF i = 0 THEN Assembled(budget)
          ELSE IF offers[i].layer \in {"L0", "L1"} THEN PutFixed(acc[i - 1], offers[i])
          ELSE PutMemory(acc[i - 1], known, offers[i])
        all == acc[Len(offers)]
    IN  [taken |-> all.taken,
         tokens_used |-> budget - all.remaining,
         tokens_budget |-> budget,
         l0_tokens |-> Min({EstimateTokens(l0.len), budget}),
         l1_tokens |-> EstimateTokens(l1.len),
         l2_count |-> all.l2_count,
         l3_count |-> all.l3_count]

------------------------------------------------------------------------------
(* The reference: what a reader of the compiled context may rely on.       *)

\* No candidates at all: an empty L1, and memories the reader has already.
Unwanted(known, offer) ==
    \/ offer.layer = "L1" /\ offer.text.len = 0
    \/ offer.layer \in {"L2", "L3"} /\ IsDuplicate(known, offer.text)

\* The tokens of the first i offers, as far as they are at places in S.
TokensTo(offers, S, i) == Total([k \in 1 .. i |-> IF k \in S THEN EstimateTokens(offers[k].text.len) ELSE 0])

\* The places of the offers that belong into the context: a candidate is left out only if it
\* does not fit beside those before it, whatever was left out before.
FirstFit(budget, known, offers) ==
    CHOOSE S \in SUBSET (1 .. Len(offers)) :
       \A i \in 1 .. Len(offers) :
          i \in S <=> /\ ~ Unwanted(known, offers[i])
                     /\ TokensTo(offers, S, i - 1) + EstimateTokens(offers[i].text.len) <= budget

\* The bytes of the memories and layers that are printed; what stands around them is not counted.
PrintedBytes(taken) == Total([k \in 1 .. Len(taken) |-> taken[k].text.len])
==============================================================================
