----------------------------- MODULE SecretPolicy -----------------------------
(***************************************************************************)
(* What retain does about secrets before anything is stored: the scan,     *)
(* the redaction and the classification (security/, compliance/).  A text  *)
(* is a sequence of characters, each told apart by its place; a match of a *)
(* pattern covers the places start + 1 .. end, as byte offsets do.  Which  *)
(* places a pattern matches is the regex engine's: `hits` gives them, for  *)
(* each pattern from left to right.                                        *)
(***************************************************************************)
EXTENDS Integers, FiniteSets, Sequences, SequencesExt

\* The length of the marker that replaces a match of a pattern.
CONSTANT MarkerLen

ASSUME SecretAssumption == MarkerLen \in Seq(Nat)

Pattern == DOMAIN MarkerLen
Classifications == <<"public", "internal", "confidential", "pii">>

Level(class) == CHOOSE i \in DOMAIN Classifications : Classifications[i] = class
MaxClass(a, b) == IF Level(a) >= Level(b) THEN a ELSE b

TextOf(n) == [i \in 1 .. n |-> <<"char", i>>]
Marker(p) == [i \in 1 .. MarkerLen[p] |-> <<"marker", p>>]

\* RegexSet::matches gives the patterns in their order, find_iter the matches of each.
HasSecrets(hits) == \E p \in Pattern : hits[p] # <<>>

Scan(hits) ==
    LET found[p \in 0 .. Len(MarkerLen)] ==
          IF p = 0 THEN <<>>
          ELSE found[p - 1] \o [i \in 1 .. Len(hits[p]) |->
                                  [pattern |-> p, start |-> hits[p][i][1], end |-> hits[p][i][2]]]
    IN  found[Len(MarkerLen)]

\* Mutant of SortedMatches: from the first match to the last.
SortedForward(matches) ==
    LET Turn(i) == 1 + Cardinality({j \in DOMAIN matches : \/ matches[j].start < matches[i].start
                                                           \/ matches[j].start = matches[i].start /\ j < i})
    IN  [k \in 1 .. Len(matches) |-> matches[CHOOSE i \in DOMAIN matches : Turn(i) = k]]

\* The stable sort by descending start.
SortedMatches(matches) ==
    LET Turn(i) == 1 + Cardinality({j \in DOMAIN matches : \/ matches[j].start > matches[i].start
                                                           \/ matches[j].start = matches[i].start /\ j < i})
    IN  [k \in 1 .. Len(matches) |-> matches[CHOOSE i \in DOMAIN matches : Turn(i) = k]]

\* String::replace_range, which panics at an end behind the text.
ReplaceRange(acc, m) ==
    IF acc.panic \/ m.end > Len(acc.text) THEN [acc EXCEPT !.panic = TRUE]
    ELSE [acc EXCEPT !.text = SubSeq(@, 1, m.start) \o Marker(m.pattern) \o SubSeq(@, m.end + 1, Len(@))]

\* The offsets of all matches are those of the original text.
Redact(text, matches) ==
    LET sorted == SortedMatches(matches)
        acc[k \in 0 .. Len(matches)] ==
          IF k = 0 THEN [text |-> text, panic |-> FALSE] ELSE ReplaceRange(acc[k - 1], sorted[k])
    IN  acc[Len(matches)]

\* classify_content
ClassifyContent(hits) == IF HasSecrets(hits) THEN "confidential" ELSE "internal"

\* The highest of the sources; "internal" if there is none.
EffectiveClassification(sources) ==
    LET highest[i \in 1 .. Len(sources)] == IF i = 1 THEN sources[1] ELSE MaxClass(highest[i - 1], sources[i])
    IN  IF sources = <<>> THEN "internal" ELSE highest[Len(sources)]

\* The first step of retain.  Any mode but "block" and "redact" means "warn".
RetainPolicy(mode, text, hits, requested, default) ==
    LET class == IF requested = "none" THEN default ELSE requested
        raised == IF HasSecrets(hits) THEN MaxClass(class, "confidential") ELSE class
        redacted == Redact(text, Scan(hits))
        Stored(t, c) == [outcome |-> "stored", text |-> t, class |-> c]
    IN  CASE mode = "block" -> IF HasSecrets(hits) THEN [outcome |-> "refused"] ELSE Stored(text, class)
          [] mode = "redact" -> IF redacted.panic THEN [outcome |-> "panic"] ELSE Stored(redacted.text, raised)
          [] OTHER -> Stored(text, raised)

------------------------------------------------------------------------------
(* The reference.                                                          *)

Disjoint(matches) == \A i, j \in DOMAIN matches :
                        i # j => matches[i].end <= matches[j].start \/ matches[j].end <= matches[i].start

Covered(matches, i) == \E k \in DOMAIN matches : matches[k].start < i /\ i <= matches[k].end

\* What becomes of a character: the first of a match is its marker, the others are gone.
Shown(text, matches, i) ==
    IF \E k \in DOMAIN matches : matches[k].start = i - 1
    THEN Marker(matches[CHOOSE k \in DOMAIN matches : matches[k].start = i - 1].pattern)
    ELSE IF Covered(matches, i) THEN <<>> ELSE <<text[i]>>

\* Each match replaced by its marker, every other character where it was.
Replaced(text, matches) ==
    LET all[i \in 0 .. Len(text)] == IF i = 0 THEN <<>> ELSE all[i - 1] \o Shown(text, matches, i)
    IN  all[Len(text)]

\* The characters in front of all matches.
Before(text, matches) == SubSeq(text, 1, Min({Len(text)} \cup {matches[k].start : k \in DOMAIN matches}))
==============================================================================
