--------------------------------- MODULE Notes ---------------------------------
(***************************************************************************)
(* Markdown notes and CSV tables on their way into memories                *)
(* (import/markdown.rs, import/converter.rs).  A line is a record of its    *)
(* kind, its length in bytes, 0 if it is blank, and whether byte 200 of    *)
(* what a summary takes of it lies inside a character; a column of a table *)
(* is known by what its name says.                                         *)
(***************************************************************************)
EXTENDS Integers, Sequences, SequencesExt

IsHeading(line) == line.kind = "heading"
IsBlank(line) == line.len = 0
AllBlank(lines) == \A i \in DOMAIN lines : IsBlank(lines[i])

\* Mutant of PutLine: a heading closes the section in front of it even if there is nothing in it yet.
PutLineEagerly(acc, line) ==
    IF IsHeading(line)
    THEN [sections |-> Append(acc.sections, acc.current), current |-> <<line>>]
    ELSE [acc EXCEPT !.current = Append(@, line)]

\* A heading of level one or two closes the section in front of it, unless that is blank.
PutLine(acc, line) ==
    IF IsHeading(line) /\ ~ AllBlank(acc.current)
    THEN [sections |-> Append(acc.sections, acc.current), current |-> <<line>>]
    ELSE [acc EXCEPT !.current = Append(@, line)]

SplitByHeadings(lines) ==
    LET acc[i \in 0 .. Len(lines)] ==
          IF i = 0 THEN [sections |-> <<>>, current |-> <<>>] ELSE PutLine(acc[i - 1], lines[i])
        all == acc[Len(lines)]
    IN  IF AllBlank(all.current) THEN all.sections ELSE Append(all.sections, all.current)

\* The bytes from the first to the last line that is not blank, with the line ends between them.
TrimmedLen(section) ==
    LET places == {i \in DOMAIN section : ~ IsBlank(section[i])}
    IN  IF places = {} THEN 0
        ELSE FoldLeft(LAMBDA sum, line : sum + line.len, Max(places) - Min(places), section)

MinSection == 10
\* A summary is cut at byte 200: the slice panics inside a character.
SummaryPanics(line) == line.splits

FirstLine(section) == section[Min({i \in DOMAIN section : ~ IsBlank(section[i])})]

\* The filter of parse_file, as a function so that it can be proved about.
LongSections(sections) ==
    LET kept[i \in 0 .. Len(sections)] ==
          IF i = 0 THEN <<>>
          ELSE IF TrimmedLen(sections[i]) > MinSection THEN Append(kept[i - 1], sections[i]) ELSE kept[i - 1]
    IN  kept[Len(sections)]

\* parse_file: the sections that are long enough, unless a summary panics.
ParseNote(lines) ==
    LET kept == LongSections(SplitByHeadings(lines))
    IN  [sections |-> kept, panic |-> \E i \in DOMAIN kept : SummaryPanics(FirstLine(kept[i]))]

\* What the sections of a note have to be: they begin at the headings that follow some text, and
\* each goes on to the line in front of the next.
Cuts(lines) == {i \in 1 .. Len(lines) : IsHeading(lines[i]) /\ ~ AllBlank(SubSeq(lines, 1, i - 1))}

Starts(lines) == {1} \cup Cuts(lines)

SectionAt(lines, i) ==
    SubSeq(lines, i, Max({j \in i .. Len(lines) : \A k \in i + 1 .. j : k \notin Cuts(lines)}))

------------------------------------------------------------------------------
NoColumn == 0

Columns == [date |-> NoColumn, author |-> NoColumn, content |-> NoColumn]

\* Each header is known by the first rule its name satisfies; the last header of a kind wins.
Named(headers) ==
    LET m[i \in 0 .. Len(headers)] ==
          IF i = 0 THEN Columns
          ELSE IF headers[i] \in DOMAIN Columns THEN [m[i - 1] EXCEPT ![headers[i]] = i] ELSE m[i - 1]
    IN  m[Len(headers)]

\* Mutant of AutoMap: the fallback is the place behind the last column, as a length is.
AutoMapPastEnd(headers) ==
    LET m == Named(headers)
    IN  IF m.content = NoColumn THEN [m EXCEPT !.content = Len(headers) + 1] ELSE m

\* Without a header for the content it is the last column.
AutoMap(headers) ==
    LET m == Named(headers)
    IN  IF m.content = NoColumn /\ headers # <<>> THEN [m EXCEPT !.content = Len(headers)] ELSE m

\* The pairs of a mapping name a role and a header; the first column of that name is taken, and a
\* pair of another role still has to name one.
ParseMapping(pairs, headers) ==
    IF \E i \in DOMAIN pairs : pairs[i].header \notin ToSet(headers) THEN [ok |-> FALSE]
    ELSE [ok |-> TRUE,
          columns |-> FoldLeft(LAMBDA acc, p :
                          IF p.role \in DOMAIN acc
                          THEN [acc EXCEPT ![p.role] = SelectInSeq(headers, LAMBDA h : h = p.header)]
                          ELSE acc, Columns, pairs)]

Cell(record, column) == IF column \in DOMAIN record THEN record[column] ELSE ""

\* csv_to_clear: a record of another length ends the conversion, a row without content is left out.
CsvToClear(headers, records, mapping) ==
    LET m == IF mapping = <<>> THEN [ok |-> TRUE, columns |-> AutoMap(headers)] ELSE ParseMapping(mapping, headers)
        Row(r) == [date |-> Cell(r, m.columns.date), author |-> Cell(r, m.columns.author), content |-> Cell(r, m.columns.content)]
    IN  IF ~ m.ok \/ \E i \in DOMAIN records : Len(records[i]) # Len(headers) THEN [ok |-> FALSE]
        ELSE [ok |-> TRUE,
              memories |-> FlattenSeq([i \in DOMAIN records |-> IF Row(records[i]).content = "" THEN <<>>
                                                               ELSE <<Row(records[i])>>])]
------------------------------------------------------------------------------
(* The reference of a table: the last column named for the content, or the last of all.                  *)
ContentColumn(headers) ==
    LET named == {i \in 1 .. Len(headers) : headers[i] = "content"}
    IN  IF named = {} THEN Len(headers) ELSE CHOOSE i \in named : \A j \in named : j <= i
==============================================================================
