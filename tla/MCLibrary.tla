------------------------------- MODULE MCLibrary -------------------------------
(***************************************************************************)
(* The parts of the crate that are small on their own, checked in one run. *)
(* They share no state, so each gets a scene of its own instead of being   *)
(* interleaved with the others; in the scene "opening" processes open and  *)
(* migrate the database.  The parts without state are functions: in the    *)
(* scene "inputs" a step picks one input, and the properties say what the  *)
(* function makes of it.                                                   *)
(***************************************************************************)
EXTENDS Migrations, Registry, Workspace, ContextCompiler, SecretPolicy, Notes, Import, Access, FrontEnds

CONSTANTS n1, n2, u1, t1, t2, m1, m2, p1, p2, p3

VARIABLES scene, input

libraryVars == <<vars, registryVars, workspaceVars, scene, input>>

MCMarkerLen == <<3, 1>>
MCWord == {"anna", "Anna", "bob"}
MCLower == [w \in MCWord |-> IF w = "bob" THEN "bob" ELSE "anna"]
MCRetention == {1, 2}

Scenes == {"opening", "streams", "tags", "names", "links", "backups", "checkpoint", "inputs"}

NoInput == [kind |-> "none"]

------------------------------------------------------------------------------
(* The inputs.                                                             *)

MCTexts == {[hash |-> "a", len |-> 3], [hash |-> "b", len |-> 8], [hash |-> "c", len |-> 19]}
MCParagraphs == <<[hash |-> "a", len |-> 3], [hash |-> "b", len |-> 51]>>

CompileInputs ==
    [kind : {"compile"}, budget : 0 .. 9,
     known : {<<>>, <<[hash |-> "c", paragraphs |-> <<>>]>>, <<[hash |-> "whole", paragraphs |-> MCParagraphs]>>},
     l0 : [tier : {4, 12}, optional : {<<>>, <<5>>}], l1 : [description : {<<>>, <<3>>}, facts : {<<>>, <<6>>}],
     l2 : BoundedSeq(MCTexts, 2), l3 : BoundedSeq(MCTexts, 1)]

MCTextLen == 4
Spans == {s \in (0 .. MCTextLen) \X (0 .. MCTextLen) : s[1] < s[2]}
SpanLists == {s \in BoundedSeq(Spans, 2) : Len(s) = 2 => s[1][2] <= s[2][1]}

SecretInputs ==
    [kind : {"secret"}, len : {MCTextLen}, mode : {"warn", "redact", "block"}, hits : [{1, 2} -> SpanLists],
     requested : {"none", "public", "pii", "top"}, default : {"internal"}]

MCLines == [kind : {"heading"}, len : {5}, splits : {FALSE}]
             \cup [kind : {"text"}, len : {0, 4, 12}, splits : {FALSE}]
             \cup [kind : {"text"}, len : {203}, splits : BOOLEAN]

NoteInputs == [kind : {"note"}, lines : BoundedSeq(MCLines, 4)]

CsvInputs ==
    [kind : {"csv"}, headers : BoundedSeq({"content", "date", "other"}, 3),
     mapping : {<<>>, <<[role |-> "content", header |-> "other"]>>,
                <<[role |-> "author", header |-> "date"], [role |-> "content", header |-> "content"]>>},
     records : BoundedSeq({<<"x", "">>, <<"", "y">>, <<"x", "y">>, <<"x", "y", "z">>}, 2), cuts : {{}, {2}}]

\* The files with one text may have a line that is cut inside a character: the first one of the content
\* or that of the text.
MCFiles == {[ext |-> f[1], shape |-> f[2], texts |-> ts[1], nodes |-> <<2, 3, 1>>, cuts |-> ts[2]] :
               f \in ({"json"} \X {"array", "chats", "clear", "object", "text", "unreadable"})
                       \cup ({"md"} \X {"text", "unreadable"}) \cup ({"log"} \X {"text", "array", "unreadable"}),
               ts \in {<<<<"x", "", "y">>, {}>>} \cup ({<<"z">>} \X {{}, {0}, {1}})}

WholeFiles == {f \in MCFiles : f.cuts = {}}

Paths == {[type |-> "missing"]} \cup [type : {"file"}, file : MCFiles]
           \cup [type : {"dir"}, files : BoundedSeq(MCFiles, 2), subdirs : {<<>>}]
           \cup [type : {"dir"}, files : {<<>>}, subdirs : {<<s>> : s \in BoundedSeq(WholeFiles, 2)}]
           \cup [type : {"dir"}, files : BoundedSeq(MCFiles, 1), subdirs : {<<s, s>> : s \in BoundedSeq(WholeFiles, 1)}]

\* How the retains of an import go: all succeed, one fails or panics, or the engine does not open.
Endings == {<<"none", 4>>, <<"retain", 1>>, <<"panic", 1>>, <<"open", 4>>}

ImportInputs == {[kind |-> "import", path |-> p, format |-> f, fails |-> e[1], good |-> e[2]] :
                   p \in Paths, f \in Formats \cup {"auto", "pdf"}, e \in Endings}

TokenInputs ==
    [kind : {"token"},
     entries : BoundedSeq([hash : {"h", "k"}, id : {"i"}, scope : Scopes \cup {"bogus"}, expires : {Never, 1}], 2),
     hash : {"h"}, required : Scopes, now : {1, 2}]

Requests == [client : {"c", "d"}, category : {"read", "purge"}, at : 0 .. 2]

RateInputs ==
    [kind : {"rate"},
     config : [enabled : {TRUE}, read_rpm : {1, 2}, write_rpm : {1}, reflect_rpm : {1}, auth_rpm : {1}, purge_rph : {0, 1}]
                \cup [enabled : {FALSE}, read_rpm : {1}, write_rpm : {1}, reflect_rpm : {1}, auth_rpm : {1},
                      purge_rph : {1}],
     requests : {rs \in BoundedSeq(Requests, 3) : \A i \in 1 .. Len(rs) - 1 : rs[i].at <= rs[i + 1].at}]

MCRequests == [kind : {"request"}, id : {"i", "j"}, method : {"initialize", "tools/list", "other"}, tool : {"none"}]
                \cup [kind : {"request"}, id : {"i"}, method : {"tools/call"}, tool : {"retain", "streams"} \cap Tools]

McpInputs ==
    [kind : {"mcp"}, writable : 0 .. 3,
     lines : BoundedSeq(MCRequests \cup {[kind |-> k] : k \in {"blank", "unreadable", "notification", "garbage"}}, 3)]

CommandInputs ==
    [kind : {"command"}, command : Commands,
     failing : SUBSET {"config", "engine", "call", "vectors", "database", "migrate", "query", "read"}]

PickInput ==
    /\ scene = "inputs" /\ input = NoInput
    /\ \/ input' \in CompileInputs
       \/ input' \in SecretInputs
       \/ input' \in NoteInputs
       \/ input' \in CsvInputs
       \/ input' \in ImportInputs
       \/ input' \in TokenInputs
       \/ input' \in RateInputs
       \/ input' \in McpInputs
       \/ input' \in CommandInputs

------------------------------------------------------------------------------
LibraryInit ==
    /\ Init /\ RegistryInit /\ WorkspaceInit
    /\ scene \in Scenes /\ (scene # "opening" => Fresh)
    /\ input = NoInput

Opening == UNCHANGED <<registryVars, workspaceVars, scene, input>>
Registered == UNCHANGED <<vars, workspaceVars, scene, input>>
Filed == UNCHANGED <<vars, registryVars, scene, input>>

LibraryNext ==
    \/ scene = "opening" /\ Next /\ Opening
    \/ scene = "streams" /\ StreamStep /\ Registered
    \/ scene = "tags" /\ TagStep /\ Registered
    \/ scene = "names" /\ NameStep /\ Registered
    \/ scene = "links" /\ (CreateEntity("bob") \/ LinkStep) /\ Registered
    \/ scene = "backups" /\ BackupStep /\ Filed
    \/ scene = "checkpoint" /\ CheckpointStep /\ Filed
    \/ PickInput /\ UNCHANGED <<vars, registryVars, workspaceVars, scene>>

Renaming == Permutations(Processes) \cup Permutations(Memories)

LibrarySpec == LibraryInit /\ [][LibraryNext]_libraryVars

------------------------------------------------------------------------------
(* Properties of the functions.                                            *)

\* The compiled context holds the offered layers and memories by first fit: one is left out only if it is
\* unwanted or does not fit beside those in front of it.  The tokens used are the sum of theirs and stay
\* within the budget, and none is free, so the texts have fewer than four bytes per token and text more
\* than the budget says (context/compiler.rs, compile and estimate_tokens).
CompileIsFirstFit ==
    input.kind = "compile" =>
        LET known == FoldLeft(RegisterKnownContent, {}, input.known)
            l0 == [hash |-> "l0", len |-> L0Len(input.l0)]
            l1 == [hash |-> "l1", len |-> L1Len(input.l1)]
            c == Compile(input.budget, known, l0, l1, input.l2, input.l3)
            offers == Offered(l0, l1, input.l2, input.l3)
            S == FirstFit(input.budget, known, offers)
            Place(i) == Cardinality({k \in S : k <= i})
        IN  /\ Len(c.taken) = Cardinality(S) /\ \A i \in S : c.taken[Place(i)] = offers[i]
            /\ c.tokens_used = TokensTo(c.taken, 1 .. Len(c.taken), Len(c.taken))
            /\ c.tokens_used <= input.budget /\ Len(c.taken) <= c.tokens_used
            /\ PrintedBytes(c.taken) < 4 * (c.tokens_used + Len(c.taken)) \/ c.taken = <<>>
            /\ c.l2_count = Cardinality({k \in DOMAIN c.taken : c.taken[k].layer = "L2"})
            /\ c.l3_count = Cardinality({k \in DOMAIN c.taken : c.taken[k].layer = "L3"})

\* What retain does about secrets.  A text that is stored with its secrets in it, or with markers in their
\* place, is at least confidential and no less than was asked for.  Redaction replaces every match and
\* leaves every other character in its order if no two matches overlap; if some do, the offsets of the
\* earlier ones still hold, so what stands in front of all matches is kept (engine/mod.rs, retain;
\* security/redactor.rs, redact).
SecretsAreReplaced ==
    input.kind = "secret" =>
        LET text == TextOf(input.len)
            matches == Scan(input.hits)
            requested == ParsedClass(input.requested)
            wanted == IF requested = "none" THEN input.default ELSE requested
            r == RetainPolicy(input.mode, text, input.hits, requested, input.default)
        IN  /\ r.outcome = "stored" => MaxClass(wanted, ClassifyContent(input.hits)) = r.class \/ matches = <<>>
            /\ r.outcome = "stored" => EffectiveClassification(<<wanted, r.class>>) = r.class
            /\ (input.mode = "redact" /\ Disjoint(matches)) => (r.outcome = "stored" /\ r.text = Replaced(text, matches))
            /\ (input.mode = "redact" /\ r.outcome = "stored") => IsPrefix(Before(text, matches), r.text)

\* A note is cut at its headings and nowhere else, no line is lost, and only sections of at most ten bytes
\* are left out.  A summary panics only on a first line whose byte 200 is inside a character
\* (import/markdown.rs, split_by_headings and parse_file).
NoteSectionsAreWhole ==
    input.kind = "note" =>
        LET sections == SplitByHeadings(input.lines)
            note == ParseNote(input.lines)
            starts == Starts(input.lines)
            Place(i) == Cardinality({k \in starts : k <= i})
        IN  /\ AllBlank(input.lines) => sections = <<>>
            /\ ~ AllBlank(input.lines) =>
                  Len(sections) = Cardinality(starts) /\ \A i \in starts : sections[Place(i)] = SectionAt(input.lines, i)
            /\ \A s \in ToSet(sections) \ ToSet(note.sections) : ~ (TrimmedLen(s) > MinSection)
            /\ note.panic => \E s \in ToSet(note.sections) : \E i \in DOMAIN s : s[i].splits /\ AllBlank(SubSeq(s, 1, i - 1))

\* An import brings in every text of the files its format reads, once and in their order (for ChatGPT in
\* the order of the ids of the messages).  In a directory of sessions a file that cannot be parsed is passed
\* over: the import fails only by a panic, over a file with a line whose byte 200 is inside a character.
\* Among notes it fails by such a file or by one that cannot be read, and a channel of Slack never does.
\* The command stores the memories in that order up to the first retain that fails or panics, and says
\* "imported" only if it stored all (import/, main.rs, cmd_import).
ImportKeepsTexts ==
    input.kind = "import" =>
      LET path == input.path
          read == Parse(path, input.format)
          done == ImportCommand(read, input.fails, input.good)
      IN  /\ (path.type = "dir" /\ input.format \in {"claude_code", "copilot", "markdown"}) =>
               /\ read.ok => TextsOf(read.memories) = TextsIn(path.files, input.format)
               /\ ~ read.ok => /\ \E f \in ToSet(path.files) : Stops(f, input.format)
                               /\ input.format # "markdown" => read.why = "panic"
          /\ (path.type = "dir" /\ input.format = "slack") =>
               /\ read.ok
               /\ TextsOf(read.memories) = FlattenSeq([i \in DOMAIN path.subdirs |-> TextsIn(path.subdirs[i], "slack")])
          /\ (path.type = "file" /\ input.format = "chatgpt" /\ read.ok /\ path.file.shape = "chats") =>
               LET texts == TextsOf(read.memories)
               IN  ToSet(texts) = ToSet(NonEmpty(path.file.texts)) /\ Len(texts) = Len(NonEmpty(path.file.texts))
          /\ read.ok => IsPrefix(done.stored, read.memories)
          /\ done.says = "imported" => read.ok /\ done.stored = read.memories

\* A table that is converted by its headers imports as what its content column holds, row by row: the last
\* column of that name, or the last of all.  The import fails only over a content whose first line is cut
\* inside a character (import/converter.rs, csv_to_clear and auto_map; import/clear_format.rs).
TableKeepsContents ==
    input.kind = "csv" =>
      LET clear == CsvToClear(input.headers, input.records, input.mapping)
          contents == NonEmpty([i \in DOMAIN input.records |-> input.records[i][ContentColumn(input.headers)]])
          read == ClearFile([shape |-> "clear", cuts |-> input.cuts,
                             texts |-> [i \in DOMAIN clear.memories |-> clear.memories[i].content]])
      IN  (clear.ok /\ input.mapping = <<>> /\ input.headers # <<>> /\ input.records # <<>>) =>
            /\ read.ok => TextsOf(read.memories) = contents
            /\ ~ read.ok => input.cuts \cap DOMAIN contents # {}

\* What other clients and tokens do changes nothing for a client: a request is admitted as by a limiter of
\* its own for its category, and a token as if the entries of other tokens were not there, except that it
\* is refused if none are its own (security/rate_limiter.rs, check; auth.rs, validate and check_scope).
ClientsAreSeparate ==
    /\ input.kind = "rate" =>
         \A i \in DOMAIN input.requests :
            Answers(input.config, input.requests)[i] = OwnAnswer(input.config, input.requests, i)
    /\ input.kind = "token" =>
         LET own == {i \in DOMAIN input.entries : input.entries[i].hash = input.hash}
         IN  input.entries # <<>> =>
               (Admit(input.entries, input.hash, input.required, input.now)
                  <=> own # {} /\ Admit(<<input.entries[Max(own)]>>, input.hash, input.required, input.now))

\* The MCP server answers the lines in front of the first one it cannot read, except blank ones, each
\* once, in their order and with the id of the request, as far as answers can be written, so no answer
\* belongs to another request (server/mcp.rs, serve_stdio and handle_request).
AnswersMatchRequests ==
    input.kind = "mcp" =>
      LET lines == input.lines
          served == ServeStdio(lines, input.writable)
          Turn(i) == Cardinality({k \in Asking(lines) : k <= i})
      IN  /\ Len(served.answers) = Min({Cardinality(Asking(lines)), input.writable})
          /\ \A i \in Asking(lines) : Turn(i) <= Len(served.answers) =>
                served.answers[Turn(i)].id = IF lines[i].kind = "request" THEN lines[i].id ELSE NoId
          /\ served.serving <=> /\ \A i \in DOMAIN lines : lines[i].kind # "unreadable"
                               /\ Cardinality(Asking(lines)) <= input.writable

\* The HTTP server and the command line judge the same operation of the same engine alike: 200 exactly if
\* the command exits with 0.  Only the status route hides errors, but a count it shows is one that was
\* made, and the command fails beside it only over the vectors.  No command reads tables of a database it
\* has not migrated (server/http.rs, status_handler and others; main.rs).
FrontEndsAgree ==
    input.kind = "command" =>
      LET failing == input.failing
          run == RunCommand(input.command, failing)
          http == HttpRespond(input.command, failing \cap {"config", "engine"} = {},
                              IF "call" \in failing THEN "error" ELSE "ok")
      IN  /\ input.command \in EngineRoutes => (http.status = 200 <=> run.exit = 0)
          /\ input.command = "status" =>
               /\ run.exit = 0 => http.memory_count = "counted"
               /\ http.memory_count = "counted" /\ run.exit # 0 => "vectors" \in failing
          /\ \A i \in DOMAIN run.made : run.made[i] = "query" => "migrate" \in ToSet(SubSeq(run.made, 1, i - 1))
==============================================================================
