------------------------------- MODULE FrontEnds -------------------------------
(***************************************************************************)
(* What the three front ends make of a request: the MCP server on the      *)
(* standard streams, the HTTP server and the command line (server/,        *)
(* main.rs).  The engine appears as the outcome of the calls it gets.      *)
(***************************************************************************)
EXTENDS Integers, Sequences, SequencesExt

\* A classification that is not known counts as internal, none as the configured default.
ParsedClass(name) == IF name \in {"none", "public", "confidential", "pii"} THEN name ELSE "internal"

------------------------------------------------------------------------------
(* The MCP server: one JSON-RPC message per line.                          *)

NoId == "null"

\* The tools tools/list names; their schemas are left out.
Tools == {"recall", "expand", "reflect", "status", "retain", "import", "forget", "streams", "tags"}

\* A tool call is answered with a text, whatever the tool: the server has no engine to call.
ToolText(tool) ==
    CASE tool = "status" -> "healthy"
      [] tool = "recall" -> "no memories stored yet"
      [] tool = "retain" -> "memory stored"
      [] tool = "reflect" -> "requires tier 2"
      [] OTHER -> "called"

\* Mutant of McpAnswer: an unknown method is answered without the id of the request.
McpAnswerWithoutId(request) ==
    CASE request.method = "initialize" -> [id |-> request.id, result |-> "server info"]
      [] request.method = "tools/list" -> [id |-> request.id, result |-> "tools"]
      [] request.method = "tools/call" -> [id |-> request.id, result |-> ToolText(request.tool)]
      [] OTHER -> [id |-> NoId, error |-> -32601]

McpAnswer(request) ==
    CASE request.method = "initialize" -> [id |-> request.id, result |-> "server info"]
      [] request.method = "tools/list" -> [id |-> request.id, result |-> "tools"]
      [] request.method = "tools/call" -> [id |-> request.id, result |-> ToolText(request.tool)]
      [] OTHER -> [id |-> request.id, error |-> -32601]

\* One turn of serve_stdio.  A line that cannot be read, or an answer that cannot be written, ends
\* the server; a line that is no request, or a request without an id, is a parse error.
McpTurn(acc, line, writable) ==
    CASE ~ acc.serving \/ line.kind = "blank" -> acc
      [] acc.serving /\ line.kind = "unreadable" -> [acc EXCEPT !.serving = FALSE]
      [] acc.serving /\ line.kind \in {"request", "notification", "garbage"} ->
           LET answer == IF line.kind = "request" THEN McpAnswer(line) ELSE [id |-> NoId, error |-> -32700]
           IN  IF Len(acc.answers) = writable THEN [acc EXCEPT !.serving = FALSE]
               ELSE [acc EXCEPT !.answers = Append(@, answer)]

ServeStdio(lines, writable) ==
    LET acc[i \in 0 .. Len(lines)] ==
          IF i = 0 THEN [answers |-> <<>>, serving |-> TRUE] ELSE McpTurn(acc[i - 1], lines[i], writable)
    IN  acc[Len(lines)]

\* The reference: the places of the lines that ask for an answer, in front of any that cannot be read.
Asking(lines) ==
    {i \in DOMAIN lines : lines[i].kind # "blank" /\ \A k \in 1 .. i : lines[k].kind # "unreadable"}

------------------------------------------------------------------------------
(* The HTTP server.                                                        *)

\* The routes that take the engine out of the shared state and call it once.
EngineRoutes == {"recall", "expand", "retain", "forget"}
OtherRoutes == {"health", "status", "reflect", "streams", "create stream", "tags", "manage tags"}

\* What the routes say that look at nothing, whatever the request asks for.
FixedAnswer(route) ==
    CASE route = "health" -> "healthy"
      [] route = "reflect" -> "requires tier 2"
      [] route = "create stream" -> "created"
      [] route = "manage tags" -> "ok"
      [] route \in {"streams", "tags"} -> "none"

\* The status route counts the memories and the vectors.  A count that fails reads 0, the second is
\* thrown away, and it says "healthy" whenever there is an engine.
Status(engine, outcome) ==
    IF engine
    THEN [status |-> 200, says |-> "healthy", memory_count |-> IF outcome = "ok" THEN "counted" ELSE "zero",
          calls |-> <<"memory_count", "vector_count">>]
    ELSE [status |-> 200, says |-> "degraded", memory_count |-> "zero", calls |-> <<>>]

\* Mutant of HttpRespond: recall swallows its error, as the status route does.
HttpRespondNoError(route, engine, outcome) ==
    CASE route = "status" -> Status(engine, outcome)
      [] route \in EngineRoutes /\ ~ engine -> [status |-> 503, says |-> "unavailable", calls |-> <<>>]
      [] route \in EngineRoutes /\ engine ->
           [status |-> CASE outcome = "ok" \/ route = "recall" -> 200
                         [] outcome # "ok" /\ route = "expand" -> 404
                         [] outcome # "ok" /\ route \notin {"expand", "recall"} -> 500,
            says |-> IF outcome = "ok" THEN "done" ELSE "error", calls |-> <<route>>]
      [] route \in OtherRoutes \ {"status"} -> [status |-> 200, says |-> FixedAnswer(route), calls |-> <<>>]

\* The status of the answer, what it says and the calls that were made for it; `outcome` is that of
\* the first call.
HttpRespond(route, engine, outcome) ==
    CASE route = "status" -> Status(engine, outcome)
      [] route \in EngineRoutes /\ ~ engine -> [status |-> 503, says |-> "unavailable", calls |-> <<>>]
      [] route \in EngineRoutes /\ engine ->
           [status |-> CASE outcome = "ok" -> 200
                         [] outcome # "ok" /\ route = "expand" -> 404
                         [] outcome # "ok" /\ route # "expand" -> 500,
            says |-> IF outcome = "ok" THEN "done" ELSE "error", calls |-> <<route>>]
      [] route \in OtherRoutes \ {"status"} -> [status |-> 200, says |-> FixedAnswer(route), calls |-> <<>>]

------------------------------------------------------------------------------
(* The command line.                                                       *)

\* For each command the steps that may fail, in their order; the rest of it prints.  Engine::status
\* counts the memories and then the vectors.
EngineSteps == [c \in {"status", "retain", "recall", "expand", "forget"} |->
                  <<"config", "engine", "call">> \o IF c = "status" THEN <<"vectors">> ELSE <<>>]

ServeSteps == [c \in {"serve http", "serve mcp"} |->
                 IF c = "serve http" THEN <<"config", "config", "engine", "bind">> ELSE <<"config", "stdio">>]

\* `validate` prints what is wrong and ends well.
ReadSteps == [c \in {"reflect", "context", "validate", "csv", "excel"} |->
                CASE c \in {"reflect", "context"} -> <<"config">> [] c = "csv" -> <<"read">> [] OTHER -> <<>>]

TableSteps ==
    [c \in {"streams list", "streams create", "streams describe", "streams switch",
            "tags list", "tags rename", "tags add", "tags remove"} |->
       CASE c \in {"streams list", "streams create", "streams describe"} -> <<"config", "database", "migrate", "query">>
         [] c = "streams switch" -> <<"config", "database", "migrate">>
         [] c \in {"tags list", "tags rename"} -> <<"database", "migrate", "query">>
         [] c = "tags add" -> <<"database", "migrate", "type">>
         [] OTHER -> <<"database", "migrate">>]

FileSteps == [c \in {"config show", "config edit", "config path", "backup", "restore", "restore verify", "repair"} |->
                CASE c \in {"config show", "restore verify"} -> <<"read">>
                  [] c = "config edit" -> <<"editor">>
                  [] c = "backup" -> <<"write">>
                  [] c = "restore" -> <<"copy">>
                  [] c = "repair" -> <<"database", "check">>
                  [] OTHER -> <<>>]

\* These commands look at nothing but their arguments.
PrintSteps == [c \in {"auth", "security", "audit", "compliance", "models"} |-> <<>>]
PlannedSteps == [c \in {"reindex", "purge", "hold", "archive"} |-> <<>>]

\* `init` writes a configuration only if there is none.
InitSteps == [c \in {"init"} |-> <<"directories", "write">>]

Commands == UNION {DOMAIN InitSteps, DOMAIN EngineSteps, DOMAIN ServeSteps, DOMAIN ReadSteps, DOMAIN TableSteps,
                   DOMAIN FileSteps, DOMAIN PrintSteps, DOMAIN PlannedSteps}

StepsOf(command) ==
    CASE command \in DOMAIN InitSteps -> InitSteps[command]
      [] command \in DOMAIN EngineSteps -> EngineSteps[command]
      [] command \in DOMAIN ServeSteps -> ServeSteps[command]
      [] command \in DOMAIN ReadSteps -> ReadSteps[command]
      [] command \in DOMAIN TableSteps -> TableSteps[command]
      [] command \in DOMAIN FileSteps -> FileSteps[command]
      [] command \in DOMAIN PrintSteps -> PrintSteps[command]
      [] command \in DOMAIN PlannedSteps -> PlannedSteps[command]

\* `main`: the first step that fails (`failing` tells which would) ends the command.
RunCommand(command, failing) ==
    LET steps == StepsOf(command)
        bad == SelectInSeq(steps, LAMBDA s : s \in failing)
    IN  [made |-> IF bad = 0 THEN steps ELSE SubSeq(steps, 1, bad - 1), exit |-> IF bad = 0 THEN 0 ELSE 1]

\* cmd_import: parse, then one retain after the other up to the first that fails or panics (`good`
\* succeed).  Nothing to import opens no engine.  retain summarises the text by its first line too,
\* and that of a memory whose parser does not may panic there.
ImportCommand(parsed, fails, good) ==
    LET Fail(stored, why) == [stored |-> stored, exit |-> IF why = "panic" THEN 101 ELSE 1, says |-> "error"]
    IN  IF ~ parsed.ok THEN Fail(<<>>, parsed.why)
        ELSE IF parsed.memories = <<>> THEN [stored |-> <<>>, exit |-> 0, says |-> "parsed 0"]
        ELSE IF fails \in {"config", "open"} THEN Fail(<<>>, fails)
        ELSE IF good < Len(parsed.memories) THEN Fail(SubSeq(parsed.memories, 1, good), fails)
        ELSE [stored |-> parsed.memories, exit |-> 0, says |-> "imported"]
==============================================================================
