-------------------------------- MODULE Import --------------------------------
(***************************************************************************)
(* Reading conversations and notes into memories (import/).  A file is a   *)
(* record of its extension, the shape of its content and the texts in it,  *)
(* where a text is a model value and "" an empty one; the order of a       *)
(* directory is the one read_dir happens to give.  A memory is the         *)
(* sequence of the texts it holds.  Dates, authors and titles are carried  *)
(* along without being looked at and left out.  So are the summaries, but  *)
(* not that l[..200] panics on a line whose byte 200 is inside a           *)
(* character: `cuts` has the places of these lines, i for the first line   *)
(* that text i is summarised by and 0 for the first line of the content.   *)
(***************************************************************************)
EXTENDS Integers, FiniteSets, Sequences, SequencesExt

Ok(memories) == [ok |-> TRUE, memories |-> memories]
Err(why) == [ok |-> FALSE, why |-> why]
Panics(result) == ~ result.ok /\ result.why = "panic"

NonEmpty(texts) == FlattenSeq([i \in DOMAIN texts |-> IF texts[i] = "" THEN <<>> ELSE <<texts[i]>>])

\* The shapes of a JSON content: an array of messages, an object with such an array, the export of
\* ChatGPT (an array of conversations, or an object around them), a .clear file, or anything else.
IsJson(file) == file.shape \in {"array", "messages", "chats", "conversations", "clear", "object"}

\* The messages of a file as claude_code and copilot look for them; the elements of an export of
\* ChatGPT have neither content nor text.
Messages(file) == IF file.shape = "chats" THEN <<>> ELSE NonEmpty(file.texts)
HasMessages(file) == file.shape \in {"array", "messages", "chats"}

\* The first text there is, 0 without one: a conversation is summarised by its first line.
FirstText(file) == SelectInSeq(file.texts, LAMBDA t : t # "")

\* A memory for each text is summarised by that text.
CutsAText(file) == \E i \in DOMAIN file.texts : file.texts[i] # "" /\ i \in file.cuts

\* A memory of the whole content.
Whole(file) == <<NonEmpty(file.texts)>>
OneConversation(texts) == IF texts = <<>> THEN <<>> ELSE <<texts>>

ClaudeCodeFile(file) ==
    IF ~ IsJson(file) THEN Err("parse")
    ELSE IF ~ HasMessages(file) THEN Ok(Whole(file))
    ELSE IF Messages(file) # <<>> /\ FirstText(file) \in file.cuts THEN Err("panic")
    ELSE Ok(OneConversation(Messages(file)))

CopilotFile(file) ==
    LET talks == HasMessages(file) /\ Messages(file) # <<>>
    IN  IF file.shape = "unreadable" THEN Err("parse")
        ELSE IF file.texts = <<>> /\ ~ IsJson(file) THEN Ok(<<>>)
        ELSE IF (IF talks THEN FirstText(file) ELSE 0) \in file.cuts THEN Err("panic")
        ELSE Ok(IF talks THEN <<Messages(file)>> ELSE Whole(file))

\* The parsed JSON object keeps its members sorted by key: the messages come in the order of the ids
\* of their nodes, whatever their order in the conversation.
ByNode(file) ==
    LET Turn(i) == 1 + Cardinality({j \in DOMAIN file.texts : file.nodes[j] < file.nodes[i]})
    IN  [k \in 1 .. Len(file.texts) |-> file.texts[CHOOSE i \in DOMAIN file.texts : Turn(i) = k]]

\* An array without conversations holds no memory.
ChatGptFile(file) ==
    IF file.shape \notin {"array", "chats"} THEN Err("parse")
    ELSE Ok(IF file.shape = "chats" THEN OneConversation(NonEmpty(ByNode(file))) ELSE <<>>)

ClearFile(file) ==
    IF file.shape # "clear" THEN Err("parse")
    ELSE IF CutsAText(file) THEN Err("panic")
    ELSE LET texts == NonEmpty(file.texts) IN Ok([i \in DOMAIN texts |-> <<texts[i]>>])

\* The texts of a note are its sections; the module Notes says how its lines are cut into them.
MarkdownFile(file) ==
    IF file.shape = "unreadable" THEN Err("parse")
    ELSE IF CutsAText(file) THEN Err("panic")
    ELSE LET texts == NonEmpty(file.texts) IN Ok([i \in DOMAIN texts |-> <<texts[i]>>])

\* A file of a channel that cannot be read or parsed is passed over.
SlackChannel(files) ==
    FlattenSeq([i \in DOMAIN files |-> IF files[i].ext = "json" /\ files[i].shape \in {"array", "chats"}
                                     THEN OneConversation(Messages(files[i])) ELSE <<>>])

\* The directories of markdown: the first file that fails ends the import.
ReadAll(files, exts, Parse(_)) ==
    LET bad == SelectInSeq(files, LAMBDA f : f.ext \in exts /\ ~ Parse(f).ok)
    IN  IF bad # 0 THEN Err(Parse(files[bad]).why)
        ELSE Ok(FlattenSeq([i \in DOMAIN files |-> IF files[i].ext \in exts THEN Parse(files[i]).memories ELSE <<>>]))

\* The directories of claude_code and copilot: a file that fails is passed over, but a panic is not caught.
ReadEach(files, exts, Parse(_)) ==
    IF \E i \in DOMAIN files : files[i].ext \in exts /\ Panics(Parse(files[i])) THEN Err("panic")
    ELSE Ok(FlattenSeq([i \in DOMAIN files |-> IF files[i].ext \in exts /\ Parse(files[i]).ok
                                              THEN Parse(files[i]).memories ELSE <<>>]))

ParseSlack(path) ==
    IF path.type # "dir" THEN Err("parse")
    ELSE Ok(FlattenSeq([i \in DOMAIN path.subdirs |-> SlackChannel(path.subdirs[i])]))

\* Mutant of ParseClaudeCode: the first file that cannot be parsed ends the import, as among notes.
ParseClaudeCodeAll(path) ==
    IF path.type = "dir" THEN ReadAll(path.files, {"json"}, ClaudeCodeFile) ELSE ClaudeCodeFile(path.file)

ParseClaudeCode(path) ==
    IF path.type = "dir" THEN ReadEach(path.files, {"json"}, ClaudeCodeFile) ELSE ClaudeCodeFile(path.file)
ParseCopilot(path) ==
    IF path.type = "dir" THEN ReadEach(path.files, {"log", "json"}, CopilotFile) ELSE CopilotFile(path.file)
ParseMarkdown(path) ==
    IF path.type = "dir" THEN ReadAll(path.files, {"md", "txt"}, MarkdownFile) ELSE MarkdownFile(path.file)
ParseChatGpt(path) == IF path.type = "dir" THEN Err("parse") ELSE ChatGptFile(path.file)
ParseClear(path) == IF path.type = "dir" THEN Err("parse") ELSE ClearFile(path.file)

Formats == {"claude_code", "copilot", "chatgpt", "slack", "markdown", "clear"}

\* detect_format: the extension, then what a JSON file contains, then what a directory contains.
DetectFormat(path) ==
    CASE path.type = "missing" -> "not found"
      [] path.type = "file" ->
           (CASE path.file.ext \in {"clear", "csv"} -> "clear"
              [] path.file.ext \in {"md", "txt"} -> "markdown"
              [] path.file.ext = "json" /\ path.file.shape = "clear" -> "clear"
              [] path.file.ext = "json" /\ path.file.shape \in {"chats", "conversations"} -> "chatgpt"
              [] OTHER -> "undetected")
      [] path.type = "dir" ->
           IF \E i \in DOMAIN path.subdirs : \E k \in DOMAIN path.subdirs[i] : path.subdirs[i][k].ext = "json"
           THEN "slack" ELSE "markdown"

\* ImportFormat::parse_name and parse.
Parse(path, name) ==
    LET format == IF name = "auto" THEN DetectFormat(path) ELSE name
    IN  IF format \notin Formats THEN Err(format)
        ELSE IF path.type = "missing" THEN Err("parse")
        ELSE CASE format = "clear" -> ParseClear(path)
               [] format = "markdown" -> ParseMarkdown(path)
               [] format = "chatgpt" -> ParseChatGpt(path)
               [] format = "claude_code" -> ParseClaudeCode(path)
               [] format = "copilot" -> ParseCopilot(path)
               [] format = "slack" -> ParseSlack(path)

------------------------------------------------------------------------------
(* The reference: the texts an import of a readable path brings in.         *)

\* Where a format finds texts.
Readable(file, name) ==
    CASE name \in {"claude_code"} -> file.ext = "json" /\ IsJson(file) /\ file.shape # "chats"
      [] name = "copilot" -> file.ext \in {"log", "json"} /\ file.shape # "unreadable"
      [] name = "markdown" -> file.ext \in {"md", "txt"} /\ file.shape # "unreadable"
      [] name = "slack" -> file.ext = "json" /\ file.shape = "array"
      [] OTHER -> FALSE

\* What keeps a directory from being imported: a summary that panics, among notes also a file that
\* cannot be read.
Stops(file, name) ==
    \/ Readable(file, name) /\ file.cuts # {}
    \/ name = "markdown" /\ file.ext \in {"md", "txt"} /\ file.shape = "unreadable"

\* All texts of the memories, one after the other.
TextsOf(memories) == FlattenSeq(memories)

TextsIn(files, name) ==
    FlattenSeq([i \in DOMAIN files |-> IF Readable(files[i], name) THEN NonEmpty(files[i].texts) ELSE <<>>])
==============================================================================
