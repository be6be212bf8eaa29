# Clear Memory in TLA+

Clear Memory is a local memory engine written in Rust: it keeps conversation transcripts verbatim, indexes them
in SQLite and LanceDB, extracts facts from them, and answers queries by fusing four searches. This directory holds
TLA+ models of the parts that keep state, TLC instances of them, and proofs checked by TLAPS. Paths below are
relative to the crate's `src/` unless they start with `docs/` or `migrations/`.

## 1. The system

One process (the server, or one CLI command) holds an `Engine` (engine/mod.rs) with three stores:

| store | file | state | who writes |
| --- | --- | --- | --- |
| verbatim | storage/verbatim.rs | one file per content hash, in `verbatim/` or `archive/` | each call itself |
| SQLite | storage/sqlite.rs | memories, tags, facts, entities, streams, holds, audit_log | one writer task; background tasks on connections of their own |
| LanceDB | storage/lance.rs | one table of vectors | each retain itself |

`retain` stores the file, then the row through the write queue, then the vector, answers, and leaves two detached
tasks behind: one extracts facts (facts/), one writes an audit row (audit/). `recall` checks the stream, reads a
snapshot of rows, runs four searches (retrieval/), fuses them and filters. `expand` reads the row, then the file.
`forget` goes through the write queue and ends the facts of a memory. Opening the database runs the migrations
(migration/), in the server and in every CLI command, on the same file.

What makes this hard: no lock or transaction spans two stores, or two statements; every statement commits on its own
connection; detached tasks outlive their caller and are lost on exit; a caller may leave at any await; every
statement and system call may fail; two processes may open the same file.

### Components

For each component: its state, its operations, whom it meets, and what makes it correct. The ones without a module
are listed at the end of the table with the reason.

| component | state and operations | interacts through | correct when | module |
| --- | --- | --- | --- | --- |
| write queue (storage/sqlite.rs) | mpsc channel, writer task, tables; retain, forget, update_access_time | oneshot answers, tables shared with background tasks | each call takes effect at most once and the answer tells what it did | WriteQueue, SerialStore |
| verbatim store (storage/verbatim.rs) | files; store, read, archive, delete | file names: calls on the same content meet in one file | an acknowledged text keeps a file, is found, and is whole | VerbatimStore |
| fact timeline (facts/) | facts with valid_from, valid_until; insert, detect, resolve | tasks meet in the facts table; forget | contradictions do not stay; a fact ends only for one of a later line of its text, or of a task at work beside its own | FactTimeline |
| audit log (audit/) | audit_log rows chained by hash | tasks meet at the last row | each answered operation is logged once, on an earlier row; a break of the chain has a cause | AuditChain |
| engine (engine/mod.rs) | the three stores; retain, expand | calls the components above | the stores never get ahead of each other | Engine |
| migrations (migration/, migrations/) | schema, schema_version, migration_log, full-text index | processes meet in the file | an opened database is ready, whatever happened before | Migrations |
| recall (engine/mod.rs, retrieval/) | a request in progress | reads of the tables and of LanceDB at different times | nothing outside the request is shown; the searches' order is kept | Recall |
| holds, archive, purge, retention (compliance/, retention/) | legal_holds, archived flag; create and release holds, archive, purge | check and change are separate statements | a hold freezes its stream for what begins under it, a purge that says Ok is complete | Lifecycle |
| streams, tags, entities (streams/, tags/, entities/) | streams, stream_tags, stream_writers, memory_tags, entities, aliases, relationships | the permission check of recall; tags refer to rows a purge deletes; the graph search | a stream that was acknowledged has its tags, a rename loses no tag, a mention keeps its meaning, the traversal finds what is near | Registry; Recall, Lifecycle in part |
| backups, reindex checkpoint (backup/, migration/reindex.rs) | files | calls on the same directory and file | the newest backups survive a clean-up, a torn checkpoint is noticed | Workspace |
| secrets and classes (security/, compliance/classification.rs) | none | the first step of retain | secrets are replaced and nothing else, the class never goes down | SecretPolicy; the gate in Recall |
| context compiler (context/) | none | what recall returns, in front of a prompt | the budget is kept, first fit in order of priority | ContextCompiler |
| import, conversion (import/) | none | files; each memory is one retain | every text arrives once, in order, and the user is told | Import, Notes |
| tokens and rate limits (security/auth.rs, rate_limiter.rs) | token table, one limiter per client and category | no route uses them yet | clients do not affect each other | Access |
| HTTP, MCP, CLI (server/, main.rs) | none of their own | the engine | the answer tells what the engine did, and belongs to its request | FrontEnds |
| encryption, TLS, embeddings, regular expressions | | | | no: cryptography and models |
| config, metrics, compliance reports, insider detection | | | | no: see "Not modelled" |
| reflect, curator, repair, reindex loop | | | | no: placeholders or no caller |

The hazards of this code, each at its line, are in `PROJECT.json`; they are what the properties below are for.

## 2. Modules

Each `MC*` module is an instance for TLC, each `*Proofs` module holds the theorems of the module it is named after,
and LibraryProofs those of the modules that MCLibrary checks together. A definition with "Mutant of" in its comment is
a plausible mistake in the definition below it; no action uses it, it serves to show that a property can fail.

**SerialStore** is the abstract store: every call takes effect at one instant between invocation and answer.

**WriteQueue** is storage/sqlite.rs in detail. `Invoke`, `Send` and `Cancel` are a caller's future; `Recv` to `Reply`
are `writer_task`, with each statement of `do_retain` a step of its own (`InsertRow`, `InsertFts`, `InsertTag`), since
docs/architecture.md's transaction does not exist in `do_retain`. `Fail` is a statement that fails, `Crash` an exit
followed by `open`. `ImplementsSerialStore` maps it to SerialStore by hiding the unfinished retain of the writer, and
by reading a call's outcome off the writer's step.

**VerbatimStore** has one action per system call: a look at a path (`ProbeActive`, `ProbeArchive`), the two halves of
`fs::write` (`Create`, which also truncates, and `Write`), reads, renames and removals. Files are inodes, so a rename
takes a file along that another call is still filling. `archive` and `delete` have no caller in the engine and are
modelled as the public operations they are.

**Engine** composes VerbatimStore (`V == INSTANCE VerbatimStore`) with the row and the vector. The write queue appears
as SerialStore specifies it: the row appears at one instant, an error may leave it behind. `Leave` is a dropped
request, `Kill` an exit.

**FactTimeline** models the background task of `retain` statement by statement: `Insert` (insert_fact), `Detect`
(detect_conflicts), `Decide` (one reading of the clock) and `Resolve` (one UPDATE per conflict), and `Forget` beside
it. A text is a sequence of facts over keys and objects; the patterns that find them are abstracted. `Extract` may
panic: `extract_facts` slices a line by the offsets of its lower-cased copy, which may be longer or shorter
(extractor.rs:46, 47 and 80), and the task then ends with no facts. `past` is a history variable: the tasks that were
over when a task began. The clock is taken to run forward; the code reads the wall clock, which an administrator may
set back.

**AuditChain** models the audit task: `Connect` opens a connection of its own, `Open` reads the last hash, `Insert`
writes the row chained to it. A read that fails counts as an empty log (`unwrap_or_else` in `AuditLogger::new`), so
the row then starts anew at the genesis hash; the history variable `blind` names those tasks. The audit row of a
retain is written at the end of the closure that extracts its facts, so `Extract` comes first there and its panic ends
the task without a row. Of the operations that `Answer`, forget starts no task. Hashes are nested pairs, so collisions
do not exist; the SHA-256 input holds a fresh uuid.

**Migrations** models `SqliteStorage::open` in several processes, statement by statement, because `execute_batch`
opens no transaction. Version 1 is recorded by its fifth statement; version 2 never is, so every opening runs it
again. `IF NOT EXISTS` and `INSERT OR IGNORE` are modelled by what they do. The row of the index that `do_retain`
inserts may get lost, by an error that is dropped or by an exit.

**Recall** models one request: `Ask` with the permission check, `TakeSnapshot`, the four searches in the order the
code polls them (the semantic search may answer at any time, the other three run one after the other), the fusion in
`Answer`, and the cut, the gate of the Cloud tier and the response in `Respond`. The store changes between any two
steps. Scores are `Scale \div (60 + rank)`; with `Scale` at least `(60 + TopK)^2` (`RecallAssumption`) different ranks
have different scores, as with floats. What a search finds within its WHERE clause is left open. Rows that cannot be
read from SQLite (`rows.flatten()`) are left out, here and in the traversal of Registry. The graph search draws on the
constant `Linked`: nothing in the crate outside its tests fills the entity tables, so the real set is empty unless a
user of the library fills it.

**Lifecycle** is what happens to a row after `retain`: `archive_memory` (`ReadStream`, `CheckHeld`, `SetArchived`,
`LogEvent`) and a purge (`CheckLegalHold`, then the four DELETEs), a statement a step, with holds that begin and end
and the writers of facts, tags and relationships in between. The function comments leave the check of the hold to the
caller of `purge_memory`, so a purge is the two calls in that order. A tag, a fact or a relationship is modelled by the
memory it names. Foreign keys are enforced on every connection (the bundled SQLite is built with them on, `open` sets
them as well): they keep facts and tags from outliving their row and make the last DELETE fail while some are left.
No command calls these functions yet. Two remarks on what they leave alone: `forget` looks at no hold, although
compliance/README.md:7 names it, and a relationship has no foreign key, so one can be added to a purged memory.

The remaining modules are small and are checked together in `MCLibrary`:

**Registry** is the tables a user fills by hand. `CreateStream` inserts the row, `InsertStreamTag` one tag after the
other, `FinishStream` answers; the primary key, a failing statement or an exit may stop it in between, and the row
stays. Names of streams are not unique, so a creation that is tried again leaves two rows of one name, and `get_stream`
may answer with either (`GetStream` is a set). `RenameTag` is one UPDATE, refused as a whole where a memory has both
values (`Clash`). `Resolve`, `FindEntity` and `FindByAlias` are sets as well, since their queries order no rows.
`Traverse` is the breadth-first search of graph.rs, round by round.

**Workspace** is the files beside the storage. `fs::write` is two steps, `BeginBackup` and `WriteBackup` (or
`BeginSave` and `FinishSave`), with `BreakBackup` and `BreakSave` for a failure or an exit in between. The clean-up
reads the directory entry by entry in any order (`ReadEntry`), sorts what it saw and removes the rest (`RemoveNext`),
while backups are written and rewritten; modification times are those it saw.

**ContextCompiler, SecretPolicy, Notes, Import, Access, FrontEnds** have no state and are functions, most of them beside a
reference definition that says what a caller expects of it without following the code: `FirstFit` is a set of places
described by what it leaves out, `Replaced` says where each character goes, `Starts` and `SectionAt` give the sections
by their headings, `TextsIn` the texts of the files a format reads, `OwnAnswer` what a limiter of one's own would say.
A text is a hash and a length, a match a span of places, a file a shape and the texts in it; in Notes and Import it is
known of a text whether byte 200 is inside one of its characters, where the summary that the parsers cut panics
(`CutsAText`, `Panics`): the panic is no error of that file, it ends the whole import. The regular expressions and the
JSON library are taken as they are, and so is the bucket of the governor crate (`Admits`, `Charge`). `FrontEnds` gives
for each front end the order of the steps that may fail, the calls that were made, and what is said afterwards. The
route `status` counts memories and vectors and turns a failing count into 0 (`Status`); the routes of streams, tags,
reflect and health and all MCP tools answer with constants (`FixedAnswer`, `ToolText`).

## 3. Runs

| run | question | result |
| --- | --- | --- |
| queue | scene of the writer task: two callers, one slot, one failing statement, one crash: acknowledged retains are stored with all tags (`AckedIsStored`), no call runs twice (`OneRowPerCall`), refinement of SerialStore, every call is answered, cancelled operations still run; scene of the audit tasks: three of them, a fault, an exit: a break of the chain comes from overlapping tasks or from a failed read of the last hash (`BreakHasCause`), answered operations other than forget get logged while nothing fails and no fact extraction panics (`AnsweredGetsLogged`) | holds |
| facts_safety | two memories of up to two facts on one key, a fault, an exit, forget: contradicting current facts are always on the way of a task (`ContradictionsAreHandled`), a fact that was not forgotten ends only for a contradicting one of a later line of its text or of a task that was not over when its own began (`EndedHasRival`), intervals run forward, the later line of a text wins | holds |
| facts_forgotten | is a forgotten memory free of current facts once its task is done (docs/security.md:371)? | no: the task inserts facts after the forget |
| facts_current | is the newest fact of a key the current one once its tasks are done (facts/conflict.rs:58, README.md:76-78)? | no: two tasks that both insert before either looks end the fact of each other |
| audit_intact | does the log of a process in which nothing failed verify (audit/README.md:5, docs/security.md:335)? | no: two tasks that overlap read the same last hash |
| verbatim_safety | four calls on two contents, an error, an exit: acknowledged content keeps a file, files get filled, a later read never misses one | holds |
| verbatim_retry | is an acknowledged text whole (README.md:64)? | no: after a failed write the next store takes the partial file for the text |
| engine | three calls on two texts with an error of each kind and an exit: every row has its text, in a file that is whole or being filled unless a store of the same text failed or was cut off (`RowHasText`), vectors follow rows, an expand that fails overlaps a retain; scene of a recall: three memories in two streams, the store changing meanwhile: hits are in scope, the order all searches agree on is kept | holds |
| library | a scene each for: two processes and three openings of the database, with a fault and an exit (an open database is ready, only faults fail an opening, opening repairs the index); streams, tags, names, relationships, backups, the checkpoint, with a fault each; the functions over all inputs of the bounds (properties below) | holds |
| migrations_rerun | is running the migrations again a no-op (migration/runner.rs:137)? | no: version 2 indexes every row again |
| recall_old | does a growing corpus keep what the searches find (docs/benchmarks.md:250)? | no: rows older than the newest 100 are no candidates |
| lifecycle | two calls on two memories, one in a stream with up to two holds, a failing statement or an exit: a stream under hold is frozen for calls that began under it (`HeldIsFrozen`), a purge that said Ok is complete for good, it is refused only for what was added beside it, events count what was archived | holds |

`VectorsFollowRows` of the engine run also says where a vector can get lost without any error: two first retains both
find no LanceDB table, one creates it, the other's `create_table` fails and is only logged. `BreakHasCause` names the
two ways in which the chain of the audit log can break without anybody touching it: two tasks overlap and read the
same last hash, or the read of the last hash failed and the row starts anew at the genesis hash. `audit_intact` shows
the first alone, with nothing failing; verify_chain reports either as tampering. `EndedHasRival` says as much as the
code keeps of "older facts": the rival is of a later line or of a task beside the own. `facts_current` shows what is
left between such tasks: a key may end without a current fact, and by the same line of conflict.rs a task that
extracted its facts first and runs last ends the newer fact of another memory. `RowHasText` gives up exactly where
`verbatim_retry` shows a torn file. `HeldIsFrozen` speaks of calls that began under a hold, because check and change
are separate statements: a purge that began before the hold may still finish under it.

The `library` run asks, beside the three questions about the database:

- `OkStreamsAreWhole`: an acknowledged creation of a stream has all its tags, so a stream with fewer is one whose
  creation failed, is under way or was cut off.
- `RenamesKeepTags`: no rename, refused or done, merges two tags of a memory.
- `MentionsKeepMeaning`: a mention is resolved differently only after its alias was removed or after an entity of that
  name was created, which hides the alias.
- `TraverseFindsNear`: the traversal finds the memories of the relationships that touch an entity fewer than `hops`
  relationships away, and only those, in graphs with circles and loops.
- `BackupsSurvive`: a clean-up that keeps n never removes a file while fewer than n others at least as new are there, and
  without a failure these are whole. With one, a torn backup counts among the kept.
- `TornIsReported`: a save that was cut off is an error at the next load, never "nothing saved" and never an older count.
- `CompileIsFirstFit`, `SecretsAreReplaced`, `NoteSectionsAreWhole`, `ClientsAreSeparate`: the functions against their
  reference definitions. Where matches of two patterns overlap, `SecretsAreReplaced` claims only what is left: the
  text in front of all matches; the code then replaces by offsets that no longer fit, or panics.
- `ImportKeepsTexts`: an import that ends with Ok brings in every text of every file its format reads once, in order.
  A file of a Claude Code or Copilot directory that cannot be parsed is passed over, among notes it ends the import;
  in all three a text whose summary would be cut inside a character loses the whole import. Of an import that is read,
  the memories stored are the first ones, and "imported" means all of them. `TableKeepsContents` says the same of the
  content column of a table.
- `AnswersMatchRequests`: each line of MCP that asks for an answer gets one, in the order of the lines and with its
  id, as far as the output can be written.
- `FrontEndsAgree`: HTTP and the command line judge the same operation of the same engine alike, but for `status`, where
  HTTP turns a failing count into 0; a command that reads tables has migrated the database first. The run takes every
  command with every set of steps that may fail, so nothing is left for a proof.

### Bounds

Every bound is a constant whose name starts with Max, or the size of a constant set, and no action but the one it bounds
looks at it.

- Calls and tasks: every race here is between two parties. Two callers, two fact tasks and two processes meet in every
  order; the audit log has three, so that two tasks overlap behind a row of a third; the verbatim store has four,
  because a store, an archive, a read and a repeated store of one content take part in its hardest case. The engine,
  which contains that store, has three.
- Faults and exits: one of each exercises every error path at every point.
- Channel depth 1 makes every second sender wait. TopK and SnapshotLimit are 2 for three memories, so that both cuts
  are taken; the code has 100 for the latter. `MaxReruns` 1 gives index duplicates, which the
  gate of the Cloud tier does not look at and which `UnanimousOrder` says nothing about; they come without that tier
  and without a change behind the recall (`OneTrouble`). `MaxLate` 1 gives one change during a recall.
- Lifecycle: `MaxFaults` bounds failing statements and exits together; two holds, so that one can end under the other.
- Facts: one key is enough, since facts of different keys never meet; two facts per text give the order within a text.
- Library: the scenes share no state, so nothing is lost by not interleaving them. Two streams of up to two tags with
  repetition; two memories and two tags, the least that makes a rename clash in one memory and not in the other; three
  entities, up to four relationships and three hops, which contain a circle, a loop and a detour; three backup files
  and four modification times, so that more are there than are kept and two have the same time; one fault in each
  scene. Inputs: budgets 0 to 9 with texts of 3, 8 and 19 bytes (one, two and four tokens); texts of four characters
  with up to two matches of each of two patterns, one marker longer and one shorter than most matches; notes of up to
  four lines; tables of up to three columns and two rows; directories of two files of every kind, each text with or
  without a character at byte 200; retains that all succeed, fail or panic at the second, or meet no engine; two
  entries of a token table; three requests of two clients in two categories over three instants; three lines of MCP
  with an output that breaks at any of them; all commands with all sets of failing steps. The scenes of queue and
  engine are bounded by constants of their own.
- Symmetry is used on sets of interchangeable values and never in a run with a liveness property. The run `engine` has
  no SYMMETRY; instead its interchangeable calls, texts and memories come in one fixed order (`InOrder`).
- `CHECK_DEADLOCK FALSE`: all calls of an instance end, and then the system stops.

### Fairness

`WriteQueue!Fairness`: weak fairness of the writer task, which the runtime polls while it has work, and strong
fairness of `Send`, since the semaphore of tokio's channel is first-come, first-served. No fairness of `Invoke`,
`Cancel`, `Crash` or `BackgroundFact`. A busy statement ends after the busy timeout, as a failure.
`AuditChain!AuditFairness`: weak fairness of the blocking pool as a whole; the tasks are short, so each comes to its
end. `MCWriteQueue!WritesSpec` assumes both, each of which has something to say in its own scene only. All other runs
check safety, without fairness.

## 4. Proofs

The theorems hold for every value of the constants under the named assumption of each module (bounds are naturals,
`None` is not an element of the sets it marks the absence of, the channel has a place, `Scale` is large enough for the
ranks, ...). None of the bounds helps a proof: no invariant depends on them.

- **WriteQueueProofs** (`AckedRetainIsStored`, `CallsExecuteOnce`, `QueueIsSerial`). The invariant adds that a call is
  in the channel once and not with the writer (`ChannelInv`, `WriterInv`), that an unsent call has made nothing
  (`CallInv`), and that the tags of the retain in progress are written or still to write (`ProgressInv`). Without
  these an answer could come from a state in which the tags are missing. For the refinement `TagsInv` adds that the
  tags of the retain in progress are only those asked for, so that hiding it hides a whole call: the statement that
  decides its outcome is one step of SerialStore's `Apply`, and every other step is an answer, a caller that leaves, a
  crash or a stutter.
- **FactTimelineProofs** (`ContradictionsHandled`, `OneObjectPerKey`, `EndedFactsHaveRivals`, `IntervalsForward`,
  `LastWordWins`). `OneObjectPerKey` says that once all tasks are done no key has two current objects; it may have
  none. A task inserts before it looks, so of two contradicting facts the one inserted last is still to look
  (`Handles`); the invariant adds what a task has found (`FoundInv`), what it has stored (`StoredInv`, `WorkInv`) and
  that its clock readings do not exceed the current time (`TimeInv`). Within one text the later line is inserted last,
  so it is the one that looks, and what it finds is ended before its task goes on (`LineInv`). For
  `EndedFactsHaveRivals` it adds that a task that was over when another began stays over (`PastInv`), so what it ended
  it had ended before.
- **AuditChainProofs** (`BreaksHaveCauses`, `OperationsLoggedOnce`). The history variable `read` names
  the row whose hash a task holds; rows never change, so it stays true as the log grows. A row that is chained to
  another than its predecessor was written by a task that is in `blind`, or beside one that inserted after it had read.
- **VerbatimStoreProofs** (`AckedIsKept`, `NeverMissing`, `FilesAreFilled`). Only a delete takes the last file of a
  content; files move from the active directory to the archive and never back, and a read looks in that order. The
  invariant needs what a call knows at each of its looks (`WriterIsPresent`, `SecondLookFinds`).
- **EngineProofs** (`RowsHaveTexts`, `VectorsComeAfterRows`, `ExpandsFindTexts`). Each step of the engine is a step of
  VerbatimStore or leaves its files alone (lemma `EngineDrivesVerbatim`), so the invariants of VerbatimStore are used
  as they are; the rest is an induction over the engine's own state. For `RowsHaveTexts` it adds that a file in the
  active directory is whole, being filled, or of a text of which a store failed or was cut off (`TextInv`). For
  `ExpandsFindTexts` it adds that the engine archives and deletes nothing, so a file that was there stays in the
  active directory, and that who writes has the file of its own text open (`ReadsFind`).
- **LibraryProofs**, of the modules that share no state. Migrations (`OpenedIsReady`, `OpeningsRecover`,
  `OpeningsRepairIndex`, `LogIsTrue`): the database only grows, so what a process has established with the statements it
  ran (`ProgressOf`) stays true while others run theirs. Registry (`CreatedStreamsAreWhole`, `RenamingKeepsTags`,
  `MeaningsAreKept`, `TraversalIsExact`): the tags a stream has and those still to insert are together those asked for
  (`StreamInv`), a rename that is not refused is a bijection on the tags of each memory, and what a traversal has
  visited after a round is all that is near enough, for any graph and any number of rounds. Workspace
  (`CheckpointIsHonest`, `BackupsOutliveCleanups`): the checkpoint, if it can be read, holds the count of the save begun
  last, and it is absent only if none was begun since the last clear (`CheckpointInv`). Of the backups a clean-up has
  listed, those at the first places of its order are as new as the file it removes, and they are still there: a listed
  file is removed only by its own turn, and a file rewritten meanwhile only gets newer (`FilesInv`, `ListingInv`).
- **LibraryProofs**, of functions. `CallersAreAnswered`, `ClientsDoNotDisturb`, `CompilingIsFirstFit` and
  `NotesAreSplit` state the properties of the MCP loop, Access, ContextCompiler and the notes for inputs of any length
  over any ids, clients, hashes and texts (`McpCalls`, `AccessCalls`, `CompileCalls`, `NoteCalls`), where the run
  enumerates a few. What a line, a request or an offer adds is followed along the run of the recursive function and
  compared with the reference after the same number of steps. `RedactionIsExact` is about any text, matches and
  lengths of markers (`SecretCalls`). Sorted by descending start, disjoint matches cut the text at `CutPlaces`: what
  is in front of the cut is untouched, what is behind it is already what `Replaced` shows (`RedactReplaces`); for any
  matches the text in front of all of them survives each replacement (`RedactKeepsFront`). `ImportsKeepTexts` and
  `TablesKeepContents` are about directories, files and tables of any size, with texts that panic at any place
  (`ImportCalls`, `TableCalls`): the first file that ends the import decides its outcome (`LeastIs`, `FileResults`),
  and without one each file gives memories whose texts are those of the reference (`Reads`), and flattening the
  memories of all files gives the texts file by file (`FlattenTwice`, `FilesRead`); sorting the messages of ChatGPT by
  node is a bijection of their places (`SortingKeepsTexts`); of a table, the last header named for the content is
  followed along the headers (`NamedIs`). Its hypotheses are those of the files: the nodes of an export are distinct
  and each message has one (`Files`).
- **RecallProofs** (`RecallStaysInScope`, `ResponseKeepsOrder`). The snapshot is the only source of candidates: what
  is in it is in scope when it is taken and stays so, since `hidden` is what was archived before. Nothing is assumed
  of the four searches. For the order: where all searches rank one memory above another, its sum of scores is larger
  term by term, and the sort and the cut keep it in front.
- **LifecycleProofs** (`HoldFreezes`, `PurgeIsComplete`, `RefusalNeedsWriter`, `EventsAreTrue`). A call that has seen no
  instant without a hold since it began is under one now (`HeldSinceBegin`), so its check stops it; what got past a
  check is in `free` or has lost its row (`PassedWasFree`). What a purge finds in the way of its last DELETE came after
  its DELETE of the same table (`LeftIsNew`). Ids are fresh, so a deleted row stays deleted.

The types of every component with a proofs module, Recall excepted, are proved (`WriteQueueTypes`, `TimelineTypes`,
`AuditTypes`, `VerbatimTypes`, `EngineTypes`, `MigrationsTypes`, `LifecycleTypes`) and not checked again by a run; the
same goes for `LoggedOnce` and `LogTellsOutcome`.

The provers cannot instantiate the library's induction rules, which take an operator. Two lemmas take their place, both
stated of sets and functions: `LeastNatural` (from `WFMin`) gives a least counterexample, from which `StepsReach` follows
(a set that holds 0 and goes from each number to the next holds all up to n); and `RunExists` shows that a function
defined by recursion on 0 .. n exists, which the definition with CHOOSE leaves open. Recursion in the modules is therefore
written as functions on an interval.

Only model-checked: liveness (`EveryCallIsAnswered`, `CancelledStillRuns`, `AnsweredGetsLogged`) and ENABLED, which the
prover does not support. Sorting and filters of sequences are written in the modules as ranks and as flattened parts of
at most one element, which the prover unfolds, and not with the operators of SequencesExt, which it does not.

## 5. Findings

Six statements of the documentation, comments or tests are contradicted by the code, in the six runs above that end in
a violation. Each is quoted in `PROJECT.json` with the line that causes it.

### Observations

Met while modelling, contradicted by no statement of the documentation, or out of a run's reach:

- The summary is cut at byte 200 in retain (engine/mod.rs:196) and in the parsers (import/markdown.rs:34,
  claude_code.rs:60, copilot.rs:46 and 66, clear_format.rs:58), which panics if that is inside a character. One such
  file loses all that the import of its directory had read, although Claude Code and Copilot pass over files they
  cannot parse (`ImportKeepsTexts`). In a note only the first line of a section that is not blank can do it
  (`NoteSectionsAreWhole`).
- `extract_facts` panics on a line that is shorter or longer in lower case and is then sliced at another offset
  (extractor.rs:46, 47 and 80). The caller has its answer by then; the memory has no facts and no audit row.
- Forget has no audit row (engine/mod.rs:559), nor has a retain whose facts panic, against the "Every operation logged"
  of README.md:335 and audit/README.md:5. `AnsweredGetsLogged` excepts the two.
- The MCP tools have no engine: clearmemory_retain answers "Memory stored" (server/mcp.rs:240) for README.md:153 "Store a
  memory with optional tags", and nothing is stored. POST /v1/streams and POST /v1/tags answer 200 and change nothing
  (server/http.rs:224-237, README.md:178-179); the commands purge, hold, archive and reindex print a line and exit with 0
  (main.rs:753-808).
- A failed read of the last hash is taken for an empty log (audit/logger.rs:128-134), which nothing reports.
- The route `status` reads a failing count as 0 and says healthy all the same (server/http.rs:65-89); `expand` answers
  404 for any error.
- MCP messages without an id, which JSON-RPC calls notifications, are answered with a parse error.
- Of the HTTP routes, reflect answers with a constant as well; of the commands, auth and audit print what they would
  do, and `validate` exits with 0 whatever it found.
- Format detection sends `.csv` to the Clear Format parser, which expects JSON, and a directory of Claude exports to the
  Markdown parser, which finds nothing and reports success. Messages of a ChatGPT export come in the order of their
  node ids, not of the conversation.
- A relationship that is added again loses its earlier memory (`AddLink`), and nothing ever ends one.
- `purge_rph` is meant per hour and used per minute (`RpmForCategory`).
- The layers L0 and L1, called always loaded, are left out if they do not fit, and `l1_tokens` is reported all the same.
- `create_backup` on a path that a clean-up removes meanwhile answers with success and leaves no file. Clean-up, reindex,
  rate limiter and token validator have no caller in the crate yet.

## 6. Not modelled

- encryption.rs, tls.rs, embeddings.rs: cryptography and a neural model; their results are values here.
- metrics.rs, health.rs, tracing_setup.rs: relaxed counters read one by one; nothing decides by them.
- insider_detection.rs, reporting.rs: they append rows or count them; no caller.
- config.rs: parsing and defaults. reflect/, curator/, repair/: placeholders and one PRAGMA.
- restore_backup (one copy), should_run_backup (one comparison), calculate_progress (no loop uses it), the generation of
  tokens, excel conversion (not implemented in the code).
- Read-only listings (`list_streams`, `query_entries`, `tags list`, ...).

## 7. Plan

Done, in this order because each rests on the one before: SerialStore and WriteQueue, FactTimeline, AuditChain,
VerbatimStore, Engine, Migrations, Recall, Lifecycle; then Registry, Workspace and the functions, which rest on none.

The proofs of their safety properties came last: the refinement of SerialStore, `ExpandFindsText`, `LaterLineWins`, those
of Registry and Workspace, the order of recall, the functions of FrontEnds, Access and ContextCompiler, the
sections of notes, redaction and imports. Every safety property of a passing run is now proved, but for `FrontEndsAgree`,
which the run decides; liveness is out of the prover's reach.
