------------------------------- MODULE Registry -------------------------------
(***************************************************************************)
(* The tables a user fills by hand (streams/, tags/, entities/): streams   *)
(* with their tags and writers, the tags of memories, and the graph of     *)
(* entities with their aliases.  Every function runs its statements on the *)
(* connection it is given; each statement commits by itself.  A creation   *)
(* of a stream takes several, so others run in between.                    *)
(***************************************************************************)
EXTENDS Integers, Sequences, SequencesExt

CONSTANTS
    Name,         \* names of streams
    User, Tag,    \* tags are values of one type
    Memory,
    Word,         \* names, aliases and mentions of entities
    Lower,        \* Lower[w]: the word in lower case
    Relation,     \* kinds of relationships
    Nobody,
    MaxStreams, MaxEntities, MaxLinks, MaxMishaps, MaxHops

ASSUME RegistryAssumption ==
    /\ Lower \in [Word -> Word]
    /\ Nobody \notin Memory \cup {"ok", "error"}
    /\ MaxStreams \in Nat /\ MaxEntities \in Nat /\ MaxLinks \in Nat /\ MaxMishaps \in Nat /\ MaxHops \in Nat

VARIABLES
    streams,      \* the rows of streams, in their order; the id of a stream is its place
    streamTags,   \* pairs of a stream and a tag
    writers,      \* pairs of a stream and a user
    memoryTags,   \* pairs of a memory and a tag
    entities,     \* the canonical names; the id of an entity is its place
    aliases,      \* pairs of a word and an entity
    links,        \* the relationships: from their primary key to their memory
    creating,     \* the creation under way: its stream and the tags to insert
    asked,        \* what was asked for, and what was answered, for each stream
    mishaps

streamVars == <<streams, streamTags, writers, creating, asked>>
graphVars == <<entities, aliases, links>>
registryVars == <<streams, streamTags, writers, memoryTags, entities, aliases, links, creating, asked, mishaps>>

RegistryInit ==
    /\ streams = <<>> /\ streamTags = {} /\ writers = {} /\ memoryTags = {}
    /\ entities = <<>> /\ aliases = {} /\ links = <<>>
    /\ creating = Nobody /\ asked = <<>> /\ mishaps = 0

------------------------------------------------------------------------------
(* Streams.                                                                *)

\* create_stream: the row first.  Names need not differ.
CreateStream(name, owner, visibility, tags) ==
    /\ creating = Nobody /\ Len(streams) < MaxStreams
    /\ streams' = Append(streams, [name |-> name, owner |-> owner, visibility |-> visibility])
    /\ asked' = Append(asked, [tags |-> ToSet(tags), answer |-> Nobody])
    /\ creating' = [stream |-> Len(streams) + 1, left |-> tags]
    /\ UNCHANGED <<streamTags, writers, memoryTags, mishaps>> /\ UNCHANGED graphVars

Answer(answer) ==
    /\ creating' = Nobody
    /\ asked' = [asked EXCEPT ![creating.stream].answer = answer]

\* Mutant of InsertStreamTag: a tag that is refused is passed over.
InsertStreamTagOrSkip ==
    /\ creating # Nobody /\ creating.left # <<>>
    /\ creating' = [creating EXCEPT !.left = Tail(@)]
    /\ \/ streamTags' = streamTags \cup {<<creating.stream, Head(creating.left)>>} /\ UNCHANGED mishaps
       \/ mishaps < MaxMishaps /\ mishaps' = mishaps + 1 /\ UNCHANGED streamTags
    /\ UNCHANGED <<streams, writers, memoryTags, asked>> /\ UNCHANGED graphVars

\* One tag after the other; the primary key refuses a tag that is there already.
InsertStreamTag ==
    /\ creating # Nobody /\ creating.left # <<>>
    /\ LET row == <<creating.stream, Head(creating.left)>>
       IN  \/ /\ row \notin streamTags
              /\ streamTags' = streamTags \cup {row}
              /\ creating' = [creating EXCEPT !.left = Tail(@)]
              /\ UNCHANGED <<asked, mishaps>>
           \/ /\ row \in streamTags
              /\ Answer("error")
              /\ UNCHANGED <<streamTags, mishaps>>
           \/ /\ mishaps < MaxMishaps
              /\ mishaps' = mishaps + 1
              /\ Answer("error")
              /\ UNCHANGED streamTags
    /\ UNCHANGED <<streams, writers, memoryTags>> /\ UNCHANGED graphVars

FinishStream ==
    /\ creating # Nobody /\ creating.left = <<>>
    /\ Answer("ok")
    /\ UNCHANGED <<streams, streamTags, writers, memoryTags, mishaps>> /\ UNCHANGED graphVars

\* The process ends between two statements.
ExitWhileCreating ==
    /\ creating # Nobody /\ mishaps < MaxMishaps
    /\ mishaps' = mishaps + 1
    /\ creating' = Nobody
    /\ UNCHANGED <<streams, streamTags, writers, memoryTags, asked>> /\ UNCHANGED graphVars

\* The foreign key wants a stream that is there.
GrantWriteAccess(stream, user) ==
    /\ stream \in DOMAIN streams
    /\ writers' = writers \cup {<<stream, user>>}
    /\ UNCHANGED <<streams, streamTags, memoryTags, creating, asked, mishaps>> /\ UNCHANGED graphVars

\* The rows get_stream may answer with when it is asked for a name.
GetStream(name) == {s \in DOMAIN streams : streams[s].name = name}
GetStreamTags(stream) == {t \in Tag : <<stream, t>> \in streamTags}

------------------------------------------------------------------------------
(* Tags of memories.                                                       *)

TagsOfMemory(m) == {t \in Tag : <<m, t>> \in memoryTags}

AddMemoryTag(m, t) ==
    /\ memoryTags' = memoryTags \cup {<<m, t>>}
    /\ UNCHANGED mishaps /\ UNCHANGED streamVars /\ UNCHANGED graphVars

RemoveMemoryTag(m, t) ==
    /\ memoryTags' = memoryTags \ {<<m, t>>}
    /\ UNCHANGED mishaps /\ UNCHANGED streamVars /\ UNCHANGED graphVars

\* Mutant of Clash: the primary key is not minded, as UPDATE OR REPLACE would.
NoClash(old, new) == FALSE

\* The primary key refuses the whole UPDATE if a memory has both tags.
Clash(old, new) == old # new /\ \E m \in Memory : {<<m, old>>, <<m, new>>} \subseteq memoryTags

\* rename_tag, one UPDATE.  Renaming does not touch the tags of streams.
RenameTag(old, new) ==
    /\ ~ Clash(old, new)
    /\ memoryTags' = {IF row[2] = old THEN <<row[1], new>> ELSE row : row \in memoryTags}
    /\ UNCHANGED mishaps /\ UNCHANGED streamVars /\ UNCHANGED graphVars

------------------------------------------------------------------------------
(* The graph of entities.                                                  *)

\* create_entity: nobody looks whether the name is taken.
CreateEntity(word) ==
    /\ Len(entities) < MaxEntities
    /\ entities' = Append(entities, word)
    /\ UNCHANGED <<aliases, links, memoryTags, mishaps>> /\ UNCHANGED streamVars

AddAlias(word, entity) ==
    /\ entity \in DOMAIN entities
    /\ aliases' = aliases \cup {<<word, entity>>}
    /\ UNCHANGED <<entities, links, memoryTags, mishaps>> /\ UNCHANGED streamVars

RemoveAlias(word, entity) ==
    /\ aliases' = aliases \ {<<word, entity>>}
    /\ UNCHANGED <<entities, links, memoryTags, mishaps>> /\ UNCHANGED streamVars

\* add_relationship: INSERT OR REPLACE, so the memory of an equal relationship is replaced.
AddLink(source, target, relation, memory) ==
    /\ {source, target} \subseteq DOMAIN entities
    /\ <<source, target, relation>> \in DOMAIN links \/ Cardinality(DOMAIN links) < MaxLinks
    /\ links' = [k \in DOMAIN links \cup {<<source, target, relation>>} |->
                   IF k = <<source, target, relation>> THEN memory ELSE links[k]]
    /\ UNCHANGED <<entities, aliases, memoryTags, mishaps>> /\ UNCHANGED streamVars

\* The entities find_entity and find_by_alias may answer with; neither query orders its rows.
FindEntity(mention) == {e \in DOMAIN entities : Lower[entities[e]] = Lower[mention]}
FindByAlias(mention) == {a[2] : a \in {b \in aliases : Lower[b[1]] = Lower[mention]}}

\* Mutant of Resolve: the aliases are asked first.
ResolveAliasFirst(mention) ==
    IF FindByAlias(mention) # {} THEN FindByAlias(mention) ELSE FindEntity(mention)

\* HeuristicResolver::resolve
Resolve(mention) == IF FindEntity(mention) # {} THEN FindEntity(mention) ELSE FindByAlias(mention)

Outgoing(e) == {k \in DOMAIN links : k[1] = e}
Incoming(e) == {k \in DOMAIN links : k[2] = e}

\* Mutant of Hop: relationships are followed from their source only.
HopForward(acc) ==
    LET new == acc.frontier \ acc.visited
        edges == UNION {Outgoing(e) : e \in new}
    IN  [visited |-> acc.visited \cup new,
         frontier |-> {k[2] : k \in edges},
         found |-> acc.found \cup ({links[k] : k \in edges} \ {Nobody})]

\* One round of traverse: the relationships, in both directions, of the entities not visited before.
Hop(acc) ==
    LET new == acc.frontier \ acc.visited
        out == UNION {Outgoing(e) : e \in new}
        in == UNION {Incoming(e) : e \in new}
    IN  [visited |-> acc.visited \cup new,
         frontier |-> {k[2] : k \in out} \cup {k[1] : k \in in},
         found |-> acc.found \cup ({links[k] : k \in out \cup in} \ {Nobody})]

Traverse(entity, hops) ==
    LET Round[n \in 0 .. hops] == IF n = 0 THEN [visited |-> {}, frontier |-> {entity}, found |-> {}]
                                  ELSE Hop(Round[n - 1])
    IN  Round[hops].found

------------------------------------------------------------------------------
StreamStep ==
    \/ \E n \in Name, u \in User, v \in {"private", "team", "org"}, ts \in BoundedSeq(Tag, 2) :
          CreateStream(n, u, v, ts)
    \/ InsertStreamTag
    \/ FinishStream
    \/ ExitWhileCreating
    \/ \E s \in DOMAIN streams, u \in User : GrantWriteAccess(s, u)

TagStep ==
    \/ \E m \in Memory, t \in Tag : AddMemoryTag(m, t) \/ RemoveMemoryTag(m, t)
    \/ \E old, new \in Tag : RenameTag(old, new)

NameStep ==
    \/ \E w \in Word : CreateEntity(w)
    \/ \E w \in Word, e \in DOMAIN entities : AddAlias(w, e) \/ RemoveAlias(w, e)

LinkStep == \E e, f \in DOMAIN entities, r \in Relation, m \in Memory \cup {Nobody} : AddLink(e, f, r, m)

RegistryNext == StreamStep \/ TagStep \/ NameStep \/ LinkStep
RegistrySpec == RegistryInit /\ [][RegistryNext]_registryVars

------------------------------------------------------------------------------
(* Properties.                                                             *)

\* A stream whose creation was answered with success has all the tags that were asked for and no other
\* (streams/manager.rs, create_stream).  So if get_stream finds a stream of a name with fewer tags, its
\* creation failed, is under way, or was cut off, though its row was committed first and stays.
OkStreamsAreWhole ==
    \A n \in Name : \A s \in GetStream(n) :
        /\ GetStreamTags(s) \subseteq asked[s].tags
        /\ GetStreamTags(s) # asked[s].tags => asked[s].answer # "ok"

\* A statement that changes the tags of several memories, which only rename_tag does, leaves each with as
\* many tags as it had: two tags of a memory never become one (tags/taxonomy.rs, rename_tag).
RenamesKeepTags ==
    [][LET changed == {m \in Memory : TagsOfMemory(m)' # TagsOfMemory(m)}
       IN  Cardinality(changed) > 1 =>
             \A m \in changed : Cardinality(TagsOfMemory(m)') = Cardinality(TagsOfMemory(m))]_registryVars

\* The entities that a walk of at most n relationships leads to, in either direction.
Near(entity, n) ==
    {f \in DOMAIN entities :
        \E walk \in BoundedSeq(DOMAIN entities, n + 1) :
           /\ walk # <<>> /\ Head(walk) = entity /\ Last(walk) = f
           /\ \A i \in 1 .. Len(walk) - 1 : \E k \in DOMAIN links : {k[1], k[2]} = {walk[i], walk[i + 1]}}

\* traverse returns the memories of the relationships that touch an entity fewer than `hops` relationships
\* away, all of them and no other, although it never enters an entity twice and relationships may lead in
\* circles and back to their source (entities/graph.rs, traverse).
TraverseFindsNear ==
    \A e \in DOMAIN entities, hops \in 1 .. MaxHops :
        LET near == Near(e, hops - 1)
        IN  Traverse(e, hops) = {links[k] : k \in {l \in DOMAIN links : {l[1], l[2]} \cap near # {}}} \ {Nobody}

\* A mention that may be resolved to an entity keeps that meaning unless an alias of that entity is removed
\* or, if the mention was an alias, an entity of that name is created and hides it: no alias that is added
\* takes a name away from its entity (entities/resolver.rs, aliases.rs).
MentionsKeepMeaning ==
    [][\A w \in Word : \A e \in Resolve(w) \ Resolve(w)' :
          \/ e \in FindByAlias(w) \ FindByAlias(w)'
          \/ FindEntity(w) = {} /\ FindEntity(w)' # {}]_registryVars
==============================================================================
