-------------------------------- MODULE Access --------------------------------
(***************************************************************************)
(* Who may do what, and how often (security/auth.rs, rate_limiter.rs): the *)
(* table of tokens, the scopes, and one limiter per client and category.   *)
(* A token is known by its hash; times are naturals.  No route of the      *)
(* servers asks them yet.                                                  *)
(***************************************************************************)
EXTENDS Integers, Sequences, SequencesExt

Scopes == {"read", "read-write", "admin", "purge"}

\* Scope::parse, with the default of from_config.
ParseScope(name) == IF name \in Scopes THEN name ELSE "read"

\* Admin includes reading and writing; purge stands alone.
Satisfies(scope, required) ==
    CASE required = "read" -> scope \in {"read", "read-write", "admin"}
      [] required = "read-write" -> scope \in {"read-write", "admin"}
      [] required = "admin" -> scope = "admin"
      [] required = "purge" -> scope = "purge"

Never == -1    \* the expiry of an entry whose date does not parse

\* from_config: a table by hash, where a later entry replaces an earlier one.
TokenTable(entries) ==
    [hash \in {entries[i].hash : i \in DOMAIN entries} |->
        LET last == SelectLastInSeq(entries, LAMBDA e : e.hash = hash)
        IN  [id |-> entries[last].id, scope |-> ParseScope(entries[last].scope), expires |-> entries[last].expires]]

\* An empty table admits everyone as a developer.
Validate(table, hash, now) ==
    CASE DOMAIN table = {} -> [ok |-> TRUE, id |-> "dev", scope |-> "admin"]
      [] DOMAIN table # {} /\ hash \notin DOMAIN table -> [ok |-> FALSE, why |-> "invalid"]
      [] hash \in DOMAIN table ->
           IF table[hash].expires # Never /\ now > table[hash].expires THEN [ok |-> FALSE, why |-> "expired"]
           ELSE [ok |-> TRUE, id |-> table[hash].id, scope |-> table[hash].scope]

\* validate, then check_scope.
Admit(entries, hash, required, now) ==
    LET v == Validate(TokenTable(entries), hash, now) IN v.ok /\ Satisfies(v.scope, required)

------------------------------------------------------------------------------
Categories == {"read", "write", "reflect", "auth", "purge"}

\* The requests per minute of a category.  The one of purge is meant per hour but used like the others.
RpmForCategory(config, category) ==
    CASE category = "read" -> config.read_rpm
      [] category = "write" -> config.write_rpm
      [] category = "reflect" -> config.reflect_rpm
      [] category = "auth" -> config.auth_rpm
      [] category = "purge" -> config.purge_rph

\* A limiter of the governor crate as check uses it: a burst of `rpm` requests and from then on one per
\* interval.  Time runs in intervals; `tat` is the time at which the whole burst is available again.
NewLimiter(now) == now
Admits(tat, rpm, now) == Max({tat, now}) + 1 - now <= rpm
Charge(tat, now) == Max({tat, now}) + 1

\* Mutant of LimiterKey: one limiter per client.
LimiterKeyOfClient(request) == <<request.client, "any">>

LimiterKey(request) == <<request.client, request.category>>

\* RateLimiter::check for one request; `acc` holds the limiters and the answers so far.
CheckRate(config, acc, request) ==
    LET rpm == RpmForCategory(config, request.category)
        key == LimiterKey(request)
        tat == IF key \in DOMAIN acc.limiters THEN acc.limiters[key] ELSE NewLimiter(request.at)
        admitted == Admits(tat, rpm, request.at)
    IN  IF ~ config.enabled \/ rpm = 0 THEN [acc EXCEPT !.answers = Append(@, TRUE)]
        ELSE [limiters |-> [k \in DOMAIN acc.limiters \cup {key} |->
                               IF k # key THEN acc.limiters[k]
                               ELSE IF admitted THEN Charge(tat, request.at) ELSE tat],
              answers |-> Append(acc.answers, admitted)]

Answers(config, requests) ==
    LET acc[i \in 0 .. Len(requests)] ==
          IF i = 0 THEN [limiters |-> <<>>, answers |-> <<>>] ELSE CheckRate(config, acc[i - 1], requests[i])
    IN  acc[Len(requests)].answers

------------------------------------------------------------------------------
(* The reference.                                                          *)

\* The places of the requests of one client in one category, up to the i-th.
OwnPlaces(requests, i) ==
    {k \in 1 .. i : requests[k].client = requests[i].client /\ requests[k].category = requests[i].category}

\* The place of the n-th of them.
NthPlace(places, n) == CHOOSE k \in places : Cardinality({j \in places : j <= k}) = n

\* What a limiter of its own would have answered to the last of them.
OwnAnswer(config, requests, i) ==
    LET places == OwnPlaces(requests, i)
    IN  Last(Answers(config, [n \in 1 .. Cardinality(places) |-> requests[NthPlace(places, n)]]))
==============================================================================
