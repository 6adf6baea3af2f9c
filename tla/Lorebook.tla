------------------------------ MODULE Lorebook ------------------------------
(* The lorebook engine of crates/lorepia-lorebook: an immutable compiled      *)
(* catalogue with candidate indexes, and a bounded cache of selections.       *)
(* A text is a sequence of tokens; Blank is any run character of white space, *)
(* and a token of Upper is the capital of the token Lower gives it.  A regex  *)
(* is the external matcher's behaviour on one token.                          *)
EXTENDS Integers, Sequences, FiniteSets, SequencesExt, FiniteSetsExt

CONSTANTS
    Blank,             \* a white-space character
    LoreLower,         \* the tokens that have a lower case, and that case
    LoreBucket,        \* [<<seed, id>> -> 0..9999], the external hash
    LoreCatalogs,      \* the catalogues a caller offers
    LoreRequests,      \* the selection requests a caller makes
    MaxCacheEntries,   \* MAX_CACHE_ENTRIES
    MaxLoreEntries,    \* MAX_CATALOG_ENTRIES
    MaxConditions,     \* MAX_ENTRY_CONDITIONS
    MaxActiveRegex,    \* MAX_ACTIVE_REGEX_CONDITIONS
    MaxContentBytes,   \* MAX_ENTRY_CONTENT_BYTES
    MaxLoreTokens,     \* MAX_OUTPUT_TOKENS
    MaxTurns,          \* MAX_RECENT_TURNS
    MaxGeneration      \* bound on the catalogue replacements explored

\* The engine: the compiled catalogue with its generation, the cache, and the
\* last answer with the request that got it.
VARIABLE lore
loreVars == <<lore>>

Refused == [ok |-> FALSE]

-----------------------------------------------------------------------------
(* Texts.                                                                     *)

Lowered(s) == [i \in DOMAIN s |-> IF s[i] \in DOMAIN LoreLower THEN LoreLower[s[i]] ELSE s[i]]

\* White-space runs become one blank, and none is left at either end.
Collapsed(s) ==
    LET Keeps(i) == \/ s[i] # Blank
                    \/ /\ i > 1 /\ s[i - 1] # Blank
                       /\ \E j \in (i + 1)..Len(s) : s[j] # Blank
    IN  FoldLeft(LAMBDA acc, i : IF Keeps(i) THEN Append(acc, s[i]) ELSE acc,
                 <<>>, [i \in DOMAIN s |-> i])

Normalize(s, sensitive) == Collapsed(IF sensitive THEN s ELSE Lowered(s))

Occurrences(p, s) == {i \in 1..(Len(s) - Len(p) + 1) : SubSeq(s, i, i + Len(p) - 1) = p}

-----------------------------------------------------------------------------
(* Validation and compilation of a catalogue.                                 *)

Conditions(e) == e.primary \o e.secondary
HasConditions(e) == e.kind = "selective" \/ (e.kind = "probability" /\ e.primary # <<>>)
Regexes(e) == IF HasConditions(e) THEN SelectSeq(Conditions(e), LAMBDA c : c.regex) ELSE <<>>

ConditionsValid(e) ==
    /\ e.primary # <<>>
    /\ e.mode \in {"any", "all"} => e.secondary # <<>>
    /\ Len(Conditions(e)) <= MaxConditions
    /\ \A c \in ToSet(Conditions(e)) : c.text # <<>>

EntryValid(e) ==
    /\ e.bytes \in 1..MaxContentBytes
    /\ e.tokens \in 1..MaxLoreTokens
    /\ e.kind = "probability" => e.points \in 0..10000
    /\ HasConditions(e) => ConditionsValid(e)

CatalogValid(c) ==
    /\ c.revision > 0
    /\ Len(c.entries) <= MaxLoreEntries
    /\ \A e \in ToSet(c.entries) : EntryValid(e)
    /\ \A i, j \in DOMAIN c.entries : c.entries[i].id = c.entries[j].id => i = j

Enabled(c) == SelectSeq(c.entries, LAMBDA e : e.enabled)

\* Every literal of an enabled entry must survive normalisation and every
\* active regex must compile, within the bound on their number.
Compiles(c) ==
    LET active == Enabled(c) IN
    /\ CatalogValid(c)
    /\ \A e \in ToSet(active) : HasConditions(e) =>
          \A cond \in ToSet(Conditions(e)) :
              IF cond.regex THEN cond.builds
              ELSE Normalize(cond.text, cond.sensitive) # <<>>
    /\ MapThenSumSet(LAMBDA i : Len(Regexes(active[i])), DOMAIN active) <= MaxActiveRegex

\* The index of literal patterns of one case class: which entries each names.
Index(c, sensitive) ==
    LET active == Enabled(c)
        Named(e) == IF HasConditions(e)
                    THEN {Normalize(x.text, sensitive) :
                            x \in {y \in ToSet(Conditions(e)) : ~y.regex /\ y.sensitive = sensitive}}
                    ELSE {}
    IN  [p \in UNION {Named(e) : e \in ToSet(active)} |->
            {i \in DOMAIN active : p \in Named(active[i])}]

Unconditional(c) ==
    LET active == Enabled(c)
    IN  {i \in DOMAIN active : ~HasConditions(active[i]) \/ Regexes(active[i]) # <<>>}

-----------------------------------------------------------------------------
(* Selection.                                                                 *)

LoreRequestValid(r) ==
    /\ r.depth <= MaxTurns
    /\ r.maxTokens <= MaxLoreTokens
    /\ Len(r.turns) <= MaxTurns
    /\ Len(r.turns) <= r.totalTurns

Recent(r) == SubSeq(r.turns, Max({1, Len(r.turns) - r.depth + 1}), Len(r.turns))

Included(r, turn) == turn.state = "complete" \/ (turn.state = "partial" /\ r.includePartial)

\* The raw text searched: the summary if it is readable, then the included
\* turns of the tail, joined by a line break.
SearchText(r) ==
    LET Append2(acc, s) == IF acc = <<>> THEN s ELSE acc \o <<Blank>> \o s
        turns == SelectSeq(Recent(r), LAMBDA t : Included(r, t))
    IN  FoldLeft(LAMBDA acc, t : Append2(acc, t.text),
                 IF r.summary.state = "available" THEN r.summary.text ELSE <<>>, turns)

SearchInput(r) ==
    LET raw == SearchText(r)
    IN  [regex |-> raw, sensitive |-> Normalize(raw, TRUE), folded |-> Normalize(raw, FALSE)]

\* What the digest of the search slice distinguishes.
SliceDigest(r) ==
    <<IF r.summary.state = "missing" THEN <<"missing">>
      ELSE IF r.summary.state = "corrupt" THEN <<"corrupt", r.summary.revision>>
      ELSE <<"available", r.summary.revision, r.summary.text>>,
      [i \in DOMAIN Recent(r) |->
          LET t == Recent(r)[i]
          IN  <<t.revision, t.state, IF Included(r, t) THEN t.text ELSE <<>>>>]>>

SettingsDigest(r) ==
    <<r.depth, r.includePartial, r.maxTokens, r.maxBytes, r.maxEvents,
      r.maxEvaluations, r.maxScan, r.maxMatches, r.separator>>

\* Mutant: the key forgets the searched text.
KeyWithoutSlice(r) ==
    [catalog |-> lore.catalog.revision, generation |-> lore.generation,
     chat |-> r.chatRevision, branch |-> r.branchRevision, seed |-> r.seed,
     settings |-> SettingsDigest(r), slice |-> <<>>]

CacheKey(r) ==
    [catalog |-> lore.catalog.revision, generation |-> lore.generation,
     chat |-> r.chatRevision, branch |-> r.branchRevision, seed |-> r.seed,
     settings |-> SettingsDigest(r), slice |-> SliceDigest(r)]

Events(index, s) == MapThenSumSet(LAMBDA p : Cardinality(Occurrences(p, s)), DOMAIN index)
Hits(index, s) == {p \in DOMAIN index : Occurrences(p, s) # {}}

RegexMatches(c, s) == {i \in DOMAIN s : (IF c.ci THEN Lowered(s)[i] ELSE s[i]) = c.text[1]}

Holds(c, s) ==
    IF c.regex THEN RegexMatches(c, s.regex) # {}
    ELSE Occurrences(Normalize(c.text, c.sensitive), IF c.sensitive THEN s.sensitive ELSE s.folded) # {}

\* The conditions evaluated before a list is decided: up to the first that
\* holds (any) or the first that fails (all).
Evaluated(conds, s, stopOn) ==
    LET stops == {i \in DOMAIN conds : Holds(conds[i], s) = stopOn}
    IN  IF stops = {} THEN conds ELSE SubSeq(conds, 1, Min(stops))

AnyHolds(conds, s) == \E c \in ToSet(conds) : Holds(c, s)

ConditionsHold(e, s) ==
    /\ AnyHolds(e.primary, s)
    /\ CASE e.mode = "none" -> TRUE
         [] e.mode = "any"  -> AnyHolds(e.secondary, s)
         [] e.mode = "all"  -> \A c \in ToSet(e.secondary) : Holds(c, s)

ConditionsRun(e, s) ==
    Evaluated(e.primary, s, TRUE) \o
        (IF e.mode # "none" /\ AnyHolds(e.primary, s)
         THEN Evaluated(e.secondary, s, e.mode = "any") ELSE <<>>)

ProbabilityAdmits(seed, e) ==
    CASE e.points = 0     -> FALSE
      [] e.points = 10000 -> TRUE
      [] OTHER            -> LoreBucket[<<seed, e.id>>] < e.points

EntryMatches(e, r, s) ==
    /\ HasConditions(e) => ConditionsHold(e, s)
    /\ e.kind = "probability" => ProbabilityAdmits(r.seed, e)

Precedence == [global |-> 0, card |-> 1, chat |-> 2]

Before(a, b) ==
    LET ka == <<-a.priority, -Precedence[a.source], a.order, a.id>>
        kb == <<-b.priority, -Precedence[b.source], b.order, b.id>>
    IN  \E i \in 1..4 : ka[i] < kb[i] /\ \A j \in 1..(i - 1) : ka[j] = kb[j]

InOrder(entries) ==
    [n \in 1..Cardinality(entries) |->
        CHOOSE e \in entries : Cardinality({f \in entries : Before(f, e)}) = n - 1]

\* Take each matched entry, in order, that still fits both budgets.
Fitted(matched, r) ==
    FoldLeft(LAMBDA acc, e :
        LET bytes  == acc.bytes + (IF acc.ids = <<>> THEN 0 ELSE r.separator) + e.bytes
            tokens == acc.tokens + e.tokens
        IN  IF bytes > r.maxBytes \/ tokens > r.maxTokens THEN acc
            ELSE [ids |-> Append(acc.ids, e.id), bytes |-> bytes, tokens |-> tokens],
        [ids |-> <<>>, bytes |-> 0, tokens |-> 0], matched)

\* Counters only grow and a limit is checked at each step, so a limit is met
\* during the evaluation exactly when the totals of all candidates exceed it.
SelectUncached(r) ==
    LET active == Enabled(lore.catalog)
        s    == SearchInput(r)
        sens == Index(lore.catalog, TRUE)
        fold == Index(lore.catalog, FALSE)
        cand == Unconditional(lore.catalog)
                  \cup UNION {sens[p] : p \in Hits(sens, s.sensitive)}
                  \cup UNION {fold[p] : p \in Hits(fold, s.folded)}
        runs == [i \in cand |-> IF HasConditions(active[i])
                                THEN SelectSeq(ConditionsRun(active[i], s), LAMBDA c : c.regex)
                                ELSE <<>>]
        evals == MapThenSumSet(LAMBDA i : Len(runs[i]), cand)
        found == MapThenSumSet(LAMBDA i :
                   MapThenSumSet(LAMBDA n : Cardinality(RegexMatches(runs[i][n], s.regex)), DOMAIN runs[i]), cand)
        matched == {active[i] : i \in {j \in cand : EntryMatches(active[j], r, s)}}
    IN  IF \/ Events(sens, s.sensitive) + Events(fold, s.folded) > r.maxEvents
           \/ evals > r.maxEvaluations
           \/ evals * Len(s.regex) > r.maxScan
           \/ found > r.maxMatches
        THEN Refused
        ELSE [ok |-> TRUE, sel |-> Fitted(InOrder(matched), r)]

-----------------------------------------------------------------------------
(* Operations.                                                                *)

KeyLess(k, l) ==
    LET a == <<k.catalog, k.generation, k.chat, k.branch, k.settings[1], k.seed>>
        b == <<l.catalog, l.generation, l.chat, l.branch, l.settings[1], l.seed>>
    IN  \E i \in 1..6 : a[i] < b[i] /\ \A j \in 1..(i - 1) : a[j] = b[j]

\* A key is installed by evicting the least key when the cache is full; keys
\* that tie on the compared fields differ by a digest, in some order.
Cached(cache, key, out) ==
    LET least == {k \in DOMAIN cache : \A l \in DOMAIN cache : ~KeyLess(l, k)}
        full  == Cardinality(DOMAIN cache) >= MaxCacheEntries
    IN  {[k \in (DOMAIN cache \ gone) \cup {key} |-> IF k = key THEN out ELSE cache[k]] :
            gone \in IF full THEN {{k} : k \in least} ELSE {{}}}

LoreInit ==
    \E c \in LoreCatalogs :
        /\ Compiles(c)
        /\ lore = [catalog |-> c, generation |-> 1, cache |-> [k \in {} |-> {}], last |-> Refused]

\* replace_catalog: the new index is built first; only then is it installed
\* and the cache cleared.
ReplaceCatalog(c) ==
    /\ lore.generation < MaxGeneration
    /\ lore' = IF Compiles(c)
               THEN [lore EXCEPT !.catalog = c, !.generation = @ + 1,
                                 !.cache = [k \in {} |-> {}], !.last = Refused]
               ELSE [lore EXCEPT !.last = Refused]

LoreSelect(r) ==
    LET key == CacheKey(r)
        out == IF key \in DOMAIN lore.cache THEN lore.cache[key] ELSE SelectUncached(r)
    IN  IF ~LoreRequestValid(r) THEN lore' = [lore EXCEPT !.last = Refused]
        ELSE \E cache \in IF key \in DOMAIN lore.cache \/ ~out.ok
                          THEN {lore.cache} ELSE Cached(lore.cache, key, out) :
                lore' = [lore EXCEPT !.cache = cache, !.last = [ok |-> TRUE, req |-> r, out |-> out]]

LoreNext ==
    \/ \E c \in LoreCatalogs : ReplaceCatalog(c)
    \/ \E r \in LoreRequests : LoreSelect(r)

-----------------------------------------------------------------------------
(* Properties.                                                                *)

\* The entries whose activation holds, with no index and no order of search.
ReferenceMatches(r) ==
    LET s == SearchInput(r)
    IN  {e \in ToSet(lore.catalog.entries) : e.enabled /\ EntryMatches(e, r, s)}

\* An answer, cached or not, names exactly the enabled entries whose activation
\* holds on the request's text and that fit after the more important chosen
\* ones: the candidate indexes, the cache and its key lose and add nothing.
AnswerIsFresh ==
    (lore.last.ok /\ lore.last.out.ok) =>
        LET r == lore.last.req
            matched == ReferenceMatches(r)
            chosen == {e \in matched : \E i \in DOMAIN lore.last.out.sel.ids : lore.last.out.sel.ids[i] = e.id}
            Ahead(e) == {f \in chosen : Before(f, e)}
            Fits(e) ==
                /\ MapThenSumSet(LAMBDA f : f.tokens, Ahead(e)) + e.tokens <= r.maxTokens
                /\ MapThenSumSet(LAMBDA f : f.bytes + r.separator, Ahead(e)) + e.bytes <= r.maxBytes
        IN  /\ Len(lore.last.out.sel.ids) = Cardinality(chosen)
            /\ \A e \in matched : e \in chosen <=> Fits(e)
            /\ \A i, j \in DOMAIN lore.last.out.sel.ids : \A e, f \in chosen :
                  (i < j /\ e.id = lore.last.out.sel.ids[i] /\ f.id = lore.last.out.sel.ids[j]) => Before(e, f)

\* The cache stays within its bound and holds no answer of an earlier
\* catalogue, whatever was replaced and in whatever order.
CacheIsCurrent ==
    /\ Cardinality(DOMAIN lore.cache) <= MaxCacheEntries
    /\ \A k \in DOMAIN lore.cache : k.generation = lore.generation /\ lore.cache[k].ok

\* The cache never answers for a catalogue or a request other than the present one.
LoreIsCurrent ==
    AnswerIsFresh /\ CacheIsCurrent

=============================================================================
