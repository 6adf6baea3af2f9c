--------------------------- MODULE MemoryPresets ----------------------------
(* Memory presets (crates/lorepia-memory: config.rs, storage.rs) and the       *)
(* splitting of a memory into chunks (chunk.rs).  A prompt, label or pattern   *)
(* is its length in bytes, 0 when it is blank or has a forbidden character.    *)
EXTENDS Cases

CONSTANTS
    PresetScale,          \* BASIS_POINTS_SCALE
    MaxPresetLabel, MaxSummaryPrompt, MaxSummaryMessages, MaxQueryMessages,
    MaxPresets, MaxPresetStateBytes, MaxChunks,
    MaxPresetRevision     \* u64::MAX

-----------------------------------------------------------------------------
(* The validated values.                                                       *)

BasisPoints(v) == v <= PresetScale
MixValid(m) == /\ BasisPoints(m.recent) /\ BasisPoints(m.similar) /\ BasisPoints(m.random)
               /\ m.recent + m.similar + m.random = PresetScale
RefValid(r) == r > 0
SeparatorValid(s) == s = "pattern"      \* compiles in its limits, and not on ""
SummaryValid(s) ==
    /\ s.prompt \in 1..MaxSummaryPrompt /\ s.again \in 1..MaxSummaryPrompt
    /\ s.messages \in 1..MaxSummaryMessages
    /\ SeparatorValid(s.separator)
InsertionValid(i) == BasisPoints(i.memory) /\ BasisPoints(i.detail) /\ i.memory > 0
HybridValid(h) == /\ h.count \in 1..MaxQueryMessages
                  /\ MixValid(h.mix) /\ h.mix.similar > 0
                  /\ RefValid(h.profile)
StrategyValid(s) == s.type = "hybrid" => HybridValid(s)
ModelValid(m) == m.type = "preset" => RefValid(m.rev)
LabelValid(l) == l \in 1..MaxPresetLabel

\* from_parts, which create (revision 1), updated and the decoder all go through.
PresetValid(p) ==
    /\ p.rev > 0 /\ LabelValid(p.label)
    /\ StrategyValid(p.strategy) /\ RefValid(p.prompt) /\ ModelValid(p.model)
    /\ SummaryValid(p.summary) /\ InsertionValid(p.insertion)

Updated(p, expected, draft) ==
    LET next == [draft EXCEPT !.id = p.id, !.rev = p.rev + 1] IN
    IF expected = p.rev /\ p.rev < MaxPresetRevision /\ PresetValid(next) THEN Ok(next) ELSE Err

-----------------------------------------------------------------------------
(* The persisted state.  A preset on disk is a record of its own, which         *)
(* from_domain fills and into_domain reads and validates, part by part.         *)

\* Mutant: every saved query is about the whole conversation.
StrategyWireDefault(s) ==
    IF s.type = "rolling" THEN [type |-> "rolling_summary"]
    ELSE [type |-> "hybrid_retrieval",
          retrieval |-> [queryMessageCount |-> s.count, queryScope |-> "conversation",
                         selectionMix |-> <<s.mix.recent, s.mix.similar, s.mix.random>>,
                         embeddingProfile |-> s.profile]]

StrategyWire(s) ==
    IF s.type = "rolling" THEN [type |-> "rolling_summary"]
    ELSE [type |-> "hybrid_retrieval",
          retrieval |-> [queryMessageCount |-> s.count, queryScope |-> s.scope,
                         selectionMix |-> <<s.mix.recent, s.mix.similar, s.mix.random>>,
                         embeddingProfile |-> s.profile]]
ModelWire(m) ==
    IF m.type = "chat" THEN [type |-> "active_chat_model"]
    ELSE [type |-> "model_preset", preset |-> m.rev]
SummaryWire(s) ==
    [summaryPrompt |-> s.prompt, resummaryPrompt |-> s.again, maxMessagesPerSummary |-> s.messages,
     skipUserMessages |-> s.skip, chunkSeparator |-> s.separator]

FromDomain(p) ==
    [id |-> p.id, revision |-> p.rev, label |-> p.label, strategy |-> StrategyWire(p.strategy),
     promptPreset |-> p.prompt, summaryModel |-> ModelWire(p.model), summary |-> SummaryWire(p.summary),
     insertion |-> [memoryBudget |-> p.insertion.memory, additionalDetailBudget |-> p.insertion.detail],
     preserveCompactedOrphans |-> p.orphans, regenerationRegex |-> p.regex]

StrategyOf(w) ==
    IF w.type = "rolling_summary" THEN [type |-> "rolling"]
    ELSE LET r == w.retrieval IN
         [type |-> "hybrid", count |-> r.queryMessageCount, scope |-> r.queryScope, profile |-> r.embeddingProfile,
          mix |-> [recent |-> r.selectionMix[1], similar |-> r.selectionMix[2], random |-> r.selectionMix[3]]]
ModelOf(w) == IF w.type = "active_chat_model" THEN [type |-> "chat"] ELSE [type |-> "preset", rev |-> w.preset]
SummaryOf(w) ==
    [prompt |-> w.summaryPrompt, again |-> w.resummaryPrompt, messages |-> w.maxMessagesPerSummary,
     skip |-> w.skipUserMessages, separator |-> w.chunkSeparator]

IntoDomain(w) ==
    LET p == [id |-> w.id, rev |-> w.revision, label |-> w.label, strategy |-> StrategyOf(w.strategy),
              prompt |-> w.promptPreset, model |-> ModelOf(w.summaryModel), summary |-> SummaryOf(w.summary),
              insertion |-> [memory |-> w.insertion.memoryBudget, detail |-> w.insertion.additionalDetailBudget],
              orphans |-> w.preserveCompactedOrphans, regex |-> w.regenerationRegex]
    IN  IF PresetValid(p) THEN Ok(p) ELSE Err

UniqueIds(ps) == \A i, j \in DOMAIN ps : ps[i].id = ps[j].id => i = j
CountFits(ps) == Len(ps) <= MaxPresets

\* Bytes written: one for each preset, two for one with a retrieval policy.
SizeOf(ws) == Len(ws) + Cardinality({i \in DOMAIN ws : "retrieval" \in DOMAIN ws[i].strategy})

SerializeState(ps) ==
    LET ws == [i \in DOMAIN ps |-> FromDomain(ps[i])] IN
    IF ~CountFits(ps) \/ ~UniqueIds(ps) \/ SizeOf(ws) > MaxPresetStateBytes THEN Err
    ELSE Ok([format |-> "presets", version |-> 1, size |-> SizeOf(ws), presets |-> ws])

DecodeV1(ws) ==
    LET ps == [i \in DOMAIN ws |-> IntoDomain(ws[i])] IN
    IF CountFits(ws) /\ UniqueIds(ws) /\ \A i \in DOMAIN ps : ps[i].ok
    THEN Ok([i \in DOMAIN ps |-> ps[i].v]) ELSE Err

DeserializeState(w) ==
    IF w.size > MaxPresetStateBytes \/ w.format # "presets" \/ w.version # 1 THEN Err
    ELSE DecodeV1(w.presets)

\* A state found on disk is loaded, its first preset edited at expected, and the
\* state saved.
EditSaved(in) ==
    LET loaded == DeserializeState(in.wire) IN
    IF ~loaded.ok \/ loaded.v = <<>> THEN Err
    ELSE LET next == Updated(loaded.v[1], in.expected, in.draft) IN
         IF ~next.ok THEN Err ELSE SerializeState([loaded.v EXCEPT ![1] = next.v])

-----------------------------------------------------------------------------
(* Splitting a memory: a text is a sequence of "w" (a character), " " (white   *)
(* space), "|" (a separator match), "z" (a zero-width match) and "0" (NUL).    *)

TextValid(t) == \A i \in DOMAIN t : t[i] # "0"
Cuts(t) == {i \in DOMAIN t : t[i] = "|"}
Segments(t) ==
    LET from == {0} \cup Cuts(t)
        end(a) == CHOOSE b \in Cuts(t) \cup {Len(t) + 1} :
                      b > a /\ \A c \in Cuts(t) : c > a => b <= c
        start(n) == CHOOSE a \in from : Cardinality({b \in from : b < a}) = n - 1
    IN  [n \in 1..Cardinality(from) |-> SubSeq(t, start(n) + 1, end(start(n)) - 1)]
Kept(segment) == \E i \in DOMAIN segment : segment[i] # " "

SplitChunks(t) ==
    LET kept == SelectSeq(Segments(t), Kept) IN
    IF ~TextValid(t) \/ (\E i \in DOMAIN t : t[i] = "z") \/ Len(kept) > MaxChunks \/ kept = <<>> THEN Err
    ELSE Ok([n \in DOMAIN kept |-> [index |-> n - 1, content |-> kept[n]]])

-----------------------------------------------------------------------------
(* Properties.                                                                 *)

\* What the edit of a loaded state saves loads again, through both conversions,
\* with the edited preset one revision further and every field as drafted, and the
\* others as they were on disk; only an edit made at the stored revision is saved.
SavedPresetsLoad ==
    (Answered("preset") /\ case.out.ok) =>
        LET old == DeserializeState(case.in.wire).v
            new == DeserializeState(case.out.v)
        IN  /\ new.ok /\ Len(new.v) = Len(old)
            /\ case.in.expected = old[1].rev
            /\ new.v[1] = [case.in.draft EXCEPT !.id = old[1].id, !.rev = old[1].rev + 1]
            /\ \A i \in 2..Len(old) : new.v[i] = old[i] /\ case.out.v.presets[i] = case.in.wire.presets[i]

\* Splitting loses no word of the memory and invents none: the chunks in index
\* order hold exactly the memory's words, and none is blank.
ChunksHoldTheText ==
    (Answered("chunk") /\ case.out.ok) =>
        LET chunks == case.out.v
            words(t) == SelectSeq(t, LAMBDA c : c = "w")
            upto[n \in 0..Len(chunks)] ==
                IF n = 0 THEN <<>> ELSE upto[n - 1] \o words(chunks[n].content)
        IN  /\ upto[Len(chunks)] = words(case.in)
            /\ \A n \in DOMAIN chunks : chunks[n].index = n - 1 /\ words(chunks[n].content) # <<>>

\* A preset that was saved loads again, and the chunks of a text hold all of it.
PresetsAreSound ==
    SavedPresetsLoad /\ ChunksHoldTheText

=============================================================================
