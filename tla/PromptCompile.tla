--------------------------- MODULE PromptCompile ----------------------------
(* The prompt compiler (crates/lorepia-prompt): validation of a preset, the    *)
(* rendering of its templates, the messages it compiles to, the regex          *)
(* transforms, the import envelope and the hand-off to a provider request.     *)
(* A text is a sequence of one-byte tokens; the tokens of Refs stand for       *)
(* ${name}, "$v" is ${value}, "${" is a malformed reference, " " white space   *)
(* and "0" a NUL.  The persona stands for the long-term memory too, which is   *)
(* checked like it, and the lorebook for the character's description.          *)
EXTENDS ProviderCompile, FiniteSetsExt

CONSTANTS
    MaxBlocks, MaxCacheBlocks, MaxDepth, MaxAuthored, MaxVariables, MaxReferences,
    MaxRules, MaxActiveRules, MaxPromptMessages, MaxPromptBytes, MaxRendered,
    MaxScan, MaxMatches, MaxPersonaInput, MaxImportBytes, MaxJsonDepth, MaxJsonNodes

EndOfChat == -1
Refs == {"$x", "$y", "$v"}

-----------------------------------------------------------------------------
(* Templates.                                                                  *)

IsBlank(t) == \A i \in DOMAIN t : t[i] = " "
HasNul(t) == \E i \in DOMAIN t : t[i] = "0"
Syntax(t) == \A i \in DOMAIN t : t[i] # "${"

\* One pass: what a variable holds is data and is not looked at again.
Rendered(t, vars) ==
    LET out == FlattenSeq([i \in DOMAIN t |-> IF t[i] \in DOMAIN vars THEN vars[t[i]] ELSE <<t[i]>>])
    IN  IF ~Syntax(t) \/ (\E i \in DOMAIN t : t[i] \in Refs \ DOMAIN vars) \/ Len(out) > MaxRendered
        THEN Err ELSE Ok(out)

\* The empty template stands for the plain format.
RenderContent(format, source, vars) ==
    IF format # <<>> THEN Rendered(format, ("$v" :> source) @@ vars)
    ELSE IF Len(source) > MaxRendered THEN Err ELSE Ok(source)

-----------------------------------------------------------------------------
(* Validation of a preset.                                                     *)

Authored(t) == ~IsBlank(t) /\ ~HasNul(t) /\ Syntax(t)
FormatValid(f) == f = <<>> \/ (Authored(f) /\ Cardinality({i \in DOMAIN f : f[i] = "$v"}) = 1)

BlockValid(b) ==
    /\ b.kind \in {"raw", "final", "chatml"} => Authored(b.text)
    /\ b.special # "none" => b.role = "system"
    /\ b.kind = "chat" => b.end = EndOfChat \/ b.start < b.end
    /\ b.kind \in {"persona", "lore", "note"} => FormatValid(b.format)
    /\ b.kind = "note" => b.text = <<>> \/ Authored(b.text)
    /\ b.kind = "cache" => b.depth \in 1..MaxDepth

BlocksValid(bs) ==
    LET on(Test(_)) == {i \in DOMAIN bs : bs[i].on /\ Test(bs[i])} IN
    /\ Len(bs) \in 1..MaxBlocks
    /\ \A i \in DOMAIN bs : BlockValid(bs[i])
    /\ \A s \in {"main", "note"} : Cardinality(on(LAMBDA b : b.special = s)) <= 1
    /\ Cardinality(on(LAMBDA b : b.kind = "chat")) <= 1
    /\ Cardinality({i \in DOMAIN bs : bs[i].kind = "cache"}) <= MaxCacheBlocks

VariableBytes(vars) == MapThenSumSet(LAMBDA x : Len(vars[x]), DOMAIN vars)
VariablesValid(vars) ==
    /\ "$v" \notin DOMAIN vars
    /\ Cardinality(DOMAIN vars) <= MaxVariables
    /\ \A x \in DOMAIN vars : ~HasNul(vars[x])
    /\ VariableBytes(vars) <= MaxAuthored

\* min-p stands for top-a and the repetition penalty too.
SamplingValid(s) ==
    /\ s.temperature \in {Missing} \cup 0..10 /\ s.topK # 0
    /\ \A field \in {"topP", "minP"} : s[field] \in {Missing} \cup 0..1
    /\ \A field \in {"presence", "frequency"} : s[field] \in {Missing} \cup -2..2
    /\ Len(s.stop) <= 16 /\ \A i \in DOMAIN s.stop : s.stop[i] # ""

DistinctNames(seq) == \A i, j \in DOMAIN seq : seq[i].name = seq[j].name => i = j
DistinctVersions(seq) ==
    \A i, j \in DOMAIN seq : seq[i].name = seq[j].name /\ seq[i].version = seq[j].version => i = j
ReferencesValid(p) ==
    /\ Len(p.tools) <= MaxReferences /\ DistinctNames(p.tools)
    /\ Len(p.modules) <= MaxReferences /\ DistinctVersions(p.modules)

RuleCompiles(r) == r.pattern \notin {"", "("} /\ \A i \in DOMAIN r.with : r.with[i] # "$?"
RuleTableValid(rules) ==
    /\ Len(rules) <= MaxRules
    /\ Cardinality({i \in DOMAIN rules : rules[i].on}) <= MaxActiveRules

\* Every rule is compiled, the ones that are off included.
RulesValid(rules) == /\ RuleTableValid(rules) /\ DistinctNames(rules)
                     /\ \A i \in DOMAIN rules : RuleCompiles(rules[i])

AuthoredBytes(p) ==
    LET bytes(seq, Of(_)) == FoldLeft(LAMBDA n, x : n + Of(x), 0, seq) IN
      bytes(p.blocks, LAMBDA b : Len(b.text) + Len(b.format))
    + bytes(p.preamble \o p.epilogue, LAMBDA m : Len(m.text)) + bytes(p.rules, LAMBDA r : 1 + Len(r.with))
    + VariableBytes(p.variables)

ValidatePreset(p) ==
    /\ BlocksValid(p.blocks)
    /\ SamplingValid(p.sampling)
    /\ \A m \in ToSet(p.preamble \o p.epilogue) : Authored(m.text)
    /\ VariablesValid(p.variables)
    /\ ReferencesValid(p)
    /\ RulesValid(p.rules)
    /\ AuthoredBytes(p) <= MaxAuthored

-----------------------------------------------------------------------------
(* The messages.                                                               *)

ContentValid(t) == ~IsBlank(t) /\ ~HasNul(t) /\ Len(t) <= MaxPromptBytes

CompileState == [ok |-> TRUE, messages |-> <<>>, pending |-> <<>>, bytes |-> 0, started |-> FALSE]

Push(st, role, text, source) ==
    IF ~st.ok \/ ~text.ok THEN [st EXCEPT !.ok = FALSE]
    ELSE IF \/ ~ContentValid(text.v) \/ Len(st.messages) >= MaxPromptMessages
            \/ (role = "system" /\ st.started) \/ st.bytes + Len(text.v) > MaxPromptBytes
    THEN [st EXCEPT !.ok = FALSE]
    ELSE [st EXCEPT !.messages = Append(@, [role |-> role, text |-> text.v, source |-> source]),
                    !.bytes = @ + Len(text.v), !.started = @ \/ role # "system"]

PushDynamic(st, b, value, vars, source) ==
    IF value = <<>> THEN st ELSE Push(st, b.role, RenderContent(b.format, value, vars), source)

PushHistory(st, b, i, history) ==
    LET end == IF b.end = EndOfChat THEN Len(history) ELSE b.end IN
    IF b.start >= end \/ end > Len(history) THEN [st EXCEPT !.ok = FALSE]
    ELSE FoldLeft(LAMBDA s, h : Push(s, history[h].role, Ok(history[h].text), <<i, h>>),
                  st, [n \in 1..(end - b.start) |-> b.start + n])

CompileBlock(st, i, b, in, vars) ==
    LET source == <<i, 0>> IN
    IF ~st.ok \/ ~b.on THEN st
    ELSE CASE b.kind \in {"raw", "chatml"} -> Push(st, b.role, Rendered(b.text, vars), source)
           [] b.kind = "chat" -> PushHistory(st, b, i, in.history)
           [] b.kind = "persona" -> PushDynamic(st, b, in.persona, vars, source)
           [] b.kind = "lore" -> PushDynamic(st, b, in.lore, vars, source)
           [] b.kind = "note" ->
                LET fallback == Rendered(b.text, vars) IN
                IF in.noteSet THEN PushDynamic(st, b, in.note, vars, source)
                ELSE IF ~fallback.ok THEN [st EXCEPT !.ok = FALSE]
                ELSE PushDynamic(st, b, fallback.v, vars, source)
           [] b.kind = "final" ->
                Push(st, b.role, IF in.final = <<>> THEN Rendered(b.text, vars) ELSE Ok(in.final), source)
           [] b.kind = "cache" -> [st EXCEPT !.pending = Append(@, [depth |-> b.depth, role |-> b.role])]

\* A cache point counts from the end of the finished message list.
CachePoints(st) ==
    LET n == Len(st.messages)
        target(i) == n - st.pending[i].depth + 1
        fits == \A i \in DOMAIN st.pending : st.pending[i].depth \in 1..n
    IN  IF /\ fits
           /\ \A i, j \in DOMAIN st.pending : target(i) = target(j) => i = j
           /\ \A i \in DOMAIN st.pending : st.messages[target(i)].role = st.pending[i].role
        THEN Ok([i \in DOMAIN st.pending |-> [message |-> target(i), role |-> st.pending[i].role]])
        ELSE Err

-----------------------------------------------------------------------------
(* The request transforms: one budget for all messages.                        *)

Expand(rule, c) == FlattenSeq([i \in DOMAIN rule.with |-> IF rule.with[i] = "$0" THEN <<c>>
                                                          ELSE <<rule.with[i]>>])

ApplyRule(st, rule) ==
    LET hits == {i \in DOMAIN st.text : st.text[i] = rule.pattern}
        used == IF rule.global \/ hits = {} THEN hits ELSE {Min(hits)}
        out == FlattenSeq([i \in DOMAIN st.text |->
                             IF i \in used THEN Expand(rule, st.text[i]) ELSE <<st.text[i]>>])
        scanned == st.scanned + Len(st.text)
        matches == st.matches + Cardinality(used)
    IN  IF ~st.ok \/ scanned > MaxScan \/ matches > MaxMatches \/ Len(out) > MaxPromptBytes
        THEN [st EXCEPT !.ok = FALSE]
        ELSE [st EXCEPT !.text = out, !.scanned = scanned, !.matches = matches]

ActiveRules(p, target) == SelectSeq(p.rules, LAMBDA r : r.on /\ r.target = target)

TransformMessage(st, m, rules) ==
    LET one == FoldLeft(ApplyRule, [st EXCEPT !.text = m.text], rules) IN
    IF ~one.ok \/ ~ContentValid(one.text) \/ st.bytes + Len(one.text) > MaxPromptBytes
    THEN [one EXCEPT !.ok = FALSE]
    ELSE [one EXCEPT !.bytes = @ + Len(one.text), !.out = Append(@, [m EXCEPT !.text = one.text])]

\* Mutant: the size is only checked before the transforms.
TransformUnbounded(p, messages) ==
    FoldLeft(LAMBDA st, m :
        LET one == FoldLeft(ApplyRule, [st EXCEPT !.text = m.text], ActiveRules(p, "request")) IN
        [one EXCEPT !.out = Append(@, [m EXCEPT !.text = one.text])],
        [ok |-> TRUE, text |-> <<>>, scanned |-> 0, matches |-> 0, bytes |-> 0, out |-> <<>>], messages)

Transform(p, messages) ==
    FoldLeft(LAMBDA st, m : TransformMessage(st, m, ActiveRules(p, "request")),
             [ok |-> TRUE, text |-> <<>>, scanned |-> 0, matches |-> 0, bytes |-> 0, out |-> <<>>], messages)

-----------------------------------------------------------------------------
(* compile_prompt and compile_prompt_request.                                  *)

RuntimeValid(in) == ~HasNul(in.persona) /\ Len(in.persona) <= MaxPersonaInput /\ VariablesValid(in.variables)
ReferencesKnown(p, in) ==
    /\ \A i \in DOMAIN p.tools : p.tools[i].on => p.tools[i].name \in in.tools
    /\ \A i \in DOMAIN p.modules : p.modules[i].on => p.modules[i] \in in.modules

\* What the runtime sets wins over the preset's default.
Merged(p, in) == in.variables @@ p.variables
MergedFit(vars) == Cardinality(DOMAIN vars) <= MaxVariables /\ VariableBytes(vars) <= MaxAuthored

\* A preamble or epilogue: at most one message, of the role its author gave it.
Synthetic(st, message, vars, source) ==
    FoldLeft(LAMBDA t, m : Push(t, m.role, Rendered(m.text, vars), source), st, message)

NoSampling ==
    [temperature |-> Missing, topK |-> Missing, topP |-> Missing, presence |-> Missing, frequency |-> Missing,
     stop |-> <<>>, seed |-> Missing, minP |-> Missing]

CompilePrompt(p, in) ==
    LET vars == Merged(p, in)
        begun == Synthetic(CompileState, p.preamble, vars, <<0, 0>>)
        blocks == FoldLeft(LAMBDA st, i : CompileBlock(st, i, p.blocks[i], in, vars),
                           begun, [i \in DOMAIN p.blocks |-> i])
        done == Synthetic(blocks, p.epilogue, vars, <<Len(p.blocks) + 1, 0>>)
        sent == Transform(p, done.messages)
    IN  IF ~ValidatePreset(p) \/ ~RuntimeValid(in) \/ ~ReferencesKnown(p, in) \/ ~MergedFit(vars)
        THEN Err
        ELSE IF ~done.ok \/ done.messages = <<>> THEN Err
        ELSE IF ~CachePoints(done).ok \/ ~sent.ok THEN Err
        ELSE Ok([messages |-> sent.out, points |-> CachePoints(done).v,
                 sampling |-> IF in.own THEN p.sampling ELSE NoSampling,
                 tools |-> SelectSeq(p.tools, LAMBDA r : r.on), modules |-> SelectSeq(p.modules, LAMBDA r : r.on)])

Overlay(generation, s) ==
    [field \in DOMAIN generation |->
        IF field \in Fields \ {"maxOutput"} /\ Given(s, field) THEN s[field] ELSE generation[field]]

CapacityValid(capacity) == capacity.context > 0 /\ capacity.output \in 1..capacity.context
CapacityFits(tokens, capacity) == tokens + capacity.output <= capacity.context

\* The model preset is a provider request without its messages; the counter is
\* asked once the provider's compiler has accepted the whole.
CompileRequest(prompt, model) ==
    LET request == [model.base EXCEPT
                      !.messages = [i \in DOMAIN prompt.messages |->
                                      [role |-> prompt.messages[i].role, text |-> prompt.messages[i].text]],
                      !.generation = Overlay([@ EXCEPT !.maxOutput = model.capacity.output], prompt.sampling)]
        compiled == CompileProviderRequest(request)
    IN  IF \/ ~CapacityValid(model.capacity)
           \/ prompt.points # <<>> \/ prompt.tools # <<>> \/ prompt.modules # <<>>
           \/ prompt.sampling.minP # Missing
           \/ ~compiled.ok \/ ~model.counted.ok
        THEN Err
        ELSE IF ~CapacityFits(model.counted.v, model.capacity) THEN Err
        ELSE Ok([request |-> request, compiled |-> compiled.v, context |-> model.capacity.context,
                 tokens |-> model.counted.v])

AskPrompt(q) == CompilePrompt(q.preset, q.input)
AskRequest(q) ==
    LET prompt == CompilePrompt(q.preset, q.input)
    IN  IF prompt.ok THEN CompileRequest(prompt.v, q.model) ELSE Err

-----------------------------------------------------------------------------
(* Import and export of a preset.                                              *)

Off(seq) == [i \in DOMAIN seq |-> [seq[i] EXCEPT !.on = FALSE]]
Disabled(p) == [p EXCEPT !.tools = Off(@), !.modules = Off(@), !.rules = Off(@)]

ParseUnique(f) == ~f.duplicateKey /\ f.depth <= MaxJsonDepth /\ f.nodes <= MaxJsonNodes

ImportPreset(f) ==
    IF \/ f.bytes > MaxImportBytes \/ ~ParseUnique(f)
       \/ f.keys # {"format", "schemaVersion", "preset"}
       \/ f.format # "lorepia.prompt-preset" \/ f.version # 1
       \/ ~ValidatePreset(Disabled(f.preset))
    THEN Err ELSE Ok(Disabled(f.preset))

\* An export spells everything out, the defaults an imported file may leave out
\* included: its size and its nodes are those of the preset, never of the file it
\* was imported from.  Its depth is the schema's.
Parts(p) == Len(p.blocks) + Len(p.rules) + Len(p.tools) + Len(p.modules)
PrettyBytes(p) == 2 * Parts(p)
JsonNodes(p) == Parts(p) + Cardinality(DOMAIN p.variables)

ExportPreset(p) ==
    IF ~ValidatePreset(p) \/ PrettyBytes(p) > MaxImportBytes THEN Err
    ELSE Ok([bytes |-> PrettyBytes(p), duplicateKey |-> FALSE, depth |-> 2, nodes |-> JsonNodes(p),
             preset |-> p, version |-> 1, keys |-> {"format", "schemaVersion", "preset"},
             format |-> "lorepia.prompt-preset"])

-----------------------------------------------------------------------------
(* Properties.                                                                 *)

Sub(s, t) == \E k \in 0..(Len(t) - Len(s)) : SubSeq(t, k + 1, k + Len(s)) = s

\* Where the messages of a prompt come from, told block by block: a block that is
\* on gives one message, the chat one for each message it selects, a block with
\* nothing to say and a cache point none.
Speaks(b, in, vars) ==
    CASE b.kind = "persona" -> in.persona # <<>>
      [] b.kind = "lore" -> in.lore # <<>>
      [] b.kind = "note" -> IF in.noteSet THEN in.note # <<>> ELSE Rendered(b.text, vars) # Ok(<<>>)
      [] OTHER -> b.kind # "cache"
SourcesOf(p, in) ==
    LET of(i) ==
          LET b == p.blocks[i] IN
          IF ~b.on \/ ~Speaks(b, in, Merged(p, in)) THEN <<>>
          ELSE IF b.kind # "chat" THEN <<<<i, 0>>>>
          ELSE [n \in 1..((IF b.end = EndOfChat THEN Len(in.history) ELSE b.end) - b.start) |-> <<i, b.start + n>>]
    IN  [m \in DOMAIN p.preamble |-> <<0, 0>>] \o FlattenSeq([i \in DOMAIN p.blocks |-> of(i)])
        \o [m \in DOMAIN p.epilogue |-> <<Len(p.blocks) + 1, 0>>]

\* A compiled prompt has each message it should have, once, in order and in its
\* author's role: no block that is on and no selected history message is dropped or
\* repeated, with or without transforms.
PromptIsWhole ==
    (Answered("prompt") /\ case.out.ok) =>
        LET ms == case.out.v.messages
            p == case.in.preset
            roleOf(b, h) == IF h > 0 THEN case.in.input.history[h].role
                            ELSE IF b = 0 THEN p.preamble[1].role
                            ELSE IF b > Len(p.blocks) THEN p.epilogue[1].role ELSE p.blocks[b].role
        IN  /\ [i \in DOMAIN ms |-> ms[i].source] = SourcesOf(p, case.in.input)
            /\ \A i \in DOMAIN ms : ms[i].role = roleOf(ms[i].source[1], ms[i].source[2])

\* When no transform is on, a compiled prompt carries what it was given untouched:
\* each history message, each runtime text word for word, a "${name}" inside it
\* included, and each authored text that refers to no variable.
PromptIsVerbatim ==
    (Answered("prompt") /\ case.out.ok /\ ActiveRules(case.in.preset, "request") = <<>>) =>
        LET ms == case.out.v.messages
            bs == case.in.preset.blocks
            in == case.in.input
        IN  \A i \in DOMAIN ms :
              LET b == ms[i].source[1]
                  h == ms[i].source[2]
              IN  /\ h > 0 => ms[i].text = in.history[h].text
                  /\ (b \in DOMAIN bs /\ h = 0) =>
                        /\ bs[b].kind = "persona" => Sub(in.persona, ms[i].text)
                        /\ bs[b].kind = "lore" => Sub(in.lore, ms[i].text)
                        /\ (bs[b].kind = "note" /\ in.noteSet) => Sub(in.note, ms[i].text)
                        /\ (bs[b].kind = "final" /\ in.final # <<>>) => ms[i].text = in.final
                        /\ (bs[b].kind \in {"raw", "chatml"} /\ ToSet(bs[b].text) \cap Refs = {}) =>
                              ms[i].text = bs[b].text

\* Whatever the transforms do, an accepted prompt has its system messages first,
\* no blank message and no more bytes than the limit, and its cache points name
\* different messages of the role they ask for.
PromptIsSendable ==
    (Answered("prompt") /\ case.out.ok) =>
        LET ms == case.out.v.messages
            ps == case.out.v.points
        IN  /\ ms # <<>>
            /\ \A i, j \in DOMAIN ms : i < j /\ ms[j].role = "system" => ms[i].role = "system"
            /\ \A i \in DOMAIN ms : ~IsBlank(ms[i].text)
            /\ FoldLeft(LAMBDA n, m : n + Len(m.text), 0, ms) <= MaxPromptBytes
            /\ \A i, j \in DOMAIN ps : ms[ps[i].message].role = ps[i].role
                                       /\ (ps[i].message = ps[j].message => i = j)

\* An imported preset runs nothing of its own, and whichever one rule, tool or
\* module is approved later, the preset is still valid: what is off was checked
\* as if it were on.  What can be exported imports again as the same preset; an
\* import near the size limit may be too large to export, since the export is
\* longer than the file it came from.
ImportIsInert ==
    (Answered("import") /\ case.out.ok) =>
        LET p == case.out.v
            on(seq) == {i \in DOMAIN seq : seq[i].on}
        IN  /\ on(p.tools) = {} /\ on(p.modules) = {} /\ on(p.rules) = {}
            /\ \A i \in DOMAIN p.rules : ValidatePreset([p EXCEPT !.rules[i].on = TRUE])
            /\ LET again == ExportPreset(p) IN again.ok => ImportPreset(again.v) = Ok(p)

\* A request leaves room for the answer in the model's context, and what is sent is
\* the compiled prompt, with the prompt's own settings where it has some and may
\* set them, and the model's everywhere else.
RequestFitsModel ==
    (Answered("request") /\ case.out.ok) =>
        LET r == case.out.v
            m == case.in.model
            s == case.in.preset.sampling
            sent == Sent(r.request, r.compiled.body)
            wanted == [field \in Fields |-> IF case.in.input.own /\ field # "maxOutput" /\ Given(s, field)
                                            THEN s[field] ELSE m.base.generation[field]]
            name(field) == SentName(m.base.provider, field)
        IN  /\ r.tokens + sent[name("maxOutput")] <= m.capacity.context
            /\ \A field \in Fields \ {"maxOutput"} :
                 IF Given(wanted, field) THEN name(field) \in DOMAIN sent /\ sent[name(field)] = wanted[field]
                 ELSE name(field) \notin DOMAIN sent
            /\ Keeps(CompilePrompt(case.in.preset, case.in.input).v.messages, r.request, r.compiled.body)

\* A compiled prompt is what its preset and its chat say, once and within the limits,
\* it reaches the provider as it was compiled, and an imported preset does nothing on
\* its own.
PromptIsFaithful ==
    /\ PromptIsWhole
    /\ PromptIsVerbatim
    /\ PromptIsSendable
    /\ ImportIsInert
    /\ RequestFitsModel

=============================================================================
