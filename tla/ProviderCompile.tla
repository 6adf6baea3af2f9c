-------------------------- MODULE ProviderCompile ---------------------------
(* The provider request compiler (crates/lorepia-providers): the capability    *)
(* table, the validation of a provider-neutral request, and the wire body of   *)
(* each of the six providers.  A text is a sequence of tokens, "/" being the   *)
(* blank line put between joined messages; a name or key is a string, "" when  *)
(* it is blank, too long or holds a control character.                         *)
EXTENDS Cases, SequencesExt, TLC

CONSTANTS MaxRequestMessages, MaxRequestBytes, MaxExtras, MaxExtraDepth, MinThinkingBudget

Missing == -9                   \* an Option that is None
Providers == {"openai", "anthropic", "deepseek", "ollama", "gemini", "vertex"}
Google == {"gemini", "vertex"}
Fields == {"temperature", "maxOutput", "topP", "topK", "presence", "frequency", "stop", "seed"}

-----------------------------------------------------------------------------
(* The options each provider takes; "" is an option left out.                  *)

OpenAiOptions == [effort: {"", "high"}, summary: {"", "auto"}, cacheKey: {"none", "", "k"}, tier: {"", "flex"}]
AnthropicOptions == [thinking: {"", "disabled", "adaptive", "enabled"}, budget: {0, MinThinkingBudget, 9},
                     effort: {"", "max"}, ttl: {"", "1h"}, tier: {"", "auto"}]
DeepSeekOptions == [thinking: {"", "on", "off"}, effort: {"", "high"}]
OllamaOptions == [thinking: {"", "off", "on", "low"}]
GoogleThinking == [set: BOOLEAN, level: {"", "LOW"}, budget: {Missing, -2, -1}, include: BOOLEAN]
SafetyLists == {<<>>, <<[category |-> "hate", method |-> ""]>>, <<[category |-> "jailbreak", method |-> "SEVERITY"]>>,
                <<[category |-> "hate", method |-> ""], [category |-> "hate", method |-> ""]>>}
GeminiOptions == [thinking: GoogleThinking, safety: SafetyLists, tier: {"", "flex"},
                  cached: {<<>>, <<"cachedContents", "c">>, <<"cachedContents", "..">>, <<"other", "c">>}]
VertexOptions == [thinking: GoogleThinking, safety: SafetyLists, project: {"p", "P"}, location: {"l", "global"},
                  cached: {<<>>, <<"projects", "p", "locations", "l", "cachedContents", "c">>},
                  requestType: {"", "shared"}]

-----------------------------------------------------------------------------
(* Capabilities.                                                               *)

\* The providers that take a field, natively or for compatibility.
Support ==
    [temperature |-> Providers, topP |-> Providers, maxOutput |-> Providers,
     topK |-> Google \cup {"anthropic", "ollama"}, presence |-> Google, frequency |-> Google,
     stop |-> Providers \ {"openai"}, seed |-> Google \cup {"ollama"},
     json |-> Providers \ {"ollama"}]

Supports(p, field) == p \in Support[field]

MaxTemperature(p) == CASE p = "anthropic" -> 1 [] p = "ollama" -> 10 [] OTHER -> 2
MaxStops(p) == IF p = "gemini" THEN 5 ELSE 16

-----------------------------------------------------------------------------
(* Validation.                                                                 *)

Visible(t) == (\E i \in DOMAIN t : t[i] # " ") /\ \A i \in DOMAIN t : t[i] # "0"
SegmentSafe(s, lower) == s \notin {"", ".", "..", "a/b"} /\ (lower => s # "P")

MessagesValid(ms) ==
    LET talk == {i \in DOMAIN ms : ms[i].role # "system"} IN
    /\ Len(ms) <= MaxRequestMessages
    /\ \A i \in DOMAIN ms : Visible(ms[i].text) /\ \A j \in talk : ms[i].role = "system" => i < j
    /\ FoldLeft(LAMBDA n, m : n + Len(m.text), 0, ms) <= MaxRequestBytes
    /\ talk # {}

Given(g, field) == IF field = "stop" THEN g.stop # <<>> ELSE g[field] # Missing

\* Mutant: JSON without a schema is accepted of every dialect that has schemas.
ResponseUnspoken(p, format) ==
    CASE format = "text" -> TRUE
      [] format = "json" -> Supports(p, "json")
      [] format = "schema" -> Supports(p, "json") /\ p # "deepseek"
      [] format = "bad schema" -> FALSE
ResponseValid(p, format) ==
    CASE format = "text" -> TRUE
      [] format = "json" -> Supports(p, "json") /\ p # "anthropic"
      [] format = "schema" -> Supports(p, "json") /\ p # "deepseek"
      [] format = "bad schema" -> FALSE

GenerationValid(p, g) ==
    /\ \A field \in Fields : Given(g, field) => Supports(p, field)
    /\ Given(g, "temperature") => g.temperature \in 0..MaxTemperature(p)
    /\ Given(g, "maxOutput") => g.maxOutput > 0 \/ p = "anthropic"
    /\ Given(g, "topP") => g.topP \in 0..1
    /\ \A field \in {"presence", "frequency"} : Given(g, field) => g[field] \in -2..2
    /\ Len(g.stop) <= MaxStops(p) /\ \A i \in DOMAIN g.stop : g.stop[i] # ""
    /\ ResponseValid(p, g.format)

Talk(ms) == SelectSeq(ms, LAMBDA m : m.role # "system")
RolesValid(p, r) ==
    (p \in Google /\ r.policy = "preserve") =>
        \A i \in 1..(Len(Talk(r.messages)) - 1) : Talk(r.messages)[i].role # Talk(r.messages)[i + 1].role

ThinkingValid(t) == t.set => /\ t.level = "" \/ t.budget = Missing
                             /\ t.budget = Missing \/ t.budget >= -1
                             /\ t.level # "" \/ t.budget # Missing \/ t.include
SafetyValid(s, vertex) ==
    /\ Len(s) <= IF vertex THEN 6 ELSE 5
    /\ \A i, j \in DOMAIN s : s[i].category = s[j].category => i = j
    /\ ~vertex => \A i \in DOMAIN s : s[i].method = "" /\ s[i].category # "jailbreak"

OptionsValid(p, o, g) ==
    CASE p = "openai" -> o.cacheKey # ""
      [] p = "anthropic" -> /\ Given(g, "maxOutput")
                            /\ o.thinking = "enabled" => o.budget >= MinThinkingBudget /\ o.budget < g.maxOutput
      [] p = "deepseek" -> /\ o.thinking # "off" => ~Given(g, "temperature") /\ ~Given(g, "topP")
                           /\ o.thinking = "off" => o.effort = ""
      [] p = "ollama" -> TRUE
      [] p = "gemini" -> /\ ThinkingValid(o.thinking) /\ SafetyValid(o.safety, FALSE)
                         /\ o.cached # <<>> => /\ Len(o.cached) = 2 /\ o.cached[1] = "cachedContents"
                                               /\ SegmentSafe(o.cached[2], FALSE)
      [] p = "vertex" -> /\ SegmentSafe(o.project, TRUE) /\ SegmentSafe(o.location, TRUE)
                         /\ ThinkingValid(o.thinking) /\ SafetyValid(o.safety, TRUE)
                         /\ o.cached # <<>> =>
                              /\ Len(o.cached) = 6 /\ SegmentSafe(o.cached[6], FALSE)
                              /\ SubSeq(o.cached, 1, 5) =
                                   <<"projects", o.project, "locations", o.location, "cachedContents">>

\* A name is compared without its case and its punctuation; these are the
\* spellings that differ from their canonical form, the rest are in it already.
Spellings ==
    [top_p |-> "topp", topP |-> "topp", Stream |-> "stream", output_config |-> "outputconfig",
     api_key |-> "apikey", ApiKey |-> "apikey", End_Point |-> "endpoint"]
Canonical(k) == IF k \in DOMAIN Spellings THEN Spellings[k] ELSE k

\* Names the compiler writes itself, or that could carry a secret, an address or a
\* tool, at the top or (for the second kind) anywhere inside a value.
Reserved ==
    {"model", "input", "messages", "contents", "system", "instructions", "systeminstruction", "stream",
     "streamoptions", "store", "background", "conversation", "previousresponseid", "safetyidentifier", "user",
     "temperature", "maxoutputtokens", "maxtokens", "numpredict", "topp", "topk", "presencepenalty",
     "frequencypenalty", "stop", "stopsequences", "seed", "responseformat", "responsemimetype",
     "responsejsonschema", "text", "reasoning", "reasoningeffort", "thinking", "safetysettings", "servicetier",
     "cachedcontent", "cachecontrol", "promptcachekey", "promptcacheretention", "generationconfig", "options",
     "format", "project", "projectid", "location"}
Sensitive == {"apikey", "endpoint", "url", "token", "tools"}
ExtrasValid(xs) ==
    /\ Cardinality(DOMAIN xs) <= MaxExtras
    /\ \A k \in DOMAIN xs :
         /\ k # "" /\ Canonical(k) \notin Reserved \cup Sensitive
         /\ \A n \in xs[k].keys : Canonical(n) \notin Sensitive
         /\ xs[k].depth <= MaxExtraDepth

RequestValid(r) ==
    /\ r.provider = r.optionsOf
    /\ r.model # "" /\ (r.provider \in Google => SegmentSafe(r.model, FALSE))
    /\ MessagesValid(r.messages)
    /\ GenerationValid(r.provider, r.generation)
    /\ RolesValid(r.provider, r)
    /\ OptionsValid(r.provider, r.options, r.generation)
    /\ r.tokenizer \notin {"", "bad name"}
    /\ ExtrasValid(r.extras)

-----------------------------------------------------------------------------
(* The conversation.                                                           *)

Join(ts) == FoldLeft(LAMBDA s, t : IF s = <<>> THEN t ELSE s \o <<"/">> \o t, <<>>, ts)
SystemText(ms) == LET s == SelectSeq(ms, LAMBDA m : m.role = "system")
                  IN  Join([i \in DOMAIN s |-> s[i].text])

MergeMessage(out, m) ==
    IF out # <<>> /\ Last(out).role = m.role
    THEN [out EXCEPT ![Len(out)].text = @ \o <<"/">> \o m.text]
    ELSE Append(out, m)

Normalized(ms, policy) ==
    IF policy = "preserve" THEN Talk(ms) ELSE FoldLeft(MergeMessage, <<>>, Talk(ms))

ChatMessages(ms, assistant) ==
    [i \in DOMAIN ms |-> [role |-> IF ms[i].role = "user" THEN "user" ELSE assistant, text |-> ms[i].text]]
WithSystem(system, ms) ==
    (IF system = <<>> THEN <<>> ELSE <<[role |-> "system", text |-> system]>>) \o ChatMessages(ms, "assistant")

-----------------------------------------------------------------------------
(* Bodies: functions from field names to values.                               *)

When(set, name, value) == IF set THEN name :> value ELSE <<>>

\* "" where the dialect has no such field.
Names(p) ==
    CASE p = "openai" -> [temperature |-> "temperature", maxOutput |-> "max_output_tokens", topP |-> "top_p",
                          topK |-> "", presence |-> "", frequency |-> "", stop |-> "", seed |-> ""]
      [] p = "anthropic" -> [temperature |-> "temperature", maxOutput |-> "", topP |-> "top_p", topK |-> "top_k",
                             presence |-> "", frequency |-> "", stop |-> "stop_sequences", seed |-> ""]
      [] p = "deepseek" -> [temperature |-> "temperature", maxOutput |-> "max_tokens", topP |-> "top_p",
                            topK |-> "", presence |-> "", frequency |-> "", stop |-> "stop", seed |-> ""]
      [] p = "ollama" -> [temperature |-> "temperature", maxOutput |-> "num_predict", topP |-> "top_p",
                          topK |-> "top_k", presence |-> "", frequency |-> "", stop |-> "stop", seed |-> "seed"]
      [] OTHER -> [temperature |-> "temperature", maxOutput |-> "maxOutputTokens", topP |-> "topP", topK |-> "topK",
                   presence |-> "presencePenalty", frequency |-> "frequencyPenalty", stop |-> "stopSequences",
                   seed |-> "seed"]

Scalars(p, g) ==
    LET sent == {field \in Fields : Given(g, field) /\ Names(p)[field] # ""}
    IN  [name \in {Names(p)[field] : field \in sent} |->
            g[CHOOSE field \in sent : Names(p)[field] = name]]

OpenAiBody(r, system, ms) ==
    ("model" :> r.model) @@ ("input" :> ChatMessages(ms, "assistant")) @@ ("stream" :> TRUE) @@ ("store" :> FALSE)
    @@ When(system # <<>>, "instructions", system) @@ Scalars("openai", r.generation)
    @@ When(r.generation.format # "text", "text", r.generation.format)
    @@ When(r.options.effort # "", "reasoning", <<r.options.effort, r.options.summary>>)
    @@ When(r.options.cacheKey # "none", "prompt_cache_key", r.options.cacheKey)
    @@ When(r.options.cacheKey # "none", "prompt_cache_retention", TRUE)
    @@ When(r.options.tier # "", "service_tier", r.options.tier)

AnthropicBody(r, system, ms) ==
    ("model" :> r.model) @@ ("max_tokens" :> r.generation.maxOutput) @@ ("messages" :> ChatMessages(ms, "assistant"))
    @@ ("stream" :> TRUE) @@ When(system # <<>>, "system", system) @@ Scalars("anthropic", r.generation)
    @@ When(r.options.thinking # "", "thinking", <<r.options.thinking, r.options.budget>>)
    @@ When(r.options.effort # "" \/ r.generation.format = "schema", "output_config",
            <<r.options.effort, r.generation.format>>)
    @@ When(r.options.ttl # "", "cache_control", r.options.ttl)
    @@ When(r.options.tier # "", "service_tier", r.options.tier)

DeepSeekBody(r, system, ms) ==
    ("model" :> r.model) @@ ("messages" :> WithSystem(system, ms)) @@ ("stream" :> TRUE)
    @@ ("stream_options" :> TRUE) @@ Scalars("deepseek", r.generation)
    @@ When(r.generation.format = "json", "response_format", "json")
    @@ When(r.options.thinking # "", "thinking", r.options.thinking)
    @@ When(r.options.effort # "", "reasoning_effort", r.options.effort)

OllamaBody(r, system, ms) ==
    ("model" :> r.model) @@ ("messages" :> WithSystem(system, ms)) @@ ("stream" :> TRUE)
    @@ When(Scalars("ollama", r.generation) # <<>>, "options", Scalars("ollama", r.generation))
    @@ When(r.options.thinking # "", "think", r.options.thinking)

GoogleBody(r, system, ms) ==
    ("contents" :> ChatMessages(ms, "model")) @@ When(system # <<>>, "systemInstruction", system)
    @@ ("generationConfig" :> (Scalars(r.provider, r.generation)
                               @@ ("responseMimeType" :> IF r.generation.format = "text" THEN "text" ELSE "json")
                               @@ When(r.generation.format = "schema", "responseJsonSchema", "schema")
                               @@ When(r.options.thinking.set, "thinkingConfig", r.options.thinking)))
    @@ When(r.options.cached # <<>>, "cachedContent", r.options.cached)
    @@ When(r.options.safety # <<>>, "safetySettings", r.options.safety)
    @@ (IF r.provider = "vertex" THEN <<>>
        ELSE When(r.options.tier # "", "serviceTier", r.options.tier) @@ ("store" :> FALSE))

BodyOf(r) ==
    LET system == SystemText(r.messages)
        ms == Normalized(r.messages, r.policy)
    IN  CASE r.provider = "openai" -> OpenAiBody(r, system, ms)
          [] r.provider = "anthropic" -> AnthropicBody(r, system, ms)
          [] r.provider = "deepseek" -> DeepSeekBody(r, system, ms)
          [] r.provider = "ollama" -> OllamaBody(r, system, ms)
          [] OTHER -> GoogleBody(r, system, ms)

WithExtras(body, xs) == IF DOMAIN body \cap DOMAIN xs # {} THEN Err ELSE Ok(body @@ xs)

Headers(r) ==
    {"content-type"} \cup (IF r.provider = "anthropic" THEN {"anthropic-version"} ELSE {})
    \cup (IF r.provider = "vertex" THEN (IF r.options.requestType # "" THEN {"request-type"} ELSE {}) ELSE {})
Origin(r) == IF r.provider = "vertex" /\ r.options.location # "global" THEN r.options.location ELSE r.provider
PathOf(r) ==
    CASE r.provider = "gemini" -> <<"models", r.model>>
      [] r.provider = "vertex" -> <<"projects", r.options.project, r.options.location, r.model>>
      [] OTHER -> <<r.provider>>
AuthScheme(p) ==
    CASE p = "anthropic" -> "x-api-key" [] p = "gemini" -> "x-goog-api-key" [] p = "vertex" -> "oauth" [] OTHER -> "bearer"
StreamProtocol(p) == IF p = "ollama" THEN "ndjson" ELSE "sse"

CompileProviderRequest(r) ==
    IF ~RequestValid(r) THEN Err
    ELSE LET body == WithExtras(BodyOf(r), r.extras) IN
         IF ~body.ok THEN Err
         ELSE Ok([provider |-> r.provider, body |-> body.v, headers |-> Headers(r), origin |-> Origin(r),
                  path |-> PathOf(r), auth |-> AuthScheme(r.provider),
                  protocol |-> StreamProtocol(r.provider), tokenizer |-> r.tokenizer])

-----------------------------------------------------------------------------
(* Properties.                                                                 *)

Sent(r, body) ==
    IF r.provider \in Google THEN body["generationConfig"]
    ELSE IF r.provider # "ollama" THEN body
    ELSE IF "options" \in DOMAIN body THEN body["options"] ELSE <<>>
SentName(p, field) == IF p = "anthropic" /\ field = "maxOutput" THEN "max_tokens" ELSE Names(p)[field]
Compiled == Answered("compile") /\ case.out.ok

\* The format the body asks for, "text" when it asks for none.
FormatSent(p, body) ==
    CASE p \in Google -> IF "responseJsonSchema" \in DOMAIN body["generationConfig"] THEN "schema"
                         ELSE body["generationConfig"]["responseMimeType"]
      [] p = "openai" /\ "text" \in DOMAIN body -> body["text"]
      [] p = "anthropic" /\ "output_config" \in DOMAIN body -> body["output_config"][2]
      [] p = "deepseek" /\ "response_format" \in DOMAIN body -> body["response_format"]
      [] OTHER -> "text"

\* No setting is silently dropped: whatever a request that is accepted sets is in
\* the body sent, so the capability table admits only what the dialect can say, and
\* the body asks for the format the request asks for (an extra parameter apart).
NoSettingDropped ==
    Compiled =>
        LET r == case.in
            g == r.generation
            body == case.out.v.body
            sent == Sent(r, body)
        IN  /\ \A field \in Fields :
                 Given(g, field) => /\ SentName(r.provider, field) \in DOMAIN sent
                                    /\ sent[SentName(r.provider, field)] = g[field]
            /\ FormatSent(r.provider, [k \in DOMAIN body \ DOMAIN r.extras |-> body[k]]) = g.format

\* What is said, word by word with who says it, the blank lines between joined
\* messages left out.
Words(ms) ==
    FlattenSeq([i \in DOMAIN ms |->
        LET said == SelectSeq(ms[i].text, LAMBDA t : t # "/") IN [k \in DOMAIN said |-> <<ms[i].role, said[k]>>]])
BlankLines(ms) ==
    FoldLeft(LAMBDA n, m : n + Cardinality({k \in DOMAIN m.text : m.text[k] = "/"}), 0, ms)

\* A body says the messages: every word in order and in the voice it was said in,
\* one turn for each message unless neighbours of one role are merged, with a blank
\* line between them; the system text is whole and nobody's turn.
Keeps(messages, r, body) ==
    LET turns == IF "contents" \in DOMAIN body THEN body["contents"]
                 ELSE IF "input" \in DOMAIN body THEN body["input"] ELSE body["messages"]
        said == SelectSeq(turns, LAMBDA m : m.role # "system")
        system == IF said # turns THEN turns[1].text
                  ELSE FoldLeft(LAMBDA t, k : IF k \in DOMAIN body THEN body[k] ELSE t, <<>>,
                                <<"instructions", "system", "systemInstruction">>)
        reply == IF r.provider \in Google THEN "model" ELSE "assistant"
        voice(m) == [role |-> IF m.role = "user" THEN m.role ELSE reply, text |-> m.text]
        talk == Talk(messages)
    IN  /\ Words(said) = Words([i \in DOMAIN talk |-> voice(talk[i])])
        /\ BlankLines(said) = Len(talk) - Len(said)
        /\ r.policy = "preserve" => Len(said) = Len(talk)
        /\ (r.policy = "merge" \/ r.provider \in Google) =>
             \A i \in 1..(Len(said) - 1) : said[i].role # said[i + 1].role
        /\ system = SystemText(messages)
        /\ Len(turns) <= Len(said) + 1

\* The model is given every message of an accepted request, in order and in the
\* right voice, and Google's turns alternate.
ConversationKept == Compiled => Keeps(case.in.messages, case.in, case.out.v.body)

\* Extra parameters only add: none takes the place of a field the compiler wrote
\* from the request, and each of them is sent.
ExtrasOnlyAdd ==
    Compiled => /\ DOMAIN BodyOf(case.in) \cap DOMAIN case.in.extras = {}
                /\ DOMAIN case.out.v.body = DOMAIN BodyOf(case.in) \cup DOMAIN case.in.extras
                /\ \A k \in DOMAIN BodyOf(case.in) : case.out.v.body[k] = BodyOf(case.in)[k]
=============================================================================
