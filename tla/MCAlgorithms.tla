---------------------------- MODULE MCAlgorithms ----------------------------
(* The pure algorithms, each asked every question of a small set.             *)
EXTENDS MemoryPresets, PromptCompile, ProviderCall, Decoders, ImportArchive, ChatRequest

-----------------------------------------------------------------------------
(* Presets: a good preset, and every preset that differs from it in one field. *)

GoodPreset ==
    [id |-> 1, rev |-> 1, label |-> 1, prompt |-> 1, orphans |-> FALSE, regex |-> "skip",
     strategy |-> [type |-> "rolling"], model |-> [type |-> "chat"],
     summary |-> [prompt |-> 1, again |-> 2, messages |-> 1, skip |-> TRUE, separator |-> "pattern"],
     insertion |-> [memory |-> 1, detail |-> 0]]
HybridPreset ==
    [GoodPreset EXCEPT !.strategy =
        [type |-> "hybrid", count |-> 1, scope |-> "assistant_only", profile |-> 1,
         mix |-> [recent |-> 1, similar |-> 1, random |-> 0]]]
MCPresets ==
    {GoodPreset, HybridPreset,
     [GoodPreset EXCEPT !.id = 2], [GoodPreset EXCEPT !.id = 3], [GoodPreset EXCEPT !.rev = 0],
     [GoodPreset EXCEPT !.rev = 2], [GoodPreset EXCEPT !.rev = 3], [GoodPreset EXCEPT !.label = 0],
     [GoodPreset EXCEPT !.label = 3], [GoodPreset EXCEPT !.prompt = 0],
     [GoodPreset EXCEPT !.model = [type |-> "preset", rev |-> 0]],
     [GoodPreset EXCEPT !.id = 2, !.model = [type |-> "preset", rev |-> 1], !.orphans = TRUE, !.regex = "apply"],
     [HybridPreset EXCEPT !.id = 2],
     [GoodPreset EXCEPT !.summary.prompt = 3], [GoodPreset EXCEPT !.summary.again = 0],
     [GoodPreset EXCEPT !.summary.messages = 3], [GoodPreset EXCEPT !.summary.separator = "empty"],
     [GoodPreset EXCEPT !.insertion.memory = 0], [GoodPreset EXCEPT !.insertion.detail = 3],
     [HybridPreset EXCEPT !.strategy.count = 3], [HybridPreset EXCEPT !.strategy.profile = 0],
     [HybridPreset EXCEPT !.strategy.mix = [recent |-> 2, similar |-> 0, random |-> 0]],
     [HybridPreset EXCEPT !.strategy.mix = [recent |-> 1, similar |-> 1, random |-> 1]]}
MCPresetWires ==
    LET lists == {<<>>} \cup {<<p>> : p \in MCPresets} \cup {<<p, q>> : p, q \in MCPresets}
                 \cup {<<GoodPreset, [GoodPreset EXCEPT !.id = 2], [GoodPreset EXCEPT !.id = 3]>>}
        saved(ps) == LET ws == [i \in DOMAIN ps |-> FromDomain(ps[i])]
                     IN  [format |-> "presets", version |-> 1, size |-> SizeOf(ws), presets |-> ws]
        one == saved(<<GoodPreset>>)
    IN  {saved(ps) : ps \in lists}
        \cup {[one EXCEPT !.version = 2], [one EXCEPT !.format = "other"], [one EXCEPT !.size = 4]}
MCPresetEdits ==
    {[wire |-> w, expected |-> n, draft |-> d] :
        w \in MCPresetWires, n \in {1, 2, 3},
        d \in {HybridPreset, [GoodPreset EXCEPT !.label = 0],
               [GoodPreset EXCEPT !.model = [type |-> "preset", rev |-> 1]]}}

\* Texts of up to four pieces.
MCTexts == UNION {[1..n -> {"w", " ", "|", "z", "0"}] : n \in 0..4} \cup {<<"w", "|", "w", "|", "w">>}

-----------------------------------------------------------------------------
(* The plainest request of each provider.                                      *)

NoThinking == [set |-> FALSE, level |-> "", budget |-> Missing, include |-> FALSE]
PlainOptions ==
    [openai |-> [effort |-> "", summary |-> "", cacheKey |-> "none", tier |-> ""],
     anthropic |-> [thinking |-> "", budget |-> 0, effort |-> "", ttl |-> "", tier |-> ""],
     deepseek |-> [thinking |-> "off", effort |-> ""], ollama |-> [thinking |-> "on"],
     gemini |-> [thinking |-> NoThinking, safety |-> <<>>, tier |-> "", cached |-> <<>>],
     vertex |-> [thinking |-> NoThinking, safety |-> <<>>, project |-> "p", location |-> "l", cached |-> <<>>,
                 requestType |-> ""]]
PlainGeneration ==
    [temperature |-> Missing, maxOutput |-> 9, topP |-> Missing, topK |-> Missing, presence |-> Missing,
     frequency |-> Missing, stop |-> <<>>, seed |-> Missing, format |-> "text"]
ScriptLine(role, t) == [role |-> role, text |-> <<t>>]
PlainRequest(p) ==
    [provider |-> p, optionsOf |-> p, model |-> "m", messages |-> <<ScriptLine("user", "a")>>, policy |-> "preserve",
     generation |-> PlainGeneration, options |-> PlainOptions[p], tokenizer |-> "none", extras |-> <<>>]

-----------------------------------------------------------------------------
(* Prompts: every preset of up to three of these blocks.                       *)

Block(kind, role, text) ==
    [kind |-> kind, on |-> TRUE, role |-> role, text |-> text, format |-> <<>>, special |-> "none",
     start |-> 0, end |-> EndOfChat, depth |-> 1]
MCBlocks ==
    {Block("raw", "system", <<"a", "$x">>), Block("chatml", "user", <<"b">>),
     [Block("raw", "system", <<"b">>) EXCEPT !.special = "main"],
     [Block("raw", "user", <<"b">>) EXCEPT !.special = "main"],
     Block("raw", "system", <<"$v">>), [Block("raw", "user", <<" ">>) EXCEPT !.on = FALSE],
     Block("chat", "user", <<>>), [Block("chat", "user", <<>>) EXCEPT !.start = 1, !.end = 3],
     Block("persona", "system", <<>>),
     [Block("persona", "user", <<>>) EXCEPT !.format = <<"a", "$v", "$x">>],
     [Block("lore", "system", <<>>) EXCEPT !.format = <<"$v", "$v">>],
     [Block("lore", "user", <<>>) EXCEPT !.format = <<"$y", "$v">>],
     Block("note", "user", <<"$x">>), Block("final", "assistant", <<"$x">>),
     Block("cache", "user", <<>>), [Block("cache", "user", <<>>) EXCEPT !.depth = 2]}
Rule(on, pattern, with) ==
    [name |-> <<pattern, with>>, on |-> on, target |-> "request", pattern |-> pattern, with |-> with,
     global |-> TRUE]
MCRuleLists ==
    {<<>>, <<Rule(TRUE, "a", <<"$0", "$0", "b">>)>>, <<Rule(FALSE, "(", <<>>)>>,
     <<Rule(TRUE, "b", <<" ">>), Rule(TRUE, "a", <<" ">>)>>,
     <<[Rule(TRUE, "b", <<"a">>) EXCEPT !.global = FALSE], Rule(TRUE, "a", <<"b", "b">>)>>}
PresetOf(bs, rs) ==
    [blocks |-> bs, preamble |-> <<>>, epilogue |-> <<>>, variables |-> ("$x" :> <<"a">>), rules |-> rs,
     sampling |-> [NoSampling EXCEPT !.temperature = 1], tools |-> <<>>, modules |-> <<>>]
InputOf(persona, note) ==
    [history |-> <<[role |-> "user", text |-> <<"a">>], [role |-> "assistant", text |-> <<"$x">>]>>,
     persona |-> persona, noteSet |-> note # <<>> \/ persona = <<>>, lore |-> <<"$x", "b">>, note |-> note, final |-> note, tools |-> {}, modules |-> {},
     own |-> TRUE, variables |-> ("$y" :> <<"$x">>)]
Tool(name, on) == [name |-> name, on |-> on]
Module(version, digest, on) == [name |-> "m", version |-> version, digest |-> digest, on |-> on]
MCModuleLists ==
    {<<>>, <<Module(1, 1, TRUE)>>, <<Module(1, 2, TRUE)>>, <<Module(1, 2, FALSE), Module(2, 1, FALSE)>>,
     <<Module(1, 1, TRUE), Module(1, 2, FALSE)>>}
MCVariables == {"$y" :> <<"$x">>, "$x" :> <<"b">>, "$y" :> [i \in 1..12 |-> "a"], "$v" :> <<"a">>}
MCSynthetics ==
    {<<>>} \cup {<<[role |-> x, text |-> <<"$x">>]>> : x \in {"system", "user", "assistant"}}
    \cup {<<[role |-> "system", text |-> <<"${">>]>>}
MCPrompts ==
    {[preset |-> PresetOf(<<b, c, d>>, <<>>), input |-> InputOf(<<"$x">>, <<>>)] : b, c, d \in MCBlocks}
    \cup {[preset |-> PresetOf(<<b, c>>, rs), input |-> InputOf(<<"$x">>, <<>>)] :
            b, c \in MCBlocks, rs \in MCRuleLists}
    \cup {[preset |-> PresetOf(<<b, c>>, <<>>), input |-> InputOf(p, n)] :
            b, c \in MCBlocks, p \in {<<>>, <<"0">>, <<"a">>}, n \in {<<>>, <<"$y">>, <<" ">>}}
    \cup {[preset |-> [PresetOf(<<b>>, <<>>) EXCEPT !.preamble = t, !.epilogue = u], input |-> InputOf(<<"a">>, <<>>)] :
            b \in MCBlocks, t, u \in MCSynthetics}
    \cup {[preset |-> [PresetOf(<<b>>, <<>>) EXCEPT !.tools = ts, !.modules = ms],
           input |-> [InputOf(p, <<>>) EXCEPT !.tools = {"t"}, !.modules = {Module(1, 1, TRUE)}, !.variables = vs]] :
            b \in MCBlocks, p \in {<<"a">>, [i \in 1..4 |-> "a"]}, vs \in MCVariables,
            ts \in {<<>>, <<Tool("t", TRUE)>>, <<Tool("u", TRUE)>>}, ms \in MCModuleLists}

OnePrompt == PresetOf(<<Block("chat", "user", <<>>)>>, <<>>)
RequestPresets ==
    {OnePrompt, [OnePrompt EXCEPT !.blocks = <<Block("chat", "user", <<>>), Block("cache", "assistant", <<>>)>>]}
    \cup {[OnePrompt EXCEPT !.preamble = m] : m \in MCSynthetics}
ModelOn(p, g) == [PlainRequest(p) EXCEPT !.messages = <<>>, !.generation = g]
MCPromptRequests ==
    {[preset |-> p, input |-> [InputOf(<<>>, <<>>) EXCEPT !.own = own],
      model |-> [base |-> ModelOn("openai", PlainGeneration), capacity |-> [context |-> c, output |-> o], counted |-> n]] :
       p \in RequestPresets, own \in BOOLEAN, c \in {0, 4}, o \in {0, 2, 5}, n \in {Err} \cup {Ok(k) : k \in 1..4}}
    \cup {[preset |-> [p EXCEPT !.sampling = s], input |-> [InputOf(<<>>, <<>>) EXCEPT !.own = own],
           model |-> [base |-> [ModelOn(v, g) EXCEPT !.policy = y], capacity |-> [context |-> 4, output |-> 2],
                      counted |-> Ok(2)]] :
       p \in RequestPresets, own \in BOOLEAN, v \in Providers, y \in {"preserve", "merge"},
       g \in {PlainGeneration, [PlainGeneration EXCEPT !.temperature = 1, !.topK = 2, !.stop = <<"s">>]},
       s \in {NoSampling, [NoSampling EXCEPT !.temperature = 2, !.topP = 1], [NoSampling EXCEPT !.temperature = 11],
              [NoSampling EXCEPT !.topK = 3, !.stop = <<"t">>], [NoSampling EXCEPT !.seed = 7, !.presence = -2],
              [NoSampling EXCEPT !.topK = 0], [NoSampling EXCEPT !.minP = 1]}}

MCImports ==
    {[bytes |-> n, duplicateKey |-> d, depth |-> 2, nodes |-> k, keys |-> ks, format |-> "lorepia.prompt-preset",
      version |-> v, preset |-> [OnePrompt EXCEPT !.rules = rs, !.tools = ts, !.modules = ms]] :
       n \in {1, MaxImportBytes + 1}, d \in BOOLEAN, k \in {2, MaxJsonNodes + 1}, v \in {1, 2},
       ks \in {{"format", "schemaVersion", "preset"}, {"format", "preset"}}, ms \in MCModuleLists,
       rs \in MCRuleLists \cup {<<Rule(FALSE, "a", <<"$?">>)>>, <<Rule(TRUE, "a", <<>>), Rule(TRUE, "a", <<>>)>>},
       ts \in {<<>>, <<Tool("t", TRUE)>>, <<Tool("t", TRUE), Tool("t", FALSE)>>}}

-----------------------------------------------------------------------------
(* Provider requests: for each provider, one varies the options, one the       *)
(* settings, one the conversation and one the extra parameters.                *)

MCOptions ==
    [openai |-> OpenAiOptions, anthropic |-> AnthropicOptions, deepseek |-> DeepSeekOptions,
     ollama |-> OllamaOptions, gemini |-> GeminiOptions, vertex |-> VertexOptions]
MCGenerations ==
    {[PlainGeneration EXCEPT !.temperature = t, !.topP = q, !.stop = s, !.format = f] :
        t \in {Missing, 0, 1, 2, 10, 11}, q \in {Missing, 0, 1, 2}, s \in {<<>>, <<"s">>, <<"">>},
        f \in {"text", "json", "schema", "bad schema"}}
    \cup {[PlainGeneration EXCEPT !.maxOutput = n, !.topK = k, !.presence = u, !.frequency = v, !.seed = d,
                                  !.stop = s] :
        n \in {Missing, 0, 5}, k \in {Missing, 3}, u, v \in {Missing, -2, 3}, d \in {Missing, 7},
        s \in {<<>>, [i \in 1..6 |-> "s"], [i \in 1..17 |-> "s"]}}
MCConversations ==
    UNION {[1..n -> {ScriptLine(r, t) : r \in {"system", "user", "assistant"}, t \in {"a", "b"}}] : n \in 0..3}
    \cup {<<ScriptLine("user", " ")>>, <<[role |-> "user", text |-> [i \in 1..9 |-> "a"]], ScriptLine("assistant", "a")>>,
          [i \in 1..7 |-> ScriptLine(IF i % 2 = 1 THEN "user" ELSE "assistant", "a")]}
Extra(keys, depth) == [keys |-> keys, depth |-> depth]
MCExtras ==
    LET one == {"think", "output_config", "temperature", "topP", "api_key", "", "verbosity"}
    IN  [one -> {Extra({}, 1)}] \cup UNION {[{k} -> {Extra({}, 1), Extra({"End_Point"}, 1), Extra({}, 3)}] : k \in one}
        \cup UNION {[{k, l} -> {Extra({}, 1)}] : k, l \in one}
MCProviderRequests(p) ==
    {[PlainRequest(p) EXCEPT !.options = o, !.generation.maxOutput = n] : o \in MCOptions[p], n \in {5, 10}}
    \cup {[PlainRequest(p) EXCEPT !.generation = g] : g \in MCGenerations}
    \cup {[PlainRequest(p) EXCEPT !.messages = ms, !.policy = y] : ms \in MCConversations, y \in {"preserve", "merge"}}
    \cup {[PlainRequest(p) EXCEPT !.extras = xs, !.model = m, !.tokenizer = t] :
             xs \in MCExtras, m \in {"m", "", "a/b"}, t \in {"none", "bad name"}}
    \cup {[PlainRequest(p) EXCEPT !.optionsOf = "other"]}

-----------------------------------------------------------------------------
(* Calls: every provider, endpoint, DNS answer and credential.                 *)

MCUrl == [scheme |-> "https", userinfo |-> FALSE, fragment |-> FALSE, port |-> 0, host |-> "my.host", path |-> "/v1",
          query |-> ""]
MCUrls ==
    {MCUrl, [MCUrl EXCEPT !.scheme = "http"], [MCUrl EXCEPT !.userinfo = TRUE], [MCUrl EXCEPT !.port = 80],
     [MCUrl EXCEPT !.host = "localhost"], [MCUrl EXCEPT !.path = "/"], [MCUrl EXCEPT !.query = "api_key"]}
MCSelections == {[type |-> "official", url |-> MCUrl]} \cup {[type |-> "override", url |-> u] : u \in MCUrls}
MCCredentials ==
    {[type |-> "provider", provider |-> p, host |-> "", secret |-> "k"] : p \in {"openai", "gemini", "vertex"}}
    \cup {[type |-> "host", provider |-> "", host |-> h, secret |-> s] : h \in {"my.host", "a-", "other"}, s \in {"k", ""}}
MCCallRequests(p) ==
    {PlainRequest(p), [PlainRequest(p) EXCEPT !.model = ""],
     [PlainRequest(p) EXCEPT !.messages = <<ScriptLine("system", "a"), ScriptLine("user", "b")>>, !.extras = ("truncation" :> Extra({}, 1))],
     [PlainRequest(p) EXCEPT !.generation.format = "json", !.extras = ("verbosity" :> Extra({}, 1))]}
MCCalls ==
    {[request |-> r, selection |-> s, dns |-> {"public"}, credential |-> k] :
        r \in UNION {MCCallRequests(p) : p \in Providers}, s \in MCSelections, k \in MCCredentials}
    \cup {[request |-> PlainRequest(p), selection |-> s, dns |-> d, credential |-> k] :
        p \in Providers, s \in MCSelections, k \in MCCredentials,
        d \in {{}, {"timeout"}, {"error"}, {"public", "private"}}}
    \cup {[request |-> [PlainRequest("vertex") EXCEPT !.options = o], selection |-> [type |-> "official", url |-> MCUrl],
           dns |-> {"public"}, credential |-> [type |-> "provider", provider |-> "vertex", host |-> "", secret |-> "k"]] :
        o \in {x \in VertexOptions : x.thinking = NoThinking}}
MCCounts ==
    {[call |-> q, answer |-> a] : q \in {x \in MCCalls : x.dns = {"public"}},
        a \in {[status |-> 200, type |-> "json", size |-> 1, shape |-> TRUE, n |-> 3]}}
    \cup {[call |-> [request |-> PlainRequest("openai"), selection |-> [type |-> "official", url |-> MCUrl],
                     dns |-> {"public"}, credential |-> [type |-> "provider", provider |-> "openai", host |-> "", secret |-> "k"]],
           answer |-> a] :
        a \in [status: {0, 200, 401, 408, 429, 503}, type: {"json", "html", "cancelled"}, size: {1, 99}, shape: BOOLEAN, n: {0, 3}]}

-----------------------------------------------------------------------------
(* Bodies: every sequence of up to three of these frames.                      *)

Frame(type) ==
    [json |-> TRUE, name |-> "", type |-> type, id |-> "?", text |-> "?", thought |-> "?", usage |-> NoUsage,
     finish |-> "", choices |-> 1, index |-> 0, tool |-> FALSE, done |-> "false"]
Counts(i, o) == [input |-> i, output |-> o, total |-> None]
MCFrames ==
    [openai |->
        {[Frame("created") EXCEPT !.id = "a"], [Frame("created") EXCEPT !.id = "bad id"],
         [Frame("text") EXCEPT !.text = "x"], [Frame("text") EXCEPT !.name = "other"], Frame("text"),
         [Frame("reasoning") EXCEPT !.text = "y", !.name = "reasoning"], [Frame("refusal") EXCEPT !.text = "x"],
         [Frame("completed") EXCEPT !.usage = Counts(2, 3)], [Frame("incomplete") EXCEPT !.finish = "max_tokens"],
         Frame("incomplete"), Frame("failed"), Frame("a_call"), Frame("ping"), [Frame("text") EXCEPT !.json = FALSE]},
     anthropic |->
        {[Frame("start") EXCEPT !.id = "a", !.usage = Counts(2, 1)], [Frame("start") EXCEPT !.id = "b"],
         [Frame("start") EXCEPT !.id = "bad id"], [Frame("text") EXCEPT !.text = "x"], Frame("text"),
         [Frame("reasoning") EXCEPT !.text = "y"], [Frame("delta") EXCEPT !.usage = Counts(None, 5), !.finish = "end_turn"],
         [Frame("delta") EXCEPT !.finish = "refusal"], Frame("stop"), Frame("tool_start"), Frame("ping"), Frame("error")},
     deepseek |->
        {[Frame("") EXCEPT !.id = "a", !.text = "x", !.thought = "y"], [Frame("") EXCEPT !.id = "b", !.text = ""],
         [Frame("") EXCEPT !.text = "x", !.finish = "stop", !.usage = Counts(2, None)],
         [Frame("") EXCEPT !.choices = 0, !.usage = Counts(3, 4)], [Frame("") EXCEPT !.choices = 2],
         [Frame("") EXCEPT !.choices = -1], [Frame("") EXCEPT !.index = 1], [Frame("") EXCEPT !.tool = TRUE],
         [Frame("") EXCEPT !.finish = "tool_calls"], Frame("[DONE]"), Frame("error")},
     ollama |->
        {[Frame("") EXCEPT !.text = "x", !.thought = "y"], [Frame("") EXCEPT !.text = "z", !.done = "true",
            !.finish = "stop", !.usage = Counts(2, 3)], [Frame("") EXCEPT !.done = "true", !.usage = Counts(2, None)],
         [Frame("") EXCEPT !.done = "?"], [Frame("") EXCEPT !.tool = TRUE], Frame("error"), [Frame("") EXCEPT !.text = ""]},
     gemini |->
        {[Frame("") EXCEPT !.id = "a", !.text = "x", !.thought = "y"], [Frame("") EXCEPT !.id = "b"],
         [Frame("") EXCEPT !.text = "z", !.finish = "stop", !.usage = Counts(2, 3)],
         [Frame("") EXCEPT !.choices = 0, !.usage = Counts(1, 1)], [Frame("") EXCEPT !.finish = "safety"],
         [Frame("") EXCEPT !.choices = 2], [Frame("") EXCEPT !.index = 1], [Frame("") EXCEPT !.tool = TRUE],
         [Frame("") EXCEPT !.id = "bad id"], Frame("blocked")}]
MCBodies == UNION {{[provider |-> p, frames |-> fs] : fs \in UNION {[1..n -> MCFrames[p]] : n \in 0..3}} : p \in DOMAIN MCFrames}

-----------------------------------------------------------------------------
(* Archives: up to three entries at every place, and one entry with one fault. *)

Zipped(path, dir) ==
    [path |-> path, dir |-> dir, slash |-> dir, flags |-> {}, method |-> "stored", size |-> 0, packed |-> 0, real |-> 0,
     extra |-> "none", mode |-> "none", at |-> 0, head |-> 1, local |-> "same", valid |-> TRUE, cards |-> <<>>]
Packed(e, size, packed, at) ==
    [e EXCEPT !.method = "deflated", !.size = size, !.packed = packed, !.real = size, !.at = at]
MCZip(es, central) ==
    [entries |-> es, diskEntries |-> Len(es), central |-> central, centralEnd |-> central + 1, eocd |-> central + 1]
MCNames ==
    {Zipped(<<"a.png">>, FALSE), Zipped(<<"A.PNG">>, FALSE), Zipped(<<"d", "a.png">>, FALSE), Zipped(<<"D", "A.PNG">>, FALSE),
     Zipped(<<"d">>, TRUE), Zipped(<<"a.png">>, TRUE), Zipped(<<"a.png", "b.png">>, FALSE), Zipped(<<"a.png", "d">>, TRUE),
     Zipped(<<"d", "d">>, TRUE), Zipped(<<"..", "a.png">>, FALSE), Zipped(<<"x.lua">>, FALSE), Zipped(<<"m.json">>, FALSE)}
MCFile == Packed(Zipped(<<"b.png">>, FALSE), 4, 2, 0)
MCFaulty ==
    {MCFile, [MCFile EXCEPT !.flags = {"encrypted"}], [MCFile EXCEPT !.flags = {"descriptor"}], [MCFile EXCEPT !.method = "other"],
     [MCFile EXCEPT !.flags = {"options"}, !.cards = <<"chara">>], [MCFile EXCEPT !.method = "stored"], [MCFile EXCEPT !.slash = TRUE],
     [MCFile EXCEPT !.real = 9], [MCFile EXCEPT !.real = 3], [MCFile EXCEPT !.extra = "zip64"], [MCFile EXCEPT !.mode = "link"],
     [MCFile EXCEPT !.local = "other"], [MCFile EXCEPT !.valid = FALSE], [MCFile EXCEPT !.path = <<"b.txt">>],
     [MCFile EXCEPT !.packed = 0], [MCFile EXCEPT !.packed = 1], [MCFile EXCEPT !.size = 9, !.real = 9],
     [MCFile EXCEPT !.path = <<"d", "d", "b.png">>], [MCFile EXCEPT !.path = <<"m.json">>, !.size = 3, !.real = 3]}
MCZips ==
    {MCZip(<<Packed(a, 0, 0, 0), Packed(b, 0, 0, 1), Packed(c, 0, 0, 2)>>, 3) : a, b, c \in MCNames}
    \cup {MCZip(<<Packed(Zipped(<<"x.lua">>, FALSE), m, 1, i), Packed(MCFile, n, 2, j), Packed(Zipped(<<"m.json">>, FALSE), q, 1, k)>>, c) :
            m, q \in {1, 2}, n \in {3, 4}, i, j, k \in 0..5, c \in {3, 7}}
    \cup {MCZip(<<e>>, 3) : e \in MCFaulty} \cup {MCZip(<<e, Packed(Zipped(<<"x.lua">>, FALSE), 2, 1, 3)>>, 5) : e \in MCFaulty}
    \cup {MCZip(<<>>, 0), [MCZip(<<MCFile>>, 3) EXCEPT !.eocd = 9], [MCZip(<<MCFile>>, 3) EXCEPT !.diskEntries = 2],
          MCZip([i \in 1..4 |-> Packed(Zipped(<<<<"a.png", "b.png", "x.lua", "m.json">>[i]>>, FALSE), 0, 0, i - 1)], 5)}

Chunk(type, length) == [type |-> type, length |-> length, crc |-> TRUE, valid |-> TRUE, keyword |-> "chara"]
MCChunks ==
    {Chunk("IHDR", 1), Chunk("PLTE", 1), Chunk("IDAT", 1), Chunk("IEND", 0), Chunk("tEXt", 1), Chunk("gAMA", 1), Chunk("acTL", 0),
     Chunk("XXXX", 0), [Chunk("iTXt", 1) EXCEPT !.keyword = "ccv3"], [Chunk("tEXt", 1) EXCEPT !.keyword = "note"]}
MCPngs ==
    {[chunks |-> <<Chunk("IHDR", 1)>> \o cs, decodes |-> TRUE] : cs \in UNION {[1..n -> MCChunks] : n \in 0..4}}
    \cup {[chunks |-> cs, decodes |-> d] :
            cs \in {<<a, b, c>> : a, b, c \in MCChunks}
                   \cup {<<Chunk("IHDR", 1), x, Chunk("IDAT", 1), Chunk("IEND", 0)>> :
                         x \in {[Chunk("tEXt", 1) EXCEPT !.crc = FALSE], [Chunk("tEXt", 1) EXCEPT !.keyword = ""], Chunk("tEXt", 9),
                               [Chunk("PLTE", 1) EXCEPT !.valid = FALSE], Chunk("gAMA", 1)}},
            d \in BOOLEAN}

-----------------------------------------------------------------------------
(* Chats: every short history, and three turns in a row; texts to cut.         *)

MCSystemPrompts == ("kai" :> <<"s">>)
StoredEntry(role, status, text) == [role |-> role, status |-> status, text |-> text]
MCQuestions == {StoredEntry("user", "complete", <<"a">>), StoredEntry("user", "complete", <<" ">>)}
MCReplies == {StoredEntry("assistant", "complete", <<"b">>), StoredEntry("assistant", "complete", <<"b", " ", "b">>),
              StoredEntry("assistant", "partial", <<"b">>)}
MCHistories ==
    UNION {[1..n -> MCQuestions \cup MCReplies] : n \in 0..4}
    \cup {<<u, a, v, b, w, c>> : u, v, w \in MCQuestions, a, b, c \in MCReplies}
MCChat(provider, message, history) ==
    [provider |-> provider, model |-> "m", padded |-> FALSE, character |-> "kai", message |-> message, history |-> history]
MCChats ==
    {MCChat("gemini", m, h) : m \in {<<"a">>, <<" ", "a", " ">>, <<"a", "a", "a">>}, h \in MCHistories}
    \cup {MCChat(p, m, h) : p \in Providers, m \in {<<"a">>, <<" ">>, <<"0">>, [i \in 1..4 |-> "a"]},
                            h \in UNION {[1..n -> MCQuestions \cup MCReplies] : n \in 0..2}}
    \cup {[MCChat(p, <<"a">>, <<>>) EXCEPT !.model = m, !.padded = d, !.character = c] :
            p \in Providers, m \in {"m", "", "a/b"}, d \in BOOLEAN, c \in {"kai", "nobody"}}
MCCuts == {[text |-> t, bytes |-> n] : t \in UNION {[1..k -> 1..4] : k \in 0..4}, n \in 0..6}

-----------------------------------------------------------------------------
AskInit == \/ Asked("preset", MCPresetEdits)
          \/ Asked("chunk", MCTexts)
          \/ Asked("prompt", MCPrompts)
          \/ Asked("request", MCPromptRequests)
          \/ Asked("import", MCImports)
          \/ \E p \in Providers : Asked("compile", MCProviderRequests(p))
          \/ Asked("call", MCCalls)
          \/ Asked("count", MCCounts)
          \/ Asked("decode", MCBodies)
          \/ Asked("archive", MCZips)
          \/ Asked("png", MCPngs)
          \/ Asked("chat", MCChats)
          \/ Asked("split", MCCuts)
AskNext == \/ Answers("preset", EditSaved)
          \/ Answers("chunk", SplitChunks)
          \/ Answers("prompt", AskPrompt)
          \/ Answers("request", AskRequest)
          \/ Answers("import", ImportPreset)
          \/ Answers("compile", CompileProviderRequest)
          \/ Answers("call", PrepareCall)
          \/ Answers("count", CountRequest)
          \/ Answers("decode", DecodeBody)
          \/ Answers("archive", ImportZip)
          \/ Answers("png", ValidatePng)
          \/ Answers("chat", BuildChatRequest)
          \/ Answers("split", SplitUtf8)
=============================================================================
