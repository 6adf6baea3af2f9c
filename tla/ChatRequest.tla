----------------------------- MODULE ChatRequest -----------------------------
(* What start_provider_stream asks the provider for, and how an answer is cut  *)
(* for the wire: build_chat_request, select_completed_history and split_utf8   *)
(* of apps/desktop-mobile/src-tauri/src/provider_stream.rs.                    *)
(* A message is a sequence of one-byte pieces, " " being white space; a text   *)
(* to cut is a sequence of characters, each given by its width in bytes.       *)
EXTENDS ProviderCompile, FiniteSetsExt

CONSTANTS MaxInput,         \* CHAT_MAX_INPUT_BYTES
          MaxHistory,       \* CHAT_HISTORY_MAX_MESSAGES
          MaxContext,       \* CHAT_CONTEXT_MAX_UTF8_BYTES
          SystemPrompts     \* the prompt of each character the registry knows

Space(t) == {i \in DOMAIN t : t[i] = " "}
Trim(t) ==
    LET solid == DOMAIN t \ Space(t)
    IN  IF solid = {} THEN <<>> ELSE SubSeq(t, Min(solid), Max(solid))

-----------------------------------------------------------------------------
(* select_completed_history.                                                   *)

IsTurn(h, i) == h[i].role = "user" /\ h[i + 1].role = "assistant"
IsClosed(h, i) ==
    \A j \in {i, i + 1} : h[j].status = "complete" /\ Trim(h[j].text) # <<>>
PairBytes(h, i) == Len(h[i].text) + Len(h[i + 1].text)

\* Mutant: a turn that does not fit makes room for an older one.
SkipLarge(h, budget, st) ==
    LET i == st.cursor - 1 IN
    IF ~IsTurn(h, i) THEN [st EXCEPT !.cursor = @ - 1]
    ELSE IF ~IsClosed(h, i) \/ st.bytes + PairBytes(h, i) > budget THEN [st EXCEPT !.cursor = @ - 2]
    ELSE [st EXCEPT !.cursor = @ - 2, !.kept = <<i>> \o @, !.bytes = @ + PairBytes(h, i)]

\* One round of the loop, at the last two messages before the cursor: anything
\* but a turn moves it by one, an open turn is passed over, one that is too
\* large ends the walk.
WalkBack(h, budget, st) ==
    LET i == st.cursor - 1 IN
    IF ~IsTurn(h, i) THEN [st EXCEPT !.cursor = @ - 1]
    ELSE IF ~IsClosed(h, i) THEN [st EXCEPT !.cursor = @ - 2]
    ELSE IF st.bytes + PairBytes(h, i) > budget THEN [st EXCEPT !.cursor = 0]
    ELSE [st EXCEPT !.cursor = @ - 2, !.kept = <<i>> \o @, !.bytes = @ + PairBytes(h, i)]

SelectCompletedHistory(h, budget) ==
    LET Round(st, n) == IF st.cursor < 2 \/ Len(st.kept) >= MaxHistory \div 2 THEN st
                        ELSE WalkBack(h, budget, st)
        end == FoldLeft(Round, [cursor |-> Len(h), kept |-> <<>>, bytes |-> 0], [n \in DOMAIN h |-> n])
        AsSent(i) == <<[role |-> "user", text |-> h[i].text], [role |-> "assistant", text |-> h[i + 1].text]>>
    IN  FlattenSeq([k \in DOMAIN end.kept |-> AsSent(end.kept[k])])

-----------------------------------------------------------------------------
(* build_chat_request.                                                         *)

DefaultThinking == [set |-> FALSE, level |-> "", budget |-> Missing, include |-> FALSE]
DefaultOptions ==
    [openai |-> [effort |-> "", summary |-> "", cacheKey |-> "none", tier |-> ""],
     anthropic |-> [thinking |-> "", budget |-> 0, effort |-> "", ttl |-> "", tier |-> ""],
     deepseek |-> [thinking |-> "", effort |-> ""], ollama |-> [thinking |-> ""],
     gemini |-> [thinking |-> DefaultThinking, safety |-> <<>>, tier |-> "", cached |-> <<>>]]
ChatGeneration ==
    [temperature |-> Missing, maxOutput |-> 5, topP |-> Missing, topK |-> Missing, presence |-> Missing,
     frequency |-> Missing, stop |-> <<>>, seed |-> Missing, format |-> "text"]

Refuse(why) == [ok |-> FALSE, why |-> why]

\* The current input comes last and once: the history was read before begin_turn.
Conversation(q, content, budget) ==
    <<[role |-> "system", text |-> SystemPrompts[q.character]]>>
    \o SelectCompletedHistory(q.history, budget) \o <<[role |-> "user", text |-> content]>>

HistoryBudget(q, content) == MaxContext - Len(SystemPrompts[q.character]) - Len(content)

BuildChatRequest(q) ==
    LET content == Trim(q.message)
        budget == HistoryBudget(q, content)
        request == [provider |-> q.provider, optionsOf |-> q.provider, model |-> q.model, policy |-> "preserve",
                    messages |-> Conversation(q, content, budget), generation |-> ChatGeneration,
                    options |-> DefaultOptions[q.provider], tokenizer |-> "none", extras |-> <<>>]
    IN  IF q.padded THEN Refuse("profile")
        ELSE IF content = <<>> \/ Len(content) > MaxInput \/ (\E i \in DOMAIN content : content[i] = "0")
        THEN Refuse("message")
        ELSE IF q.character \notin DOMAIN SystemPrompts THEN Refuse("character")
        ELSE IF q.provider = "vertex" THEN Refuse("vertex")
        ELSE IF budget < 0 THEN Refuse("message")
        ELSE IF ~CompileProviderRequest(request).ok THEN Refuse("profile")
        ELSE Ok(request)

-----------------------------------------------------------------------------
(* Cutting text at character boundaries.                                       *)

WidthOf(t) == FoldLeft(LAMBDA n, w : n + w, 0, t)
\* The longest prefix of characters within so many bytes.
Fitting(t, bytes) == Max({k \in 0..Len(t) : WidthOf(SubSeq(t, 1, k)) <= bytes})

\* At least one character, so that the iterator makes progress.
FragmentLength(t, bytes) == IF Fitting(t, bytes) = 0 THEN 1 ELSE Fitting(t, bytes)

SplitUtf8(q) ==
    LET bytes == IF q.bytes = 0 THEN 1 ELSE q.bytes
        Cut(st, n) == IF st.rest = <<>> THEN st
                      ELSE LET k == FragmentLength(st.rest, bytes)
                           IN  [out |-> Append(st.out, SubSeq(st.rest, 1, k)),
                                rest |-> SubSeq(st.rest, k + 1, Len(st.rest))]
    IN  Ok(FoldLeft(Cut, [out |-> <<>>, rest |-> q.text], [n \in DOMAIN q.text |-> n]).out)

-----------------------------------------------------------------------------
(* Properties.                                                                 *)

\* The turns of a history that may be sent, and what a suffix of them weighs.
ClosedTurns(h) == {i \in 1..(Len(h) - 1) : IsTurn(h, i) /\ IsClosed(h, i)}
Weight(h, turns) == MapThenSumSet(LAMBDA i : PairBytes(h, i), turns)
NewestTurns(h, n) == {i \in ClosedTurns(h) : Cardinality({j \in ClosedTurns(h) : j > i}) < n}

\* A request holds the system prompt, the newest closed turns, each whole and in
\* order, and the new message; as many turns as the count and the byte budget
\* admit without leaving one out in between.
NewestTurnsKept ==
    (Answered("chat") /\ case.out.ok) =>
        LET ms == case.out.v.messages
            h == case.in.history
            past == SubSeq(ms, 2, Len(ms) - 1)
            n == Len(past) \div 2
            Fits(k) == /\ 2 * k <= MaxHistory
                       /\ Weight(h, NewestTurns(h, k)) + Len(Head(ms).text) + Len(Last(ms).text) <= MaxContext
        IN  /\ Head(ms).role = "system" /\ Last(ms).role = "user" /\ Len(past) = 2 * n
            /\ \A k \in 1..n :
                 \E i \in NewestTurns(h, n) :
                    /\ Cardinality({j \in NewestTurns(h, n) : j < i}) = k - 1
                    /\ past[2 * k - 1] = [role |-> "user", text |-> h[i].text]
                    /\ past[2 * k] = [role |-> "assistant", text |-> h[i + 1].text]
            /\ Fits(n) /\ (n < Cardinality(ClosedTurns(h)) => ~Fits(n + 1))

\* "provider or model selection is invalid" is said of the selection only: with
\* the same profile an empty history and a one-letter message are refused too.
ProfileErrorIsAboutProfile ==
    (Answered("chat") /\ ~case.out.ok) =>
        (case.out.why = "profile" =>
            ~BuildChatRequest([case.in EXCEPT !.history = <<>>, !.message = <<"a">>]).ok)

\* The fragments are the text, none is empty, none is over the limit unless it
\* is one character, and none could have taken the next character too.
FragmentsRejoin ==
    Answered("split") =>
        LET fs == case.out.v
            limit == IF case.in.bytes = 0 THEN 1 ELSE case.in.bytes
        IN  /\ FlattenSeq(fs) = case.in.text
            /\ \A k \in DOMAIN fs : Len(fs[k]) = 1 \/ (fs[k] # <<>> /\ WidthOf(fs[k]) <= limit)
            /\ \A k \in 1..(Len(fs) - 1) : WidthOf(fs[k]) + Head(fs[k + 1]) > limit

\* The newest whole turns within the budget are sent, an error blames the profile only when
\* it is at fault, and fragments rejoin to the text.
HistoryIsFaithful ==
  NewestTurnsKept /\ ProfileErrorIsAboutProfile /\ FragmentsRejoin

=============================================================================
