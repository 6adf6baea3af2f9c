------------------------------ MODULE Decoders ------------------------------
(* The stream decoders of the provider runtime (provider-runtime/src/decode):  *)
(* what each provider's frames become, frame by frame, as the consumers of the *)
(* body (runner.rs) call them until the first terminal frame or error.  A      *)
(* frame is the record of the fields its decoder looks at; a text is a token,  *)
(* "" where the provider sent an empty one and "?" where it sent none.         *)
EXTENDS Cases, SequencesExt

None == -9                      \* a counter the provider has not reported

\* A decoder before its first frame.
NoUsage == [input |-> None, output |-> None, total |-> None]
FreshDecoder == [usage |-> NoUsage, ended |-> FALSE, finish |-> "", id |-> ""]

MergeUsage(old, new) == [c \in DOMAIN old |-> IF new[c] # None THEN new[c] ELSE old[c]]

Failure == [ok |-> FALSE]
Step(d, events) == [ok |-> TRUE, d |-> d, events |-> events, terminal |-> FALSE]
EndStep(d, finish, events) ==
    [ok |-> TRUE, d |-> [d EXCEPT !.ended = TRUE, !.finish = finish], events |-> events, terminal |-> TRUE]

Said(kind, text) == [kind |-> kind, text |-> text]
IdValid(id) == id \notin {"", "bad id"}
\* Providers that repeat the id in every frame must repeat the same one.
IdChanged(d, id) == id # "?" /\ d.id # "" /\ id # d.id
IdEvents(d, id) == IF id # "?" /\ d.id = "" THEN <<Said("id", id)>> ELSE <<>>
IdRefused(d, id) == id # "?" /\ d.id = "" /\ ~IdValid(id)
TextEvents(kind, text) == IF text \in {"", "?"} THEN <<>> ELSE <<Said(kind, text)>>
UsageEvents(u) == IF u = NoUsage THEN <<>> ELSE <<Said("usage", "")>>

CommonReason(r) ==
    CASE r \in {"stop", "end_turn"} -> "stop"
      [] r \in {"length", "max_tokens"} -> "length"
      [] r \in {"safety", "refusal"} -> "filter"
      [] OTHER -> "other"
MapReason(r) == IF r = "" THEN "" ELSE CommonReason(r)

-----------------------------------------------------------------------------
(* The decoders.                                                               *)

OpenAiDecode(d, f) ==
    IF \/ d.ended \/ ~f.json \/ f.type \in {"?", "a_call", "failed", "error"}
       \/ f.name \notin {"", "message", f.type}
       \/ f.type \in {"text", "reasoning", "refusal"} /\ f.text = "?"
       \/ f.type = "created" /\ IdRefused(d, f.id)
    THEN Failure
    ELSE CASE f.type = "created" -> Step([d EXCEPT !.id = IF @ = "" /\ f.id # "?" THEN f.id ELSE @], IdEvents(d, f.id))
           [] f.type \in {"text", "reasoning", "refusal"} -> Step(d, <<Said(f.type, f.text)>>)
           [] f.type = "completed" -> EndStep([d EXCEPT !.usage = MergeUsage(@, f.usage)], "stop", <<>>)
           [] f.type = "incomplete" ->
                EndStep([d EXCEPT !.usage = MergeUsage(@, f.usage)],
                        IF f.finish = "" THEN "length" ELSE MapReason(f.finish), <<>>)
           [] OTHER -> Step(d, <<>>)

AnthropicDecode(d, f) ==
    IF \/ d.ended \/ ~f.json \/ f.type \in {"?", "tool_start", "tool_delta", "error"}
       \/ f.name \notin {"", f.type}
       \/ f.type \in {"text", "reasoning"} /\ f.text = "?"
       \/ f.type = "start" /\ IdRefused(d, f.id)
    THEN Failure
    ELSE CASE f.type = "start" ->
                LET u == [f.usage EXCEPT !.total = IF f.usage.input # None /\ f.usage.output # None
                                                   THEN f.usage.input + f.usage.output ELSE None]
                IN  Step([d EXCEPT !.id = IF @ = "" /\ f.id # "?" THEN f.id ELSE @, !.usage = MergeUsage(@, u)],
                         IdEvents(d, f.id))
           [] f.type \in {"text", "reasoning"} -> Step(d, <<Said(f.type, f.text)>>)
           [] f.type = "delta" ->
                Step([d EXCEPT !.finish = IF f.finish = "" THEN @ ELSE f.finish,
                               !.usage = MergeUsage(@, [NoUsage EXCEPT !.output = f.usage.output])], <<>>)
           [] f.type = "stop" -> EndStep(d, MapReason(d.finish), <<>>)
           [] OTHER -> Step(d, <<>>)

DeepSeekDecode(d, f) ==
    IF d.ended THEN Failure
    ELSE IF f.type = "[DONE]" THEN EndStep(d, MapReason(d.finish), <<>>)
    ELSE IF \/ ~f.json \/ f.type = "error" \/ f.choices \notin 0..1 \/ IdChanged(d, f.id) \/ IdRefused(d, f.id)
            \/ f.choices = 1 /\ (f.index # 0 \/ f.tool \/ f.finish = "tool_calls")
    THEN Failure
    ELSE LET u == MergeUsage(d.usage, f.usage)
             said == IF f.choices = 0 THEN <<>> ELSE TextEvents("reasoning", f.thought) \o TextEvents("text", f.text)
         IN  Step([d EXCEPT !.id = IF f.id = "?" THEN @ ELSE f.id, !.usage = u,
                            !.finish = IF f.choices = 0 \/ f.finish = "" THEN @ ELSE f.finish],
                  IdEvents(d, f.id) \o said \o UsageEvents(u))

\* The frame that gives the finish reason is the last one; its own usage counts.
GoogleDecode(d, f) ==
    IF \/ d.ended \/ ~f.json \/ f.type \in {"error", "blocked"} \/ f.choices > 1
       \/ IdChanged(d, f.id) \/ IdRefused(d, f.id)
       \/ f.choices = 1 /\ (f.index # 0 \/ f.tool \/ f.finish = "tool_calls")
    THEN Failure
    ELSE LET u == MergeUsage(d.usage, f.usage)
             said == IF f.choices = 0 THEN <<>> ELSE TextEvents("reasoning", f.thought) \o TextEvents("text", f.text)
             next == [d EXCEPT !.id = IF f.id = "?" THEN @ ELSE f.id, !.usage = u]
             events == IdEvents(d, f.id) \o said \o UsageEvents(u)
         IN  IF f.choices = 1 /\ f.finish # "" THEN EndStep(next, MapReason(f.finish), events)
             ELSE Step(next, events)

OllamaDecode(d, f) ==
    IF d.ended \/ ~f.json \/ f.type = "error" \/ f.tool \/ f.done \notin {"true", "false"} THEN Failure
    ELSE LET said == TextEvents("reasoning", f.thought) \o TextEvents("text", f.text)
             u == MergeUsage(d.usage, [input |-> f.usage.input, output |-> f.usage.output,
                                       total |-> IF f.usage.input # None /\ f.usage.output # None
                                                 THEN f.usage.input + f.usage.output ELSE None])
         IN  IF f.done = "true" THEN EndStep([d EXCEPT !.usage = u], MapReason(f.finish), said \o UsageEvents(u))
             ELSE Step(d, said)

DecodeFrame(p, d, f) ==
    CASE p = "openai" -> OpenAiDecode(d, f)
      [] p = "anthropic" -> AnthropicDecode(d, f)
      [] p = "deepseek" -> DeepSeekDecode(d, f)
      [] p = "ollama" -> OllamaDecode(d, f)
      [] OTHER -> GoogleDecode(d, f)

\* A whole body: frames after the terminal one, or after an error, are not decoded,
\* and a body that ends before a terminal frame is an error.
\* Mutant: the end of the body is taken for the end of the answer.
DecodeTail(p, run) == [run EXCEPT !.state = IF @ = "open" THEN "completed" ELSE @]
FinishBody(p, run) == [run EXCEPT !.state = IF @ = "open" THEN "failed" ELSE @]

DecodeBody(q) ==
    LET More(run, f) ==
            IF run.state # "open" THEN run
            ELSE LET step == DecodeFrame(q.provider, run.d, f) IN
                 IF ~step.ok THEN [run EXCEPT !.state = "failed"]
                 ELSE [state |-> IF step.terminal THEN "completed" ELSE "open", d |-> step.d,
                       events |-> run.events \o step.events, used |-> run.used + 1]
        start == [state |-> "open", d |-> FreshDecoder, events |-> <<>>, used |-> 0]
    IN  Ok(FinishBody(q.provider, FoldLeft(More, start, q.frames)))

-----------------------------------------------------------------------------
(* Properties.                                                                 *)

Completed == Answered("decode") /\ case.out.v.state = "completed"
SpokenBy(p, f) ==
    IF p \in {"openai", "anthropic"} THEN IF f.type = "text" THEN <<f.text>> ELSE <<>>
    ELSE IF f.text \in {"", "?"} \/ (p # "ollama" /\ f.choices = 0) THEN <<>> ELSE <<f.text>>
Used(run) == SubSeq(case.in.frames, 1, run.used)

\* The text given to the chat is what the provider's frames said, all of it and in
\* order, up to the frame that ended or broke the answer; the id comes once.
TextIsWhatWasSaid ==
    Answered("decode") =>
        LET run == case.out.v
            texts == SelectSeq(run.events, LAMBDA e : e.kind = "text")
        IN  /\ [i \in DOMAIN texts |-> texts[i].text]
                 = FlattenSeq([i \in 1..run.used |-> SpokenBy(case.in.provider, case.in.frames[i])])
            /\ Cardinality({i \in DOMAIN run.events : run.events[i].kind = "id"}) <= 1

\* An answer is complete only when the provider said so: the last frame read is
\* one that ends an answer, never just the end of the body.
CompletionIsSaid ==
    Completed =>
        LET f == Last(Used(case.out.v)) IN
        CASE case.in.provider \in {"openai", "anthropic", "deepseek"} ->
               f.type \in {"completed", "incomplete", "stop", "[DONE]"}
          [] case.in.provider = "ollama" -> f.done = "true"
          [] OTHER -> f.finish # ""

\* A completed answer's input and output counts are the last the provider gave of
\* each, those in the terminal frame included.
UsageIsLatest ==
    Completed =>
        \A c \in {"input", "output"} :
            LET told == SelectSeq(Used(case.out.v), LAMBDA f : f.usage[c] # None)
                counted == SelectSeq(told, LAMBDA f :
                             CASE case.in.provider = "openai" -> f.type \in {"completed", "incomplete"}
                               [] case.in.provider = "anthropic" -> f.type = "start" \/ (f.type = "delta" /\ c = "output")
                               [] case.in.provider = "ollama" -> f.done = "true"
                               [] OTHER -> f.type # "[DONE]")
            IN  case.out.v.d.usage[c] = IF counted = <<>> THEN None ELSE Last(counted).usage[c]

\* What a decoder passes on is what the provider said: its text, its end and its latest usage.
ReplyIsFaithful ==
  TextIsWhatWasSaid /\ CompletionIsSaid /\ UsageIsLatest

=============================================================================
