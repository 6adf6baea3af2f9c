---------------------------- MODULE ProviderCall ----------------------------
(* From a compiled request to an HTTP request (provider-runtime: endpoint.rs,  *)
(* client.rs, credential.rs) and to the token count asked for beforehand       *)
(* (token_count.rs).  A host is a name; DNS answers a set of addresses, of     *)
(* which "private" is one the runtime does not call.                           *)
EXTENDS ProviderCompile

CONSTANTS MaxCallBytes          \* max_request_body_bytes

-----------------------------------------------------------------------------
(* Endpoints.                                                                  *)

LocalHosts == {"", "localhost", "box.local", "x.internal", "dotted.", "1.2.3.4"}
UrlValid(u) ==
    /\ u.scheme = "https" /\ ~u.userinfo /\ ~u.fragment /\ u.port \in {0, 443}
    /\ u.host \notin LocalHosts
OverrideValid(u) == UrlValid(u) /\ u.path \notin {"", "/", "long"} /\ u.query \notin {"long", "api_key"}

\* The second table: what the compiled request of each provider has to be.
WireContract(r, c) ==
    /\ c.provider = r.provider
    /\ c.auth = CASE r.provider \in {"openai", "deepseek", "ollama"} -> "bearer"
                  [] r.provider = "anthropic" -> "x-api-key"
                  [] r.provider = "gemini" -> "x-goog-api-key"
                  [] r.provider = "vertex" -> "oauth"
    /\ c.protocol = IF r.provider = "ollama" THEN "ndjson" ELSE "sse"
    /\ c.headers = {"content-type"} \cup (IF r.provider = "anthropic" THEN {"anthropic-version"} ELSE {})
                   \cup {h \in {"request-type"} : r.provider = "vertex" /\ r.options.requestType # ""}
OfficialHost(r) == IF r.provider = "vertex" /\ r.options.location # "global" THEN r.options.location ELSE r.provider
OfficialPath(r) ==
    CASE r.provider = "gemini" -> <<"models", r.model>>
      [] r.provider = "vertex" -> <<"projects", r.options.project, r.options.location, r.model>>
      [] OTHER -> <<r.provider>>

\* Where to send it: the host, the addresses its name resolved to, and whether the
\* host is the user's own.
Resolve(q, c) ==
    LET own == q.selection.type = "override" IN
    CASE ~WireContract(q.request, c) -> [ok |-> FALSE, why |-> "compiled"]
      [] ~own /\ (c.origin # OfficialHost(q.request) \/ c.path # OfficialPath(q.request)) ->
           [ok |-> FALSE, why |-> "compiled"]
      [] own /\ ~OverrideValid(q.selection.url) -> [ok |-> FALSE, why |-> "endpoint"]
      [] q.dns \in {{"timeout"}, {"error"}} -> [ok |-> FALSE, why |-> "dns"]
      [] "private" \in q.dns \/ q.dns = {} -> [ok |-> FALSE, why |-> "address"]
      [] OTHER -> [ok |-> TRUE, own |-> own, pinned |-> q.dns,
                   host |-> IF own THEN q.selection.url.host ELSE OfficialHost(q.request)]

-----------------------------------------------------------------------------
(* Credentials: one belongs to a provider, or to one host of the user's.       *)

CredentialValid(k) == k.secret \notin {"", "long", "control"} /\ (k.type = "host" => k.host \notin {"", ".a", "a-"})

ScopeMatches(p, e, k) ==
    \/ ~e.own /\ k.type = "provider" /\ k.provider = p
    \/ e.own /\ k.type = "host" /\ k.host = e.host

BuildHttpRequest(r, c, e, k) ==
    IF ~ScopeMatches(r.provider, e, k) THEN [ok |-> FALSE, why |-> "scope"]
    ELSE IF Cardinality(DOMAIN c.body) > MaxCallBytes THEN [ok |-> FALSE, why |-> "size"]
    ELSE [ok |-> TRUE, host |-> e.host, pinned |-> e.pinned, own |-> e.own, credential |-> k,
          headers |-> c.headers \cup {"accept", "accept-encoding", c.auth}]

\* One call: compiled, resolved, authorised.
PrepareCall(q) ==
    LET c == CompileProviderRequest(q.request) IN
    IF ~c.ok \/ ~CredentialValid(q.credential) THEN [ok |-> FALSE, why |-> "request"]
    ELSE LET e == Resolve(q, c.v) IN
         IF ~e.ok THEN e ELSE BuildHttpRequest(q.request, c.v, e, q.credential)

-----------------------------------------------------------------------------
(* Counting tokens beforehand: the official endpoints of three providers only. *)

Counted(included, other, body) ==
    IF DOMAIN body \subseteq included \cup other THEN [k \in DOMAIN body \cap included |-> body[k]] ELSE <<>>
OpenAiCounted ==
    {"model", "input", "instructions", "parallel_tool_calls", "personality", "previous_response_id", "reasoning",
     "text", "tool_choice", "tools", "truncation"}
OpenAiUncounted ==
    {"stream", "store", "temperature", "max_output_tokens", "top_p", "prompt_cache_key", "prompt_cache_retention",
     "service_tier"}
VertexCounted == {"contents", "tools", "systemInstruction", "generationConfig"}
VertexUncounted == {"safetySettings", "serviceTier", "store", "toolConfig"}

CountBody(p, body) ==
    CASE p = "openai" -> Counted(OpenAiCounted, OpenAiUncounted, body)
      [] p = "gemini" -> body
      [] p = "vertex" -> IF "cachedContent" \in DOMAIN body THEN <<>>
                         ELSE Counted(VertexCounted, VertexUncounted, body)
      [] OTHER -> <<>>

\* What a count that came back is worth: a status, a type or a shape that is not
\* the reviewed one is no count, nor is a call that failed, ran out of time or was
\* cancelled (status 0, of which a cancelled one is not to be tried again).
CountAnswered(a) ==
    CASE a.status = 0 -> [ok |-> FALSE, retry |-> a.type # "cancelled"]
      [] a.status # 200 -> [ok |-> FALSE, retry |-> a.status \in {408, 425, 429, 500, 502, 503, 504}]
      [] a.type # "json" \/ a.size > MaxCallBytes \/ ~a.shape -> [ok |-> FALSE, retry |-> FALSE]
      [] OTHER -> [ok |-> TRUE, n |-> a.n]

CountRequest(x) ==
    LET q == x.call
        c == CompileProviderRequest(q.request)
    IN  IF ~c.ok \/ q.selection.type = "override" THEN Err
        ELSE LET body == CountBody(q.request.provider, c.v.body)
                 e == Resolve(q, c.v)
                 n == CountAnswered(x.answer)
             IN  IF body = <<>> \/ ~e.ok \/ Cardinality(DOMAIN body) > MaxCallBytes THEN Err
                 ELSE IF ~ScopeMatches(q.request.provider, e, q.credential) THEN Err
                 ELSE IF ~n.ok THEN Err
                 ELSE Ok([counted |-> body, sent |-> c.v.body, n |-> n.n])

-----------------------------------------------------------------------------
(* Properties.                                                                 *)

\* The two tables agree: whatever the compiler accepts, the endpoint check takes
\* for what it should be, so no valid request is refused as a bad compilation.
CompiledIsCallable == (Answered("call") /\ ~case.out.ok) => case.out.why # "compiled"

\* A credential only ever travels to where it belongs: a provider's to that
\* provider's official host and a host's to that host, at public addresses.
CredentialStaysHome ==
    (Answered("call") /\ case.out.ok) =>
        LET k == case.out.credential IN
        /\ IF k.type = "host" THEN case.out.host = k.host /\ case.out.own
           ELSE ~case.out.own /\ k.provider = case.in.request.provider
                /\ case.out.host = OfficialHost(case.in.request)
        /\ "private" \notin case.out.pinned /\ case.out.pinned # {}

\* A count covers all the input: every field of the body sent that is not a known
\* setting is in the body counted, unchanged, and an extra parameter of unknown
\* weight makes the count unavailable.
CountCoversInput ==
    (Answered("count") /\ case.out.ok) =>
        LET v == case.out.v IN
        /\ \A k \in DOMAIN v.sent \ (OpenAiUncounted \cup VertexUncounted) :
             k \in DOMAIN v.counted /\ v.counted[k] = v.sent[k]
        /\ v.n = case.in.answer.n /\ case.in.answer.status = 200 /\ case.in.answer.shape

\* A compiled provider request carries every setting and the whole conversation, can be
\* sent with the credential of its own profile only, and is counted in full.
RequestIsFaithful ==
    /\ NoSettingDropped
    /\ ConversationKept
    /\ ExtrasOnlyAdd
    /\ CompiledIsCallable
    /\ CredentialStaysHome
    /\ CountCoversInput

=============================================================================
