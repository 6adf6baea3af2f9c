------------------------------- MODULE Memory -------------------------------
(* Long-term memory of a chat (crates/lorepia-memory): summary jobs over the  *)
(* chat's messages, the artifacts they produce, embedding evidence, selection *)
(* under a token budget, and the prompt text made from a selection.           *)
(* Every step happens some time after the one that prepared it, while the     *)
(* chat is edited, deleted from and compacted, and the preset is revised.     *)
(* A message's text is its version; a summary's text is what it summarises.   *)
EXTENDS Integers, Sequences, FiniteSets, SequencesExt, FiniteSetsExt

CONSTANTS
    MemMessages,    \* the chat at first: a sequence of [id, seq, role, ver]
    MemPresets,     \* the presets a session is bound to, in order of revision
    MemScore,       \* [artifact id -> similarity], the external vectors
    MemRandom,      \* [artifact id -> rank], the external hash order
    MemReserve,     \* [artifact id -> tokens reserved for it]
    MemBudgets,     \* the [context, output, used] a caller computes for a turn
    Scale,          \* BASIS_POINTS_SCALE
    MaxArtifacts,   \* bound on artifacts made
    MaxJobs,        \* bound on summary jobs and retrievals under way at a time
    MaxMemEdits,    \* bound on changes to the chat, the preset and the prompt
    MaxPlanMessages \* MAX_SOURCE_BATCH_BYTES, in messages

VARIABLE mem
memVars == <<mem>>

NoPlan == [gen |-> 0]
NoSelection == [gen |-> 0]

\* The records a key is given for, in the order of the key, ties by id.
SortedBy(key) ==
    LET Before(x) == {y \in DOMAIN key : key[y] < key[x] \/ (key[y] = key[x] /\ y.id < x.id)}
    IN  [n \in 1..Cardinality(DOMAIN key) |->
            CHOOSE x \in DOMAIN key : Cardinality(Before(x)) = n - 1]

Preset == MemPresets[mem.bind.preset]
InScope(r) == r.gen = mem.bind.gen /\ r.preset = mem.bind.preset

Retrieving == mem.plan # NoPlan \/ mem.sel # NoSelection
HasRoom == Cardinality(mem.jobs) + (IF Retrieving THEN 1 ELSE 0) < MaxJobs

JobBound(job) == InScope(job)
PlanBound(plan) == InScope(plan)
PromptPinned == mem.prompt = mem.bind.prompt

-----------------------------------------------------------------------------
(* Token budgets.                                                             *)

ScaleTokens(tokens, points) == (tokens * points) \div Scale

\* Shares by floor, the rest one each to the largest remainders.
Apportion(total, weights) ==
    LET floor == [i \in 1..3 |-> (total * weights[i]) \div Scale]
        rest  == [i \in 1..3 |-> (total * weights[i]) % Scale]
        left  == total - (floor[1] + floor[2] + floor[3])
        rank  == [i \in 1..3 |-> Cardinality({j \in 1..3 : rest[j] > rest[i] \/ (rest[j] = rest[i] /\ j < i)})]
    IN  [i \in 1..3 |-> floor[i] + (IF rank[i] < left THEN 1 ELSE 0)]

Budget(preset, b) ==
    LET capacity == b.context - b.output
        total    == Min({ScaleTokens(capacity, preset.memoryBudget), capacity - b.used})
        detail   == ScaleTokens(total, preset.detailBudget)
        shares   == IF preset.hybrid THEN Apportion(detail, preset.mix) ELSE <<detail, 0, 0>>
    IN  [total |-> total, consolidated |-> total - detail,
         recent |-> shares[1], similar |-> shares[2], random |-> shares[3]]

-----------------------------------------------------------------------------
(* Summary jobs.                                                              *)

Slice(first, last) == SelectSeq(mem.messages, LAMBDA m : m.seq \in first..last)

Batches(ms, size) ==
    [n \in 1..((Len(ms) + size - 1) \div size) |->
        SubSeq(ms, (n - 1) * size + 1, Min({n * size, Len(ms)}))]

\* The jobs of plan_initial_summary_jobs: a batch keeps its whole range and
\* snapshot even when the filter leaves out some or all of its messages.
PlannedJobs(ms) ==
    LET batches == Batches(ms, Preset.perSummary)
    IN  [n \in DOMAIN batches |->
            [kind |-> "initial", gen |-> mem.bind.gen, preset |-> mem.bind.preset,
             first |-> batches[n][1].seq, last |-> Last(batches[n]).seq, pins |-> batches[n],
             source |-> SelectSeq(batches[n], LAMBDA m : ~Preset.skipUser \/ m.role # "user")]]

Eligible(a) ==
    CASE a.validity = "attached"  -> TRUE
      [] a.validity = "compacted" -> Preset.preserve
      [] OTHER                    -> FALSE

Leaves == {a \in mem.arts : InScope(a) /\ a.kind = "leaf" /\ Eligible(a)}

StartJob(job) ==
    /\ job \notin mem.jobs /\ HasRoom /\ mem.nextId + Cardinality(mem.jobs) <= MaxArtifacts
    /\ mem' = [mem EXCEPT !.jobs = @ \cup {job}, !.told = <<>>]

\* plan_initial_summary_jobs, on any stretch of the chat; the host runs one of the jobs.
PlanInitial(first, last) ==
    /\ Slice(first, last) # <<>>
    /\ Len(Slice(first, last)) <= MaxPlanMessages
    /\ \E job \in ToSet(PlannedJobs(Slice(first, last))) : StartJob(job)

Resummarisable(s) ==
    /\ s # <<>>
    /\ \A i \in DOMAIN s : InScope(s[i]) /\ Eligible(s[i])
    /\ \A i \in 1..(Len(s) - 1) : s[i].last < s[i + 1].first

PlanResummary(S) ==
    LET s == SortedBy([a \in S |-> a.first]) IN
    /\ Resummarisable(s)
    /\ StartJob([kind |-> "resummary", gen |-> mem.bind.gen, preset |-> mem.bind.preset,
                 first |-> s[1].first, last |-> Last(s).last, pins |-> s, source |-> s])

\* Mutant: the result is accepted without looking at the source again.
SourceTrusted(job) == TRUE

\* verify_authoritative_source: the slice as it is now is the pinned one.
SourceUnchanged(job) ==
    IF job.kind = "initial" THEN Slice(job.first, job.last) = job.pins
    ELSE /\ \A i \in DOMAIN job.pins : job.pins[i] \in mem.arts
         /\ \A i \in DOMAIN job.pins : InScope(job.pins[i])

\* The text of a summary: the messages it tells, each with the leaf that told it first.
Text(job, id) ==
    IF job.kind = "initial"
    THEN [i \in DOMAIN job.source |-> [leaf |-> id, id |-> job.source[i].id, ver |-> job.source[i].ver]]
    ELSE FoldLeft(LAMBDA acc, a : acc \o a.text, <<>>, job.source)

\* SummaryArtifact::new: a leaf covers itself, a consolidated summary every
\* leaf its sources cover.
NewArtifact(job, id) ==
    [id |-> id, rev |-> 1, gen |-> job.gen, preset |-> job.preset,
     kind |-> IF job.kind = "initial" THEN "leaf" ELSE "consolidated",
     first |-> job.first, last |-> job.last, text |-> Text(job, id), validity |-> "attached",
     covers |-> IF job.kind = "initial" THEN {id} ELSE UNION {a.covers : a \in ToSet(job.source)}]

\* process_summary_output and SummaryArtifact::new: the helper model's answer
\* arrives, is checked against the session and the source, and becomes an
\* artifact, or is dropped.
AcceptSummary(job) ==
    LET ok == /\ JobBound(job)
              /\ SourceUnchanged(job)
              /\ PromptPinned
              /\ job.source # <<>>
    IN  mem' = IF ok THEN [mem EXCEPT !.jobs = @ \ {job}, !.arts = @ \cup {NewArtifact(job, mem.nextId)},
                                      !.nextId = @ + 1, !.told = <<>>]
               ELSE [mem EXCEPT !.jobs = @ \ {job}, !.told = <<>>]

-----------------------------------------------------------------------------
(* The chat changes.  The host marks every artifact made from a changed       *)
(* message through the artifact's own operations.                             *)

Invalidated(a, why) == [a EXCEPT !.rev = @ + 1, !.validity = why, !.text = <<>>]
Compacted(a) == IF a.validity = "attached" THEN [a EXCEPT !.validity = "compacted"] ELSE a
Touches(a, seq) == seq \in a.first..a.last

Change(seq, why) ==
    {IF Touches(a, seq) THEN Invalidated(a, why) ELSE a : a \in mem.arts}

EditMessage(i) ==
    /\ mem.edits < MaxMemEdits
    /\ mem' = [mem EXCEPT !.edits = @ + 1, !.messages[i].ver = @ + 1, !.told = <<>>,
                          !.truth[mem.messages[i].id] = @ + 1,
                          !.arts = Change(mem.messages[i].seq, "edited")]

DeleteMessage(i) ==
    /\ mem.edits < MaxMemEdits
    /\ mem' = [mem EXCEPT !.edits = @ + 1, !.messages = RemoveAt(@, i), !.told = <<>>,
                          !.truth[mem.messages[i].id] = 0,
                          !.arts = Change(mem.messages[i].seq, "deleted")]

\* The oldest message leaves the chat although nothing about it was wrong.
CompactMessage ==
    /\ mem.edits < MaxMemEdits /\ mem.messages # <<>>
    /\ LET seq == Head(mem.messages).seq
       IN  mem' = [mem EXCEPT !.edits = @ + 1, !.messages = Tail(@), !.told = <<>>,
                              !.arts = {IF Touches(a, seq) THEN Compacted(a) ELSE a : a \in @}]

\* A revised preset starts a new generation; its prompt is pinned with it.
Rebind ==
    /\ mem.bind.preset < Len(MemPresets) /\ mem.edits < MaxMemEdits
    /\ mem' = [mem EXCEPT !.edits = @ + 1, !.bind = [gen |-> @.gen + 1, preset |-> @.preset + 1, prompt |-> mem.prompt],
                          !.told = <<>>]

\* The prompt preset's content is edited under a session that pinned it.
EditPrompt ==
    /\ mem.edits < MaxMemEdits
    /\ mem' = [mem EXCEPT !.edits = @ + 1, !.prompt = @ + 1, !.told = <<>>]

-----------------------------------------------------------------------------
(* Retrieval.                                                                 *)

\* build_embedding_query: the newest messages of the scope, in chat order.
BuildQuery ==
    LET scope == SelectSeq(mem.messages, LAMBDA m : ~Preset.assistantOnly \/ m.role = "assistant")
        query == SubSeq(scope, Max({1, Len(scope) - Preset.queryCount + 1}), Len(scope))
    IN  /\ Preset.hybrid /\ query # <<>> /\ (Retrieving \/ HasRoom)
        /\ mem.plan # NoPlan => ~(PlanBound(mem.plan) /\ mem.plan.query = query)
        /\ mem' = [mem EXCEPT !.told = <<>>, !.plan = [gen |-> mem.bind.gen, preset |-> mem.bind.preset, query |-> query]]

\* verify_authoritative_messages, on the chat's messages of the same ids.
QueryUnchanged ==
    /\ mem.plan # NoPlan /\ PlanBound(mem.plan)
    /\ \A i \in DOMAIN mem.plan.query : mem.plan.query[i] \in ToSet(mem.messages)

\* EmbeddingArtifact::new and EmbeddingMatch::new for every usable leaf.
Embed ==
    /\ Preset.hybrid /\ QueryUnchanged /\ Leaves # {}
    /\ mem' = [mem EXCEPT !.told = <<>>, !.evidence =
                {[id |-> a.id, rev |-> a.rev, gen |-> mem.bind.gen, preset |-> mem.bind.preset,
                  query |-> mem.plan.query, score |-> MemScore[a.id]] : a \in Leaves}]

QueryDigest == IF Preset.hybrid THEN mem.plan.query ELSE <<>>

Evidence(a) == {e \in mem.evidence : e.id = a.id}

\* MemoryCandidate::new and verify_candidate_scope.
EvidenceValid(a) ==
    \A e \in Evidence(a) :
        /\ e.rev = a.rev /\ InScope(e)
        /\ Preset.hybrid /\ e.query = QueryDigest

\* Take, in rank order, what is not yet taken and still fits the bucket.
SelectBucket(ranked, tokens, taken) ==
    FoldLeft(LAMBDA acc, a :
        IF a.id \in acc.ids \/ MemReserve[a.id] > acc.left THEN acc
        ELSE [ids |-> acc.ids \cup {a.id}, left |-> acc.left - MemReserve[a.id]],
        [ids |-> taken, left |-> tokens], ranked).ids

Uncovered(leaves, top) == {a \in leaves : top = {} \/ a.id \notin (CHOOSE t \in top : TRUE).covers}

\* select_memories.
SelectedIds(b) ==
    LET budget == Budget(Preset, b)
        usable == {a \in mem.arts : InScope(a) /\ Eligible(a)}
        newest(S) == SortedBy([a \in S |-> -a.last])
        fits   == {a \in usable : a.kind = "consolidated" /\ MemReserve[a.id] <= budget.consolidated}
        top    == IF fits = {} THEN {} ELSE {newest(fits)[1]}
        leaves == Uncovered({a \in usable : a.kind = "leaf"}, top)
        recent == SelectBucket(newest(leaves), budget.recent, {a.id : a \in top})
        score(a) == (CHOOSE e \in Evidence(a) : TRUE).score
        scored == \A a \in leaves : Evidence(a) # {}
        similar == IF Preset.hybrid /\ budget.similar > 0 /\ scored
                   THEN SelectBucket(SortedBy([a \in leaves |-> -score(a)]), budget.similar, recent)
                   ELSE recent
        random == IF Preset.hybrid
                  THEN SelectBucket(SortedBy([a \in leaves |-> MemRandom[a.id]]), budget.random, similar)
                  ELSE similar
    IN  [ok |-> Preset.hybrid /\ budget.similar > 0 => scored,
         ids |-> random]

SelectMemories(b) ==
    LET arts == {a \in mem.arts : InScope(a)}
        chosen == {[id |-> a.id, rev |-> a.rev, first |-> a.first, last |-> a.last] :
                     a \in {x \in arts : x.id \in SelectedIds(b).ids}}
    IN  /\ mem.sel = NoSelection /\ (Retrieving \/ HasRoom)
        /\ Preset.hybrid => QueryUnchanged
        /\ \A a \in arts : EvidenceValid(a)
        /\ SelectedIds(b).ok
        /\ mem' = [mem EXCEPT !.evidence = {}, !.told = <<>>, !.sel =
             [gen |-> mem.bind.gen, preset |-> mem.bind.preset, budget |-> b, query |-> QueryDigest,
              chosen |-> SortedBy([a \in chosen |-> a.first * (Len(MemMessages) + 1) + a.last])]]

Current(c) ==
    \E a \in mem.arts : /\ a.id = c.id /\ a.rev = c.rev /\ InScope(a) /\ Eligible(a)
                        /\ a.first = c.first /\ a.last = c.last

\* materialize: the turn's selection is applied to the artifacts as they are
\* now, or not at all.
Materialize ==
    /\ mem.sel # NoSelection
    /\ LET ok == /\ InScope(mem.sel)
                 /\ Preset.hybrid => QueryUnchanged
                 /\ mem.sel.query = QueryDigest
                 /\ \A i \in DOMAIN mem.sel.chosen : Current(mem.sel.chosen[i])
       IN  mem' = [mem EXCEPT !.sel = NoSelection, !.plan = NoPlan, !.told =
                    IF ok THEN [i \in DOMAIN mem.sel.chosen |->
                                  CHOOSE a \in mem.arts : a.id = mem.sel.chosen[i].id]
                    ELSE <<>>]

-----------------------------------------------------------------------------
MemInit ==
  \E preset \in DOMAIN MemPresets :
    mem = [bind |-> [gen |-> 1, preset |-> preset, prompt |-> 1], prompt |-> 1,
           messages |-> MemMessages, edits |-> 0,
           truth |-> [id \in {m.id : m \in ToSet(MemMessages)} |->
                        (CHOOSE m \in ToSet(MemMessages) : m.id = id).ver],
           arts |-> {}, nextId |-> 1, jobs |-> {}, plan |-> NoPlan, evidence |-> {},
           sel |-> NoSelection, told |-> <<>>]

MemNext ==
    \/ \E first, last \in {m.seq : m \in ToSet(mem.messages)} : PlanInitial(first, last)
    \/ \E S \in SUBSET mem.arts : PlanResummary(S)
    \/ \E job \in mem.jobs : AcceptSummary(job)
    \/ \E i \in DOMAIN mem.messages : EditMessage(i)
    \/ \E i \in DOMAIN mem.messages : DeleteMessage(i)
    \/ CompactMessage
    \/ Rebind
    \/ EditPrompt
    \/ BuildQuery
    \/ Embed
    \/ \E b \in MemBudgets : SelectMemories(b)
    \/ Materialize

-----------------------------------------------------------------------------
(* Properties.                                                                *)

Told == FoldLeft(LAMBDA acc, a : acc \o a.text, <<>>, mem.told)

\* Nothing edited or deleted is told: whatever changed between planning a
\* summary, accepting it, selecting it and applying it, the memory text put in
\* a prompt holds each message as it is now, or as it was when it was compacted.
MemoryIsTrue == \A i \in DOMAIN Told : mem.truth[Told[i].id] = Told[i].ver

\* A leaf is never told beside the consolidated summary that covers it, however often
\* that was summarised again.  Summaries of separate stretches are told in chat order,
\* each message once; a host that plans overlapping stretches, or consolidates leaves
\* with a gap between them, may have one stretch told inside another.
ToldOnceInOrder ==
    /\ \A i, j \in DOMAIN Told : i # j => Told[i].leaf # Told[j].leaf \/ Told[i].id # Told[j].id
    /\ (\A i, j \in DOMAIN mem.told : i < j => mem.told[i].last < mem.told[j].first
                                              \/ mem.told[j].last < mem.told[i].first)
         => \A i, j \in DOMAIN Told : i < j => Told[i].id < Told[j].id

\* A selection never reserves more than the memory's share of the context, and
\* never more than what the rest of the request leaves free, so the closing
\* budget check of select_memories cannot be the one that fails.
SelectionFitsBudget ==
    mem.sel # NoSelection =>
        LET b == mem.sel.budget
            tokens == MapThenSumSet(LAMBDA i : MemReserve[mem.sel.chosen[i].id], DOMAIN mem.sel.chosen)
            preset == MemPresets[mem.sel.preset]
        IN  /\ tokens <= Budget(preset, b).total
            /\ tokens + b.used + b.output <= b.context

\* What memory tells the model is true of the chat as it stands, no summary twice, in
\* order and within the budgets, whatever was edited while summaries were being made.
MemoryIsSound ==
    MemoryIsTrue /\ ToldOnceInOrder /\ SelectionFitsBudget

=============================================================================
