------------------------------ MODULE MCEngines ------------------------------
(* The pure algorithms and the engines behind the chat, one at a time: they   *)
(* share no state, so a behaviour is that of the one that "which" names.      *)
EXTENDS MCAlgorithms, Lorebook, Memory, Persona, StorePages, HostBroker, TLC

CONSTANT Engines   \* the engines to check

VARIABLE which

-----------------------------------------------------------------------------
(* Lorebook instance.                                                         *)

MCLoreLower == "A" :> "a"
MCLoreBucket == [p \in {1, 2} \X (1..4) |-> IF p[1] = p[2] THEN 2500 ELSE 7500]

Key(text, sensitive) == [regex |-> FALSE, text |-> text, sensitive |-> sensitive]
Pattern(tok, ci, builds) == [regex |-> TRUE, text |-> <<tok>>, ci |-> ci, builds |-> builds]

Entry(id, kind, prim, mode, sec) ==
    [id |-> id, kind |-> kind, primary |-> prim, mode |-> mode, secondary |-> sec,
     points |-> 5000, enabled |-> TRUE, bytes |-> 2, tokens |-> 1, priority |-> 0,
     source |-> "global", order |-> 0]

LoreE1 == [Entry(1, "selective", <<Key(<<"A", " ", "b">>, FALSE), Key(<<"c">>, TRUE)>>,
                 "all", <<Key(<<"c">>, TRUE), Pattern("a", TRUE, TRUE)>>) EXCEPT !.tokens = 2]
LoreE2 == [Entry(2, "constant", <<>>, "none", <<>>) EXCEPT !.source = "chat", !.tokens = 2]
LoreE3 == [Entry(3, "probability", <<Key(<<"A">>, TRUE)>>, "any", <<Key(<<"a">>, TRUE), Key(<<"c">>, FALSE)>>)
              EXCEPT !.priority = 1]
LoreE4 == [Entry(4, "probability", <<>>, "none", <<>>) EXCEPT !.order = -1, !.bytes = 3]
LoreE5 == Entry(5, "selective", <<Pattern("c", FALSE, TRUE), Key(<<"b">>, FALSE)>>, "none", <<>>)

MCLoreCatalogs ==
    {[revision |-> 1, entries |-> <<LoreE1, LoreE2, LoreE3>>],
     [revision |-> 1, entries |-> <<LoreE4, LoreE3, LoreE5>>],
     [revision |-> 2, entries |-> <<[LoreE2 EXCEPT !.enabled = FALSE], LoreE5, LoreE1>>],
     \* refused: a key of white space, a regex that does not build, one id twice
     [revision |-> 1, entries |-> <<Entry(1, "selective", <<Key(<<" ">>, FALSE)>>, "none", <<>>)>>],
     [revision |-> 1, entries |-> <<Entry(1, "selective", <<Pattern("a", FALSE, FALSE)>>, "none", <<>>)>>],
     [revision |-> 1, entries |-> <<LoreE2, LoreE2>>]}

Turn(rev, state, text) == [revision |-> rev, state |-> state, text |-> text]
LoreTexts == {<<"A", " ", " ", "b">>, <<"c">>, <<" ", "A", "c">>}

LoreBase ==
    [depth |-> 2, includePartial |-> FALSE, maxTokens |-> 4, maxBytes |-> 7, maxEvents |-> 9,
     maxEvaluations |-> 3, maxScan |-> 20, maxMatches |-> 3, separator |-> 1, chatRevision |-> 1,
     branchRevision |-> 1, seed |-> 1, totalTurns |-> 3, summary |-> [state |-> "missing"], turns |-> <<>>]

MCLoreRequests ==
    {[LoreBase EXCEPT !.turns = <<Turn(1, "complete", <<"c">>), Turn(2, st, t), Turn(3, "complete", u)>>] :
        t \in {<<"A", " ", " ", "b">>}, u \in LoreTexts, st \in {"complete", "partial"}}
    \cup {[LoreBase EXCEPT !.turns = <<Turn(1, "partial", t)>>, !.includePartial = TRUE, !.summary = s,
                           !.seed = 2, !.maxTokens = 3] :
            t \in {<<"c">>, <<" ", "A", "c">>},
            s \in {[state |-> "corrupt", revision |-> 1],
                   [state |-> "available", revision |-> 1, text |-> <<"c", "A">>]}}
    \cup {[LoreBase EXCEPT !.turns = <<Turn(1, "complete", <<"A", "c">>)>>, !.totalTurns = 0],
          [LoreBase EXCEPT !.turns = <<Turn(1, "complete", <<"A", "c">>)>>, !.maxEvents = 1],
          [LoreBase EXCEPT !.turns = <<Turn(1, "complete", <<"A", "c">>)>>, !.maxScan = 1]}

-----------------------------------------------------------------------------
(* Memory instance: three messages, three artifacts, a hybrid or a rolling    *)
(* preset, the first revised into the second.                                 *)

Message(id, role) == [id |-> id, seq |-> id, role |-> role, ver |-> 1]
MCMemMessages == <<Message(1, "user"), Message(2, "assistant"), Message(3, "assistant")>>
MCMemPresets ==
    <<[hybrid |-> TRUE, assistantOnly |-> FALSE, queryCount |-> 2, mix |-> <<3, 5, 2>>, perSummary |-> 1,
       skipUser |-> FALSE, preserve |-> TRUE, memoryBudget |-> 5, detailBudget |-> 6],
      [hybrid |-> FALSE, perSummary |-> 2, skipUser |-> TRUE, preserve |-> FALSE,
       memoryBudget |-> 7, detailBudget |-> 4]>>
MCMemScore == <<5, 9, 7>>
MCMemRandom == <<2, 3, 1>>
MCMemReserve == <<2, 2, 3>>
MCMemBudgets == {[context |-> 20, output |-> 4, used |-> 2], [context |-> 20, output |-> 4, used |-> 13]}

-----------------------------------------------------------------------------
(* Persona instance: one stored state that loads and two that do not.         *)

Stored(ps, default) ==
    [generation |-> 1, personas |-> ps, default |-> default, policies |-> <<[card |-> 1, persona |-> 0]>>]
MCStoredStates ==
    {Stored(<<[id |-> 1, rev |-> 3, size |-> 2]>>, 1),
     Stored(<<[id |-> 1, rev |-> 3, size |-> 2]>>, 2),
     Stored(<<[id |-> 1, rev |-> 1, size |-> 2], [id |-> 1, rev |-> 1, size |-> 1]>>, 0)}

-----------------------------------------------------------------------------
(* Where an engine is not the one at work, it is in one of its initial states. *)

NoCase == [of |-> "none", in |-> 0, done |-> TRUE, out |-> Err]

MCInit ==
    /\ which \in Engines
    /\ LoreInit /\ (which # "lorebook" => lore.catalog.entries[1].id = 1)
    /\ MemInit /\ (which # "memory" => mem.bind.preset = 1)
    /\ PersonaInit /\ (which # "persona" => per.cat = NoPersonas)
    /\ PagesInit /\ (which # "pages" => listing = "chats")
    /\ BrokerInit /\ (which # "broker" => session = NoSession)
    /\ IF which = "algorithms" THEN AskInit ELSE case = NoCase

MCNext ==
    \/ /\ which = "algorithms" /\ AskNext
       /\ UNCHANGED <<which, loreVars, memVars, perVars, pagesVars, brokerVars>>
    \/ /\ which = "lorebook" /\ LoreNext
       /\ UNCHANGED <<which, case, memVars, perVars, pagesVars, brokerVars>>
    \/ /\ which = "memory" /\ MemNext
       /\ UNCHANGED <<which, case, loreVars, perVars, pagesVars, brokerVars>>
    \/ /\ which = "persona" /\ PersonaNext
       /\ UNCHANGED <<which, case, loreVars, memVars, pagesVars, brokerVars>>
    \/ /\ which = "pages" /\ PagesNext
       /\ UNCHANGED <<which, case, loreVars, memVars, perVars, brokerVars>>
    \/ /\ which = "broker" /\ BrokerNext
       /\ UNCHANGED <<which, case, loreVars, memVars, perVars, pagesVars>>

MCSpec == MCInit /\ [][MCNext]_<<which, case, loreVars, memVars, perVars, pagesVars, brokerVars>>
=============================================================================
