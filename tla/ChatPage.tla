------------------------------ MODULE ChatPage ------------------------------
(***************************************************************************)
(* The chat page (apps/desktop-mobile/src/routes/chat/+page.svelte): its   *)
(* history loads, its optimistic messages and the stream it shows.         *)
(*                                                                         *)
(* A load reads the store in one step and is applied in another; the page  *)
(* may have moved on, which historyEpoch and olderRequestId are there to   *)
(* tell.  A turn is one entry, named by its number; the turns stored       *)
(* before the page opened have negative numbers.                           *)
(***************************************************************************)
EXTENDS Integers, Sequences, SequencesExt, FiniteSetsExt

CONSTANTS
  Visits,                \* the characters activated, in order; each has one chat
  OldTurns,              \* turns in every chat at the start
  PageTurns,             \* turns in a page of history
  MaxSends,              \* messages sent
  PageFaults             \* loads that fail, starts rejected, streams aborted

VARIABLES
  pg,      \* the page's own variables
  messages, \* [text, opt, got], oldest first
  db,      \* the turns of each chat, oldest first
  loads,   \* history loads not yet applied
  str,     \* the streams the page has started; two fields record the past: left, the
           \* character was changed under it, and crowded, it was sent while one left
           \* behind had not yet reported its end
  pageLeft \* faults left

pageVars == <<pg, messages, db, loads, str, pageLeft>>

Unsent == [nat |-> "none", chat |-> "none", started |-> FALSE, told |-> FALSE, sent |-> 0,
           pend |-> 0, open |-> FALSE, left |-> FALSE, crowded |-> FALSE]

PageInit ==
  /\ pg = [epoch |-> 0, older |-> 0, char |-> "none", chat |-> "none", cursor |-> 0,
           loadingOlder |-> FALSE, unavailable |-> FALSE, active |-> 0, buf |-> 0, switches |-> 0,
           crowded |-> FALSE]
  /\ messages = <<>> /\ loads = {} /\ pageLeft = PageFaults
  /\ db = [c \in ToSet(Visits) |-> [k \in 1 .. OldTurns |-> k - OldTurns - 1]]
  /\ str = [k \in 1 .. MaxSends |-> Unsent]

Texts == {messages[k].text : k \in DOMAIN messages}

\* The newest PageTurns of the first n turns, and how many are older.
Page(c, n) ==
  LET from == Max({1, n - PageTurns + 1}) IN
  [items |-> SubSeq(db[c], from, n), cursor |-> from - 1]

Durable(items) == [k \in DOMAIN items |-> [text |-> items[k], opt |-> FALSE, got |-> 0]]

\* cancelPendingDeltaRender, on the streams s.
BufferCancelled(s) ==
  IF pg.buf = 0 THEN s ELSE [s EXCEPT ![pg.buf].open = FALSE, ![pg.buf].pend = 0]

\* Streams whose character is no longer the page's and that have not reported their end.
LeftBehind(s) == {k \in 1 .. MaxSends : s[k].left /\ ~s[k].told}

\* activeStream is dropped; handle.cancel goes on without it.
Abandoned == IF pg.active = 0 THEN BufferCancelled(str)
             ELSE [BufferCancelled(str) EXCEPT ![pg.active].left = TRUE]

Call(kind, epoch, c) ==
  [kind |-> kind, id |-> epoch, chat |-> c, cursor |-> pg.cursor, read |-> FALSE,
   page |-> [items |-> <<>>, cursor |-> 0]]
-----------------------------------------------------------------------------
\* Mutant: a load under way when the character changes is still taken.
ActivateKeepsEpoch(c) ==
  /\ pg.switches < Len(Visits) /\ c = Visits[pg.switches + 1] /\ pg.char # c
  /\ str' = Abandoned
  /\ pg' = [pg EXCEPT !.char = c, !.chat = "none", !.cursor = 0,
                      !.loadingOlder = FALSE, !.older = @ + 1, !.unavailable = FALSE,
                      !.active = 0, !.buf = 0, !.switches = @ + 1,
                      !.crowded = LeftBehind(Abandoned) # {}]
  /\ messages' = <<>>
  /\ loads' = loads \cup {Call("init", pg.epoch, c)}
  /\ UNCHANGED <<db, pageLeft>>

\* activateCharacter, with initializeHistory up to its first await.
Activate(c) ==
  /\ pg.switches < Len(Visits) /\ c = Visits[pg.switches + 1] /\ pg.char # c
  /\ str' = Abandoned
  /\ pg' = [pg EXCEPT !.char = c, !.chat = "none", !.epoch = @ + 2, !.cursor = 0,
                      !.loadingOlder = FALSE, !.older = @ + 1, !.unavailable = FALSE,
                      !.active = 0, !.buf = 0, !.switches = @ + 1,
                      !.crowded = LeftBehind(Abandoned) # {}]
  /\ messages' = <<>>
  /\ loads' = loads \cup {Call("init", pg.epoch + 2, c)}
  /\ UNCHANGED <<db, pageLeft>>

\* The store reads; initializeHistory has first waited for the reset of the owner.
LoadReads(l) ==
  /\ ~l.read /\ (l.kind = "init" => \A k \in 1 .. MaxSends : str[k].nat # "running")
  /\ loads' = (loads \ {l}) \cup
       {[l EXCEPT !.read = TRUE,
                  !.page = Page(l.chat, IF l.kind = "older" THEN l.cursor ELSE Len(db[l.chat]))]}
  /\ UNCHANGED <<pg, messages, db, str, pageLeft>>

\* prependOlderMessages
Prepended(items) == Durable(SelectSeq(items, LAMBDA t : t \notin Texts)) \o messages

InitReturns(l) ==
  /\ l.kind = "init" /\ l.read /\ loads' = loads \ {l} /\ UNCHANGED <<db, str, pageLeft>>
  /\ IF l.id # pg.epoch THEN UNCHANGED <<pg, messages>>
     ELSE /\ pg' = [pg EXCEPT !.chat = l.chat, !.cursor = l.page.cursor, !.loadingOlder = FALSE,
                              !.unavailable = FALSE]
          /\ messages' = Durable(l.page.items)

ReloadReturns(l) ==
  /\ l.kind = "reload" /\ l.read /\ loads' = loads \ {l} /\ UNCHANGED <<db, str, pageLeft>>
  /\ IF l.id # pg.epoch \/ pg.chat # l.chat THEN UNCHANGED <<pg, messages>>
     ELSE /\ pg' = [pg EXCEPT !.cursor = l.page.cursor, !.loadingOlder = FALSE,
                              !.older = @ + 1, !.unavailable = FALSE]
          /\ messages' = Durable(l.page.items)

OlderReturns(l) ==
  /\ l.kind = "older" /\ l.read /\ loads' = loads \ {l} /\ UNCHANGED <<db, str, pageLeft>>
  /\ IF l.id # pg.older \/ pg.chat # l.chat THEN UNCHANGED <<pg, messages>>
     ELSE IF pg.cursor # l.cursor THEN pg' = [pg EXCEPT !.loadingOlder = FALSE] /\ UNCHANGED messages
     ELSE /\ pg' = [pg EXCEPT !.cursor = l.page.cursor, !.loadingOlder = FALSE]
          /\ messages' = Prepended(l.page.items)

\* The catch branches.
LoadFails(l) ==
  /\ pageLeft > 0 /\ pageLeft' = pageLeft - 1 /\ loads' = loads \ {l} /\ UNCHANGED <<db, str>>
  /\ \/ /\ l.kind = "init"
        /\ IF l.id # pg.epoch THEN UNCHANGED <<pg, messages>>
           ELSE /\ pg' = [pg EXCEPT !.chat = "none", !.cursor = 0, !.loadingOlder = FALSE,
                                    !.older = @ + 1, !.unavailable = TRUE]
                /\ messages' = <<>>
     \/ /\ l.kind = "reload" /\ UNCHANGED messages
        /\ pg' = [pg EXCEPT !.unavailable = @ \/ l.id = pg.epoch]
     \/ /\ l.kind = "older" /\ UNCHANGED messages
        /\ pg' = [pg EXCEPT !.loadingOlder = @ /\ ~(l.id = pg.older /\ pg.chat = l.chat)]

\* loadOlderHistory
LoadOlder ==
  /\ pg.chat # "none" /\ pg.cursor > 0 /\ ~pg.loadingOlder
  /\ pg' = [pg EXCEPT !.older = @ + 1, !.loadingOlder = TRUE]
  /\ loads' = loads \cup {Call("older", pg.older + 1, pg.chat)}
  /\ UNCHANGED <<messages, db, str, pageLeft>>
-----------------------------------------------------------------------------
NextSend == Cardinality({k \in 1 .. MaxSends : str[k] # Unsent}) + 1
CanSend == pg.active = 0 /\ pg.chat # "none" /\ ~pg.unavailable /\ NextSend <= MaxSends
SentWith(epoch) ==
  /\ pg' = [pg EXCEPT !.epoch = epoch, !.active = NextSend, !.buf = NextSend]
  /\ str' = [BufferCancelled(str) EXCEPT
               ![NextSend] = [Unsent EXCEPT !.nat = "starting", !.chat = pg.chat, !.open = TRUE,
                                            !.crowded = LeftBehind(str) # {}]]
  /\ messages' = Append(messages, [text |-> NextSend, opt |-> TRUE, got |-> 0])
  /\ UNCHANGED <<db, loads, pageLeft>>

\* handleSend; the composer is closed while storage is unavailable.
HandleSend == CanSend /\ SentWith(pg.epoch + 1)

\* The native side: the turn is stored before Started is sent, and ends.
TurnStarts(k) ==
  /\ str[k].nat = "starting" /\ UNCHANGED <<pg, messages, loads>>
  /\ \/ /\ str' = [str EXCEPT ![k].nat = "running"] /\ UNCHANGED pageLeft
        /\ db' = [db EXCEPT ![str[k].chat] = Append(@, k)]
     \/ /\ pageLeft > 0 /\ pageLeft' = pageLeft - 1 /\ UNCHANGED db
        /\ str' = [str EXCEPT ![k].nat = "rejected"]

TurnEnds(k) ==
  /\ str[k].nat = "running" /\ str' = [str EXCEPT ![k].nat = "ended"]
  /\ UNCHANGED <<pg, messages, db, loads, pageLeft>>

\* onStarted and onDelta, one delta a stream.
OnStarted(k) ==
  /\ str[k].nat \in {"running", "ended"} /\ ~str[k].started /\ ~str[k].told
  /\ str' = [str EXCEPT ![k].started = TRUE] /\ UNCHANGED <<pg, messages, db, loads, pageLeft>>

OnDelta(k) ==
  /\ str[k].started /\ ~str[k].told /\ str[k].sent = 0
  /\ str' = [str EXCEPT ![k].sent = 1, ![k].pend = IF str[k].open THEN 1 ELSE 0]
  /\ UNCHANGED <<pg, messages, db, loads, pageLeft>>

\* replaceMessage with the text the frame buffer held.
Rendered(k) ==
  [i \in DOMAIN messages |-> IF messages[i].opt /\ messages[i].text = k
                          THEN [messages[i] EXCEPT !.got = @ + str[k].pend] ELSE messages[i]]

\* A frame of the buffer.
Frame(k) ==
  /\ str[k].open /\ str[k].pend > 0 /\ messages' = Rendered(k)
  /\ str' = [str EXCEPT ![k].pend = 0] /\ UNCHANGED <<pg, db, loads, pageLeft>>

\* The native side has an answer for the client.
Answered(k) == str[k].nat = "rejected" \/ (str[k].nat = "ended" /\ str[k].started)

\* onTerminal, for the answer of the native side or an abort by the client, with
\* reloadHistory up to its await; then handle.done.
OnTerminal(k) ==
  /\ ~str[k].told
  /\ \/ Answered(k) /\ UNCHANGED pageLeft
     \/ str[k].nat = "running" /\ pageLeft > 0 /\ pageLeft' = pageLeft - 1
  /\ messages' = Rendered(k)
  /\ LET closed == [str EXCEPT ![k].told = TRUE, ![k].open = FALSE, ![k].pend = 0]
         kept == IF pg.buf = k THEN 0 ELSE pg.buf
         reload == str[k].started IN
     /\ str' = IF reload /\ kept # 0
               THEN [closed EXCEPT ![kept].open = FALSE, ![kept].pend = 0] ELSE closed
     /\ pg' = [pg EXCEPT !.active = IF @ = k THEN 0 ELSE @,
                         !.buf = IF reload THEN 0 ELSE kept,
                         !.epoch = IF reload THEN @ + 1 ELSE @]
     /\ loads' = IF reload THEN loads \cup {Call("reload", pg.epoch + 1, str[k].chat)} ELSE loads
  /\ UNCHANGED db

PageNext ==
  \/ \E c \in ToSet(Visits) : Activate(c)
  \/ \E l \in loads : LoadReads(l) \/ InitReturns(l) \/ ReloadReturns(l) \/ OlderReturns(l)
                      \/ LoadFails(l)
  \/ LoadOlder \/ HandleSend
  \/ \E k \in 1 .. MaxSends : TurnStarts(k) \/ TurnEnds(k) \/ OnStarted(k) \/ OnDelta(k)
                              \/ Frame(k) \/ OnTerminal(k)

PageSpec == PageInit /\ [][PageNext]_pageVars
-----------------------------------------------------------------------------
(* Properties.                                                             *)

\* What is shown belongs to the chat that is open, in the order it was stored,
\* with no turn twice and none missing between the oldest and the newest stored
\* one: no load that answers late is shown in another chat or out of place.
ShownIsOneStretch ==
  LET stored == SelectSeq(messages, LAMBDA m : ~m.opt) IN
  /\ pg.chat \in {"none", pg.char} /\ (pg.chat = "none" => messages = <<>>)
  /\ \A m, n \in DOMAIN messages : m # n => messages[m].text # messages[n].text
  /\ \A m \in DOMAIN messages : messages[m].opt => str[messages[m].text].chat = pg.chat
  /\ stored # <<>> =>
       \E from \in DOMAIN db[pg.chat] :
         /\ from + Len(stored) - 1 <= Len(db[pg.chat])
         /\ \A k \in DOMAIN stored : stored[k].text = db[pg.chat][from + k - 1]

\* The last message sent in the open chat is on the page: no reload that was under
\* way when it was sent takes it away, and a rejected start keeps it.
SubmittedStaysVisible ==
  pg.chat # "none" =>
    LET mine == {k \in 1 .. MaxSends : str[k].chat = pg.chat} IN
    mine # {} => Max(mine) \in Texts

\* Of a stream that has ended, everything onDelta got is on the page, unless the
\* stream was sent while one of a character left behind had yet to end: its onTerminal
\* reloads the history, and cancelPendingDeltaRender then drops the buffer of the new
\* stream, not its own.
NoDeltaDropped ==
  \A i \in DOMAIN messages :
    LET k == messages[i].text IN
    messages[i].opt /\ str[k].told /\ ~str[k].crowded => messages[i].got = str[k].sent

\* The page shows one stretch of the open chat, with what the user just sent and all of a
\* stream that ended, whichever loads and callbacks arrive late.  Only a stream left
\* running in another chat may cost a later one some text, until that one is reloaded.
PageWhole ==
  ShownIsOneStretch /\ SubmittedStaysVisible /\ NoDeltaDropped

\* A character that was opened gets its chat, or the page says storage is
\* unavailable: "wait for durable terminal state, then read canonical SQLite
\* history" (initializeHistory).
ChatBecomesReady ==
  (pg.char # "none" /\ pg.chat = "none") ~> (pg.chat # "none" \/ pg.unavailable)

\* The same for a character opened when no stream was left behind to end later.
QuietChatBecomesReady ==
  (pg.char # "none" /\ pg.chat = "none" /\ ~pg.crowded) ~>
    (pg.chat # "none" \/ pg.unavailable \/ pg.crowded)

\* The page does not stay loading older messages.
OlderLoadEnds == pg.loadingOlder ~> ~pg.loadingOlder
=============================================================================
