----------------------------- MODULE ChatStore ------------------------------
(***************************************************************************)
(* The product database (crates/lorepia-storage): chats, the tree of       *)
(* branching messages of each chat, the selected path through that tree    *)
(* and the journal of provider requests.  Every action is one SQLite       *)
(* transaction, so it is atomic; a call the store refuses changes nothing  *)
(* and is not an action.  Callers are not trusted to be up to date: the    *)
(* expected values a call carries range over everything, so calls may be   *)
(* stale, repeated or out of order.                                        *)
(*                                                                         *)
(* A request is named by its stream generation, which is UNIQUE in the     *)
(* table and which every journal call must present (ensure_stream_owned).  *)
(***************************************************************************)
EXTENDS JournalRow, FiniteSetsExt

CONSTANTS
  Chat,        \* chat ids
  Message,     \* message ids
  Request,     \* stream generations
  NoMessage,   \* a NULL parent_id or an absent active leaf
  MaxDepth,    \* MAX_BRANCH_DEPTH
  MaxSeq,      \* MAX_SAFE_INTEGER, the bound of every sequence column
  MaxUsage     \* MAX_SAFE_INTEGER, the bound of every token counter

ASSUME ConstantsAssumption ==
  /\ NoMessage \notin Message
  /\ MaxDepth \in Nat
  /\ MaxSeq \in Nat
  /\ MaxUsage \in Nat

VARIABLES
  chats,     \* the chats that exist
  messages,  \* message id -> row of the messages table
  path,      \* chat -> the rows of active_path in order of position
  requests   \* request -> row of request_state

vars == <<chats, messages, path, requests>>

MessageStatus == {"complete", "partial", "failed"}

MessageRow ==
  [chat : Chat, parent : Message \cup {NoMessage}, sibling : Nat \ {0},
   depth : Nat, ordinal : Nat \ {0}, role : {"user", "assistant"},
   status : MessageStatus, text : Seq(Nat)]

RequestRow == [chat : Chat, assistant : Message, row : RowType]

Of(c) == {m \in DOMAIN messages : messages[m].chat = c}

Running(c) ==
  {q \in DOMAIN requests :
     requests[q].chat = c /\ requests[q].row.status = "running"}

\* current_active_leaf
ActiveLeaf(c) == IF path[c] = <<>> THEN NoMessage ELSE path[c][Len(path[c])]

NextSiblingOrdinal(c, p) ==
  LET siblings == {m \in Of(c) : messages[m].parent = p} IN
  Max({0} \cup {messages[m].sibling : m \in siblings}) + 1

NextMessageOrdinal(c) == Max({0} \cup {messages[m].ordinal : m \in Of(c)}) + 1

DepthBelow(p) == IF p = NoMessage THEN 0 ELSE messages[p].depth + 1

InsertMessages(new) ==
  [m \in DOMAIN messages \cup DOMAIN new |->
     IF m \in DOMAIN new THEN new[m] ELSE messages[m]]

-----------------------------------------------------------------------------
\* The rows of the recursive ancestry query of replace_active_path, in order
\* of depth: s ends in the leaf, starts at a root and each message is the
\* parent of the next.  tree is the messages table the query reads.
IsAncestry(tree, c, leaf, s) ==
  /\ s[Len(s)] = leaf
  /\ \A i \in 1 .. Len(s) : tree[s[i]].chat = c /\ tree[s[i]].depth = i - 1
  /\ tree[s[1]].parent = NoMessage
  /\ \A i \in 2 .. Len(s) : tree[s[i]].parent = s[i - 1]

\* The first position at which the stored path and the ancestry differ.
Divergence(old, s) ==
  LET differs == {i \in 1 .. Len(s) : i > Len(old) \/ old[i] # s[i]} IN
  IF differs = {} THEN Len(s) + 1 ELSE Min(differs)

\* Mutant: the rows beyond the new leaf are not deleted.
ResplicedWithTail(old, s) ==
  LET d == Divergence(old, s) IN
  [i \in 1 .. Max({Len(s), Len(old)}) |->
     IF i < d \/ i > Len(s) THEN old[i] ELSE s[i]]

\* DELETE the rows from the divergence on, INSERT the ancestry's suffix.
Respliced(old, s) ==
  LET d == Divergence(old, s) IN
  [i \in 1 .. Len(s) |-> IF i < d THEN old[i] ELSE s[i]]

ReplaceActivePath(tree, c, leaf) ==
  /\ leaf \in DOMAIN tree
  /\ tree[leaf].chat = c
  /\ tree[leaf].depth <= MaxDepth
  /\ \E s \in [1 .. tree[leaf].depth + 1 -> DOMAIN tree] :
        /\ IsAncestry(tree, c, leaf, s)
        /\ path' = [path EXCEPT ![c] = Respliced(path[c], s)]
-----------------------------------------------------------------------------
Init ==
  /\ chats = {}
  /\ messages = <<>>
  /\ path = [c \in Chat |-> <<>>]
  /\ requests = <<>>

CreateChat(c) ==
  /\ c \notin chats
  /\ chats' = chats \cup {c}
  /\ UNCHANGED <<messages, path, requests>>

\* delete_chat refuses while a request runs; the foreign keys cascade.
DeleteChat(c) ==
  /\ c \in chats
  /\ Running(c) = {}
  /\ chats' = chats \ {c}
  /\ messages' = Restrict(messages, DOMAIN messages \ Of(c))
  /\ path' = [path EXCEPT ![c] = <<>>]
  /\ requests' = Restrict(requests, {q \in DOMAIN requests : requests[q].chat # c})

\* begin_turn: the user message and the empty assistant message below the
\* active leaf, both on the path, and a running request.  The partial unique
\* index admits one running request per chat.
BeginTurn(q, c, u, a) ==
  LET leaf == ActiveLeaf(c)
      depth == DepthBelow(leaf)
      ordinal == NextMessageOrdinal(c)
  IN
  /\ c \in chats
  /\ q \notin DOMAIN requests
  /\ {u, a} \cap DOMAIN messages = {} /\ u # a
  /\ (Of(c) # {}) <=> (leaf # NoMessage)
  /\ depth + 1 <= MaxDepth
  /\ Running(c) = {}
  /\ messages' = InsertMessages(
       [m \in {u, a} |->
          [chat |-> c,
           parent |-> IF m = u THEN leaf ELSE u,
           sibling |-> IF m = u THEN NextSiblingOrdinal(c, leaf) ELSE 1,
           depth |-> IF m = u THEN depth ELSE depth + 1,
           ordinal |-> IF m = u THEN ordinal ELSE ordinal + 1,
           role |-> IF m = u THEN "user" ELSE "assistant",
           status |-> IF m = u THEN "complete" ELSE "partial",
           text |-> <<>>]])
  /\ path' = [path EXCEPT ![c] = @ \o <<u, a>>]
  /\ requests' = [r \in DOMAIN requests \cup {q} |->
       IF r = q THEN [chat |-> c, assistant |-> a, row |-> NewRow] ELSE requests[r]]
  /\ UNCHANGED chats

\* append_branch_message: a complete message below any message of the chat
\* (or a new root), selected at once.
AppendBranchMessage(c, expected, p, m, role) ==
  LET tree == InsertMessages(
        [x \in {m} |->
           [chat |-> c, parent |-> p, sibling |-> NextSiblingOrdinal(c, p),
            depth |-> DepthBelow(p), ordinal |-> NextMessageOrdinal(c),
            role |-> role, status |-> "complete", text |-> <<>>]])
  IN
  /\ c \in chats
  /\ m \notin DOMAIN messages
  /\ ActiveLeaf(c) = expected
  /\ p \in Of(c) \cup {NoMessage}
  /\ DepthBelow(p) <= MaxDepth
  /\ messages' = tree
  /\ ReplaceActivePath(tree, c, m)
  /\ UNCHANGED <<chats, requests>>

SelectActivePath(c, expected, leaf) ==
  /\ c \in chats
  /\ ActiveLeaf(c) = expected
  /\ ReplaceActivePath(messages, c, leaf)
  /\ UNCHANGED <<chats, messages, requests>>

RecordResponseDelivery(q, expected, through) ==
  /\ q \in DOMAIN requests
  /\ CanDeliver(requests[q].row, expected, through)
  /\ requests' = [requests EXCEPT ![q].row = DeliveredRow(@, through)]
  /\ UNCHANGED <<chats, messages, path>>

\* The caller sends the text of the events after the durable sequence it
\* expects; the UPDATE of messages appends it to a partial message only.
WriteResponse(q, expected, through, status) ==
  LET a == requests[q].assistant IN
  /\ messages[a].status = "partial"
  /\ messages' = [messages EXCEPT
       ![a] = [messages[a] EXCEPT !.text = @ \o Fragment(expected, through),
                                  !.status = status]]

CheckpointResponse(q, expected, through, usage) ==
  /\ q \in DOMAIN requests
  /\ CanCheckpoint(requests[q].row, expected, through, usage)
  /\ WriteResponse(q, expected, through, "partial")
  /\ requests' = [requests EXCEPT ![q].row = CheckpointedRow(@, through, usage)]
  /\ UNCHANGED <<chats, path>>

FinishTurn(q, expected, through, usage, outcome) ==
  /\ q \in DOMAIN requests
  /\ CanCheckpoint(requests[q].row, expected, through, usage)
  /\ WriteResponse(q, expected, through, MessageStatusFor(outcome))
  /\ requests' = [requests EXCEPT
       ![q].row = FinishedRow(@, through, usage, outcome)]
  /\ UNCHANGED <<chats, path>>

AcknowledgeResponse(q, expected, through) ==
  /\ q \in DOMAIN requests
  /\ CanAck(requests[q].row, expected, through)
  /\ requests' = [requests EXCEPT ![q].row = AckedRow(@, through)]
  /\ UNCHANGED <<chats, messages, path>>

\* A crash or an exit, then initialize_database at the next start: committed
\* transactions survive and recover_interrupted_requests runs before any call.
Restart ==
  LET running == {q \in DOMAIN requests : requests[q].row.status = "running"}
      written == {requests[q].assistant : q \in running}
  IN
  /\ requests' = [q \in DOMAIN requests |->
       [requests[q] EXCEPT !.row = RecoveredRow(@)]]
  /\ messages' = [m \in DOMAIN messages |->
       IF m \in written THEN [messages[m] EXCEPT !.status = "partial"]
       ELSE messages[m]]
  /\ UNCHANGED <<chats, path>>

Next ==
  \/ \E c \in Chat : CreateChat(c) \/ DeleteChat(c)
  \/ \E c \in Chat, q \in Request, u, a \in Message : BeginTurn(q, c, u, a)
  \/ \E c \in Chat, e, p \in Message \cup {NoMessage}, m \in Message,
        role \in {"user", "assistant"} : AppendBranchMessage(c, e, p, m, role)
  \/ \E c \in Chat, e \in Message \cup {NoMessage}, m \in Message :
        SelectActivePath(c, e, m)
  \/ \E q \in Request, e, t \in 0 .. MaxSeq :
        \/ RecordResponseDelivery(q, e, t)
        \/ \E u \in 0 .. MaxUsage :
             \/ CheckpointResponse(q, e, t, u)
             \/ \E outcome \in Outcomes : FinishTurn(q, e, t, u, outcome)
        \/ AcknowledgeResponse(q, e, t)
  \/ Restart

Spec == Init /\ [][Next]_vars
-----------------------------------------------------------------------------
\* Every table holds rows of its type and every foreign key resolves: what
\* the STRICT schema and open-time verification demand of the database.
TypeOK ==
  /\ chats \subseteq Chat
  /\ DOMAIN messages \subseteq Message
  /\ \A m \in DOMAIN messages : messages[m] \in MessageRow
  /\ path \in [Chat -> Seq(Message)]
  /\ DOMAIN requests \subseteq Request
  /\ \A q \in DOMAIN requests : requests[q] \in RequestRow

\* Calls with stale or repeated arguments never push the acknowledged
\* sequence past the durable one or the durable one past the delivered one
\* (verify_stream_journal_rows refuses to open a database where they did).
JournalOrdered == \A q \in DOMAIN requests : RowOrdered(requests[q].row)

\* The compare-and-set on the durable sequence makes checkpoints idempotent:
\* however often a checkpoint is repeated or reordered, the stored message
\* holds the text of exactly the durable events, each once, in order.
TextIsDurablePrefix ==
  \A q \in DOMAIN requests :
    messages[requests[q].assistant].text = Fragment(0, requests[q].row.durable)

\* A running request always finds the partial message it must write, so the
\* "running request has no partial assistant message" error is unreachable;
\* a completed request left a complete message and a failed one a failed one.
MessageAgreesWithRequest ==
  \A q \in DOMAIN requests :
    /\ requests[q].assistant \in Of(requests[q].chat)
    /\ messages[requests[q].assistant].status =
         IF requests[q].row.status \in {"completed", "failed"}
         THEN MessageStatusFor(requests[q].row.status) ELSE "partial"

\* The watermarks of a request are ordered, its message agrees with it and holds exactly
\* the durable text, through stale, repeated and reordered journal calls and restarts.
JournalIsSound ==
    JournalOrdered /\ MessageAgreesWithRequest /\ TextIsDurablePrefix

\* Messages and paths exist only under a chat that exists, and the selected
\* path of a chat with messages is an unbroken parent chain from a root, with
\* the depth of each message its position (verify_branch_rows), whatever
\* order branches were appended and selected in.
PathIsAncestry ==
  \A c \in Chat :
    /\ Of(c) = {} <=> path[c] = <<>>
    /\ Of(c) # {} => c \in chats
    /\ \A i \in 1 .. Len(path[c]) : path[c][i] \in DOMAIN messages
    /\ path[c] # <<>> => IsAncestry(messages, c, ActiveLeaf(c), path[c])

\* Every message can be selected: its ancestry is complete, so the
\* "message ancestry is incomplete" error of replace_active_path and the
\* "chat messages and active path disagree" error of begin_turn never happen.
AncestryComplete ==
  \A m \in DOMAIN messages :
    \E s \in [1 .. messages[m].depth + 1 -> DOMAIN messages] :
      IsAncestry(messages, messages[m].chat, m, s)

\* Ordinals name the messages of a chat uniquely and grow along every branch,
\* and siblings are numbered apart: the UNIQUE indexes of the schema never
\* reject the ordinals the store computes.
OrdinalsFollowTree ==
  \A m, n \in DOMAIN messages :
    messages[m].chat = messages[n].chat =>
      /\ messages[m].ordinal = messages[n].ordinal => m = n
      /\ messages[m].parent = messages[n].parent
           /\ messages[m].sibling = messages[n].sibling => m = n
      /\ messages[m].parent = n => messages[n].ordinal < messages[m].ordinal

\* Branches, selections and deletions in any order leave every selected path an unbroken
\* ancestry, every message selectable and the computed ordinals unique.
TreeIsSound ==
    PathIsAncestry /\ AncestryComplete /\ OrdinalsFollowTree

\* Once a request has left "running" its outcome and its text are final: no
\* late checkpoint, second finish or restart changes them; only the
\* acknowledgement may still advance, and watermarks never move back.
JournalStepAllowed ==
  \A q \in DOMAIN requests \cap DOMAIN requests' :
    LET r == requests[q].row  s == requests'[q].row IN
    /\ r.delivered <= s.delivered /\ r.durable <= s.durable
    /\ r.acked <= s.acked /\ r.usage <= s.usage
    /\ r.status # "running" =>
         /\ [s EXCEPT !.acked = r.acked] = r
         /\ messages'[requests'[q].assistant] = messages[requests[q].assistant]

OutcomeIsFinal == [][JournalStepAllowed]_vars
=============================================================================
