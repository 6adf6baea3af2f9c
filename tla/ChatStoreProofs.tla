--------------------------- MODULE ChatStoreProofs ---------------------------
(***************************************************************************)
(* Proofs that ChatStore keeps every property its runs check, for any sets *)
(* of chats, messages and requests.  JInv is the inductive invariant of    *)
(* the request journal, TInv that of the message tree; each transaction    *)
(* has a lemma saying that it preserves both.                              *)
(***************************************************************************)
EXTENDS ChatStore, SequenceTheorems, WellFoundedInduction, TLAPS

\* A set of naturals that is not empty has a least element, so the Min of
\* Divergence (the first differing position of replace_active_path) exists.
LEMMA LeastNatural ==
  ASSUME NEW S, S \subseteq Nat, S # {}
  PROVE  Min(S) \in S /\ \A x \in S : Min(S) <= x
<1>. DEFINE R == {ss \in Nat \X Nat : ss[1] < ss[2]}
<1>1. IsWellFoundedOn(R, Nat)
  BY NatLessThanWellFounded DEF OpToRel
<1>2. PICK x \in S : \A y \in S : ~(<<y, x>> \in R)
  <2>. HIDE DEF R
  <2>. QED  BY Zenon, <1>1, WFMin
<1>3. ASSUME NEW y \in S PROVE x <= y
  <2>1. x \in Nat /\ y \in Nat
    OBVIOUS
  <2>2. y < x => <<y, x>> \in R
    BY <2>1
  <2>. QED
    BY <1>2, <2>1, <2>2
<1>. QED
  BY Zenon, <1>3 DEF Min

\* A bounded set of naturals has a greatest element, so the Max of the
\* ordinal queries (SELECT MAX ... + 1) exists.
LEMMA GreatestNatural ==
  ASSUME NEW S, S \subseteq Nat, S # {}, NEW b \in Nat, \A x \in S : x <= b
  PROVE  Max(S) \in S /\ \A x \in S : x <= Max(S)
<1>. DEFINE Bounds == {n \in Nat : \A x \in S : x <= n}
<1>1. Bounds \subseteq Nat /\ Bounds # {}
  OBVIOUS
<1>2. Min(Bounds) \in Bounds /\ \A n \in Bounds : Min(Bounds) <= n
  BY <1>1, LeastNatural
<1>. DEFINE n == Min(Bounds)
<1>3. n \in Nat /\ \A x \in S : x <= n
  BY <1>2
<1>4. n \in S
  <2>1. SUFFICES ASSUME n \notin S PROVE FALSE
    OBVIOUS
  <2>2. \A x \in S : x <= n - 1
    BY <1>3, <2>1
  <2>3. PICK x \in S : TRUE
    BY Zenon
  <2>4. n - 1 \in Nat
    BY <1>3, <2>2, <2>3
  <2>. QED
    BY <1>2, <1>3, <2>2, <2>4
<1>. QED
  BY Zenon, <1>3, <1>4 DEF Max
-----------------------------------------------------------------------------
\* Finitely many rows: the ordinals in use have an upper bound.  TLC cannot
\* evaluate this quantifier over Nat; on its finite tables it is trivially true.
Bounded ==
  \E b \in Nat : \A m \in DOMAIN messages :
    messages[m].ordinal <= b /\ messages[m].sibling <= b

\* No two requests write the same assistant message.
OneWriter ==
  \A q, r \in DOMAIN requests : requests[q].assistant = requests[r].assistant => q = r

\* The row of a request, and the row begin_turn inserts.
LEMMA RequestTyped ==
  ASSUME NEW c \in Chat, NEW a \in Message, NEW w \in RowType
  PROVE  [chat |-> c, assistant |-> a, row |-> w] \in RequestRow
  BY DEF RequestRow

\* The row begin_turn inserts.
LEMMA NewRowFacts ==
  NewRow \in RowType /\ RowOrdered(NewRow) /\ NewRow.durable = 0 /\ NewRow.status = "running"
  BY DEF NewRow, RowType, RowStatus, RowOrdered

\* next_sibling_ordinal is larger than the ordinal of every sibling.
LEMMA NextSibling ==
  ASSUME TypeOK, Bounded, NEW c, NEW p
  PROVE  /\ NextSiblingOrdinal(c, p) \in Nat \ {0}
         /\ \A m \in Of(c) : messages[m].parent = p =>
              messages[m].sibling < NextSiblingOrdinal(c, p)
<1>. DEFINE ms == {m \in Of(c) : messages[m].parent = p}
            S == {0} \cup {messages[m].sibling : m \in ms}
<1>1. PICK b \in Nat : \A m \in DOMAIN messages : messages[m].sibling <= b
  BY DEF Bounded
<1>2. \A m \in ms : messages[m].sibling \in Nat /\ messages[m].sibling <= b
  BY <1>1 DEF TypeOK, MessageRow, Of
<1>3. S \subseteq Nat /\ S # {} /\ \A x \in S : x <= b
  BY <1>2
<1>4. Max(S) \in S /\ \A x \in S : x <= Max(S)
  BY Zenon, <1>3, GreatestNatural
<1>5. NextSiblingOrdinal(c, p) = Max(S) + 1
  BY DEF NextSiblingOrdinal
<1>6. \A m \in ms : messages[m].sibling \in S
  OBVIOUS
<1>7. Max(S) \in Nat
  BY <1>3, <1>4
<1>. HIDE DEF S
<1>8. \A m \in ms : messages[m].sibling < Max(S) + 1
  BY <1>2, <1>4, <1>6, <1>7
<1>. QED
  BY <1>5, <1>7, <1>8

\* next_message_ordinal is larger than the ordinal of every message of the
\* chat.
LEMMA NextOrdinal ==
  ASSUME TypeOK, Bounded, NEW c
  PROVE  /\ NextMessageOrdinal(c) \in Nat \ {0}
         /\ \A m \in Of(c) : messages[m].ordinal < NextMessageOrdinal(c)
<1>. DEFINE S == {0} \cup {messages[m].ordinal : m \in Of(c)}
<1>1. PICK b \in Nat : \A m \in DOMAIN messages : messages[m].ordinal <= b
  BY DEF Bounded
<1>2. \A m \in Of(c) : messages[m].ordinal \in Nat /\ messages[m].ordinal <= b
  BY <1>1 DEF TypeOK, MessageRow, Of
<1>3. S \subseteq Nat /\ S # {} /\ \A x \in S : x <= b
  BY <1>2
<1>4. Max(S) \in S /\ \A x \in S : x <= Max(S)
  BY Zenon, <1>3, GreatestNatural
<1>5. NextMessageOrdinal(c) = Max(S) + 1
  BY DEF NextMessageOrdinal
<1>. QED
  BY <1>3, <1>4, <1>5

\* The inductive invariant of the journal: what the runs check, together with
\* Bounded (the ordinal queries stay typed) and OneWriter (a write for one
\* request leaves the text of the others alone).
JInv ==
  /\ TypeOK /\ Bounded /\ OneWriter
  /\ JournalOrdered /\ MessageAgreesWithRequest /\ TextIsDurablePrefix

\* The empty database satisfies the journal invariant.
LEMMA JInit == Init => JInv
<1>. SUFFICES ASSUME Init PROVE JInv
  OBVIOUS
<1>1. DOMAIN messages = {} /\ DOMAIN requests = {}
  BY DEF Init
<1>2. TypeOK
  BY <1>1 DEF Init, TypeOK
<1>3. Bounded
  BY <1>1 DEF Bounded
<1>. QED
  BY <1>1, <1>2, <1>3 DEF JInv, OneWriter, JournalOrdered, MessageAgreesWithRequest,
     TextIsDurablePrefix

\* A step that leaves chats, paths and the shape of the message tree alone.
SameTree ==
  /\ chats' = chats /\ path' = path
  /\ DOMAIN messages' = DOMAIN messages
  /\ \A m \in DOMAIN messages :
       /\ messages'[m].chat = messages[m].chat
       /\ messages'[m].parent = messages[m].parent
       /\ messages'[m].sibling = messages[m].sibling
       /\ messages'[m].depth = messages[m].depth
       /\ messages'[m].ordinal = messages[m].ordinal

\* A transaction that only moves the delivered or the acknowledged watermark
\* of one row preserves the journal invariant.
LEMMA JRowOnly ==
  ASSUME JInv, NEW q \in DOMAIN requests, NEW new \in RowType,
         requests' = [requests EXCEPT ![q].row = new],
         new.status = requests[q].row.status, new.durable = requests[q].row.durable,
         RowOrdered(new), UNCHANGED <<chats, messages, path>>
  PROVE  JInv' /\ SameTree
<1>1. requests[q] \in RequestRow
  BY DEF JInv, TypeOK
<1>2. /\ DOMAIN requests' = DOMAIN requests
      /\ requests'[q] = [requests[q] EXCEPT !.row = new]
      /\ \A r \in DOMAIN requests : r # q => requests'[r] = requests[r]
  OBVIOUS
<1>3. requests'[q] \in RequestRow /\ requests'[q].row = new
      /\ requests'[q].assistant = requests[q].assistant /\ requests'[q].chat = requests[q].chat
  BY <1>1, <1>2 DEF RequestRow
<1>4. \A r \in DOMAIN requests :
        /\ requests'[r].assistant = requests[r].assistant
        /\ requests'[r].chat = requests[r].chat
        /\ requests'[r].row.status = requests[r].row.status
        /\ requests'[r].row.durable = requests[r].row.durable
  BY <1>2, <1>3
<1>5. TypeOK'
  BY <1>2, <1>3 DEF JInv, TypeOK
<1>6. Bounded'
  BY DEF JInv, Bounded
<1>7. OneWriter'
  BY <1>2, <1>4 DEF JInv, OneWriter
<1>8. JournalOrdered'
  BY <1>2, <1>3 DEF JInv, JournalOrdered
<1>9. MessageAgreesWithRequest'
  BY SMTT(60), <1>2, <1>4 DEF JInv, MessageAgreesWithRequest, Of
<1>10. TextIsDurablePrefix'
  BY <1>2, <1>4 DEF JInv, TextIsDurablePrefix
<1>. QED
  BY <1>5, <1>6, <1>7, <1>8, <1>9, <1>10 DEF JInv, SameTree

\* record_response_delivery preserves the journal invariant.
LEMMA JDelivery ==
  ASSUME JInv, NEW q \in Request, NEW e \in Nat, NEW t \in Nat,
         RecordResponseDelivery(q, e, t)
  PROVE  JInv' /\ SameTree
<1>. DEFINE new == DeliveredRow(requests[q].row, t)
<1>1. q \in DOMAIN requests /\ requests[q] \in RequestRow /\ RowOrdered(requests[q].row)
  BY DEF RecordResponseDelivery, JInv, TypeOK, JournalOrdered
<1>2. new \in RowType /\ new.status = requests[q].row.status
      /\ new.durable = requests[q].row.durable /\ RowOrdered(new)
  BY <1>1 DEF RecordResponseDelivery, RowOrdered, CanDeliver, DeliveredRow, RowType, RequestRow
<1>3. /\ requests' = [requests EXCEPT ![q].row = new]
      /\ UNCHANGED <<chats, messages, path>>
  BY DEF RecordResponseDelivery
<1>. QED
  BY Zenon, <1>1, <1>2, <1>3, JRowOnly

\* acknowledge_response preserves the journal invariant: its guard
\* through <= durable is what keeps the watermarks ordered.
LEMMA JAcknowledge ==
  ASSUME JInv, NEW q \in Request, NEW e \in Nat, NEW t \in Nat,
         AcknowledgeResponse(q, e, t)
  PROVE  JInv' /\ SameTree
<1>. DEFINE new == AckedRow(requests[q].row, t)
<1>1. q \in DOMAIN requests /\ requests[q] \in RequestRow /\ RowOrdered(requests[q].row)
  BY DEF AcknowledgeResponse, JInv, TypeOK, JournalOrdered
<1>2. new \in RowType /\ new.status = requests[q].row.status
      /\ new.durable = requests[q].row.durable /\ RowOrdered(new)
  BY <1>1 DEF AcknowledgeResponse, RowOrdered, CanAck, AckedRow, RowType, RequestRow
<1>3. /\ requests' = [requests EXCEPT ![q].row = new]
      /\ UNCHANGED <<chats, messages, path>>
  BY DEF AcknowledgeResponse
<1>. QED
  BY Zenon, <1>1, <1>2, <1>3, JRowOnly

\* What Fragment(a, b) is: the numbers a + 1 .. b in order.
LEMMA FragmentType ==
  ASSUME NEW a \in Nat, NEW b \in Nat, a <= b
  PROVE  Fragment(a, b) \in Seq(Nat) /\ Len(Fragment(a, b)) = b - a
         /\ \A i \in 1 .. b - a : Fragment(a, b)[i] = a + i
<1>1. b - a \in Nat
  OBVIOUS
<1>2. Fragment(a, b) \in [1 .. b - a -> Nat]
  BY DEF Fragment
<1>. QED
  BY <1>1, <1>2 DEF Fragment

\* Appending the text of the events after d to the text of the first d events
\* gives the text of the first t: why the compare-and-set of
\* apply_response_progress makes the stored text exact.
LEMMA FragmentConcat ==
  ASSUME NEW d \in Nat, NEW t \in Nat, d <= t
  PROVE  Fragment(0, d) \o Fragment(d, t) = Fragment(0, t)
<1>1. Fragment(0, d) \in Seq(Nat) /\ Len(Fragment(0, d)) = d
      /\ \A i \in 1 .. d : Fragment(0, d)[i] = i
  BY FragmentType
<1>2. Fragment(d, t) \in Seq(Nat) /\ Len(Fragment(d, t)) = t - d
      /\ \A i \in 1 .. t - d : Fragment(d, t)[i] = d + i
  BY FragmentType
<1>3. Fragment(0, t) \in Seq(Nat) /\ Len(Fragment(0, t)) = t
      /\ \A i \in 1 .. t : Fragment(0, t)[i] = i
  BY FragmentType
<1>. DEFINE s == Fragment(0, d) \o Fragment(d, t)
<1>4. s \in Seq(Nat) /\ Len(s) = d + (t - d)
      /\ \A i \in 1 .. d + (t - d) :
           s[i] = IF i <= d THEN Fragment(0, d)[i] ELSE Fragment(d, t)[i - d]
  BY <1>1, <1>2, ConcatProperties
<1>5. Len(s) = t
  BY <1>4
<1>. HIDE DEF s
<1>6. ASSUME NEW i \in 1 .. t PROVE s[i] = i
  <2>1. CASE i <= d
    BY <1>1, <1>4, <2>1
  <2>2. CASE i > d
    <3>1. i - d \in 1 .. t - d /\ i \in 1 .. d + (t - d) /\ ~(i <= d)
      BY <2>2
    <3>2. s[i] = Fragment(d, t)[i - d]
      BY <1>4, <3>1
    <3>3. Fragment(d, t)[i - d] = d + (i - d)
      BY <1>2, <3>1
    <3>4. d + (i - d) = i
      OBVIOUS
    <3>. QED  BY <3>2, <3>3, <3>4
  <2>3. i <= d \/ i > d
    OBVIOUS
  <2>. QED  BY <2>1, <2>2, <2>3
<1>7. s = Fragment(0, t)
  BY <1>3, <1>4, <1>5, <1>6, SeqEqual
<1>. QED
  BY <1>7 DEF s

\* apply_response_progress, for a checkpoint and for a finish alike: writing
\* the fragment after the durable sequence and moving the row to it preserves
\* the journal invariant and does not touch the tree.
LEMMA JWrite ==
  ASSUME JInv, NEW q \in DOMAIN requests, NEW t \in Nat, NEW new \in RowType,
         NEW status \in MessageStatus,
         requests[q].row.status = "running", t > requests[q].row.durable,
         WriteResponse(q, requests[q].row.durable, t, status),
         requests' = [requests EXCEPT ![q].row = new],
         new.durable = t, RowOrdered(new), new.status # "interrupted",
         status = IF new.status \in {"completed", "failed"}
                  THEN MessageStatusFor(new.status) ELSE "partial",
         UNCHANGED <<chats, path>>
  PROVE  JInv' /\ SameTree
<1>. DEFINE a == requests[q].assistant
            d == requests[q].row.durable
<1>1. requests[q] \in RequestRow /\ a \in DOMAIN messages /\ messages[a] \in MessageRow
      /\ d \in Nat /\ messages[a].text = Fragment(0, d)
  BY DEF JInv, TypeOK, MessageAgreesWithRequest, TextIsDurablePrefix, Of, RequestRow, RowType
<1>2. /\ DOMAIN requests' = DOMAIN requests
      /\ requests'[q] = [requests[q] EXCEPT !.row = new]
      /\ \A r \in DOMAIN requests : r # q => requests'[r] = requests[r]
  OBVIOUS
<1>3. requests'[q] \in RequestRow /\ requests'[q].row = new
      /\ \A r \in DOMAIN requests : /\ requests'[r].assistant = requests[r].assistant
                                     /\ requests'[r].chat = requests[r].chat
  BY <1>1, <1>2 DEF RequestRow
<1>4. /\ DOMAIN messages' = DOMAIN messages
      /\ messages'[a] = [messages[a] EXCEPT !.text = @ \o Fragment(d, t), !.status = status]
      /\ \A m \in DOMAIN messages : m # a => messages'[m] = messages[m]
  BY <1>1 DEF WriteResponse
<1>5. messages[a].text \o Fragment(d, t) = Fragment(0, t) /\ Fragment(0, t) \in Seq(Nat)
  <2>. HIDE DEF a
  <2>1. d \in Nat /\ d <= t /\ 0 \in Nat /\ 0 <= t
    BY <1>1
  <2>. HIDE DEF d
  <2>2. Fragment(0, d) \o Fragment(d, t) = Fragment(0, t)
    BY Zenon, <2>1, FragmentConcat
  <2>3. Fragment(0, t) \in Seq(Nat)
    BY <2>1, FragmentType
  <2>. QED  BY <1>1, <2>2, <2>3
<1>6. /\ messages'[a] \in MessageRow
      /\ messages'[a].text = Fragment(0, t) /\ messages'[a].status = status
      /\ messages'[a].chat = messages[a].chat
      /\ messages'[a].ordinal = messages[a].ordinal /\ messages'[a].sibling = messages[a].sibling
      /\ messages'[a].parent = messages[a].parent /\ messages'[a].depth = messages[a].depth
  <2>1. messages'[a] = [messages[a] EXCEPT !.text = Fragment(0, t), !.status = status]
    BY Zenon, <1>1, <1>4, <1>5
  <2>2. messages'[a] =
          [chat |-> messages[a].chat, parent |-> messages[a].parent,
           sibling |-> messages[a].sibling, depth |-> messages[a].depth,
           ordinal |-> messages[a].ordinal, role |-> messages[a].role,
           status |-> status, text |-> Fragment(0, t)]
    BY Zenon, <1>1, <2>1 DEF MessageRow
  <2>. QED
    BY SMTT(60), <1>1, <1>5, <2>2 DEF MessageRow
<1>7. \A r \in DOMAIN requests : r # q => requests[r].assistant # a
  BY DEF JInv, OneWriter
<1>. HIDE DEF a, d
<1>8. TypeOK'
  BY <1>2, <1>3, <1>4, <1>6 DEF JInv, TypeOK
<1>9. Bounded'
  BY Zenon, <1>4, <1>6 DEF JInv, Bounded
<1>10. OneWriter'
  BY <1>2, <1>3 DEF JInv, OneWriter
<1>11. JournalOrdered'
  BY <1>2, <1>3 DEF JInv, JournalOrdered
<1>12. MessageAgreesWithRequest'
  <2>. SUFFICES ASSUME NEW r \in DOMAIN requests
       PROVE /\ requests'[r].assistant \in DOMAIN messages'
             /\ messages'[requests'[r].assistant].chat = requests'[r].chat
             /\ messages'[requests'[r].assistant].status =
                  IF requests'[r].row.status \in {"completed", "failed"}
                  THEN MessageStatusFor(requests'[r].row.status) ELSE "partial"
    BY <1>2 DEF MessageAgreesWithRequest, Of
  <2>1. /\ requests'[r].assistant \in DOMAIN messages'
        /\ messages'[requests'[r].assistant].chat = requests'[r].chat
    <3>1. requests[r].assistant \in DOMAIN messages
          /\ messages[requests[r].assistant].chat = requests[r].chat
      BY DEF JInv, MessageAgreesWithRequest, Of
    <3>2. messages'[requests[r].assistant].chat = messages[requests[r].assistant].chat
      BY Zenon, <3>1, <1>4, <1>6
    <3>. QED
      BY <3>1, <3>2, <1>3, <1>4
  <2>2. CASE r = q
    BY Zenon, <2>1, <2>2, <1>3, <1>6 DEF a
  <2>3. CASE r # q
    <3>1. messages'[requests[r].assistant] = messages[requests[r].assistant]
      BY <2>3, <1>4, <1>7 DEF JInv, MessageAgreesWithRequest, Of
    <3>. QED
      BY <2>1, <2>3, <3>1, <1>2 DEF JInv, MessageAgreesWithRequest
  <2>. QED  BY <2>2, <2>3
<1>13. TextIsDurablePrefix'
  <2>. SUFFICES ASSUME NEW r \in DOMAIN requests
       PROVE messages'[requests'[r].assistant].text = Fragment(0, requests'[r].row.durable)
    BY <1>2 DEF TextIsDurablePrefix
  <2>1. CASE r = q
    BY Zenon, <2>1, <1>3, <1>6 DEF a
  <2>2. CASE r # q
    <3>1. messages'[requests[r].assistant] = messages[requests[r].assistant]
      BY <2>2, <1>4, <1>7 DEF JInv, MessageAgreesWithRequest, Of
    <3>. QED
      BY <2>2, <3>1, <1>2 DEF JInv, TextIsDurablePrefix
  <2>. QED  BY <2>1, <2>2
<1>14. SameTree
  BY Zenon, <1>4, <1>6 DEF SameTree
<1>. QED
  BY <1>8, <1>9, <1>10, <1>11, <1>12, <1>13, <1>14 DEF JInv

\* The fields of the row finish_turn leaves.
LEMMA FinishedFields ==
  ASSUME NEW r \in RowType, NEW t \in Nat, NEW u \in Nat, NEW o \in RowStatus
  PROVE  LET s == FinishedRow(r, t, u, o) IN
         /\ s \in RowType
         /\ s.status = o /\ s.delivered = r.delivered /\ s.durable = t
         /\ s.acked = r.acked /\ s.usage = u
  BY Zenon DEF FinishedRow, RowType

\* checkpoint_response preserves the journal invariant.
LEMMA JCheckpoint ==
  ASSUME JInv, NEW q \in Request, NEW e \in Nat, NEW t \in Nat, NEW u \in Nat,
         CheckpointResponse(q, e, t, u)
  PROVE  JInv' /\ SameTree
<1>. DEFINE new == CheckpointedRow(requests[q].row, t, u)
<1>1. q \in DOMAIN requests /\ requests[q] \in RequestRow /\ RowOrdered(requests[q].row)
      /\ CanCheckpoint(requests[q].row, e, t, u)
  BY DEF CheckpointResponse, JInv, TypeOK, JournalOrdered
<1>2. requests[q].row \in RowType /\ requests[q].row.status = "running"
      /\ requests[q].row.durable = e /\ t > e
  BY <1>1 DEF CanCheckpoint, RequestRow
<1>3. new \in RowType /\ new.status = "running" /\ new.durable = t /\ RowOrdered(new)
  <2>1. /\ new \in RowType /\ new.status = "running" /\ new.durable = t
        /\ new.delivered = requests[q].row.delivered /\ new.acked = requests[q].row.acked
    BY Zenon, <1>2 DEF CheckpointedRow, RowType
  <2>. HIDE DEF new
  <2>. QED
    BY <1>1, <1>2, <2>1 DEF RowOrdered, CanCheckpoint, RowType
<1>4. /\ requests' = [requests EXCEPT ![q].row = new]
      /\ WriteResponse(q, requests[q].row.durable, t, "partial")
      /\ UNCHANGED <<chats, path>>
  BY <1>2 DEF CheckpointResponse
<1>5. "partial" \in MessageStatus
  BY DEF MessageStatus
<1>. HIDE DEF new
<1>. QED
  BY Zenon, <1>1, <1>2, <1>3, <1>4, <1>5, JWrite

\* finish_turn preserves the journal invariant, whatever the outcome.
LEMMA JFinish ==
  ASSUME JInv, NEW q \in Request, NEW e \in Nat, NEW t \in Nat, NEW u \in Nat,
         NEW outcome \in Outcomes, FinishTurn(q, e, t, u, outcome)
  PROVE  JInv' /\ SameTree
<1>. DEFINE new == FinishedRow(requests[q].row, t, u, outcome)
<1>1. q \in DOMAIN requests /\ requests[q] \in RequestRow /\ RowOrdered(requests[q].row)
      /\ CanCheckpoint(requests[q].row, e, t, u)
  BY DEF FinishTurn, JInv, TypeOK, JournalOrdered
<1>2. requests[q].row \in RowType /\ requests[q].row.status = "running"
      /\ requests[q].row.durable = e /\ t > e
  BY <1>1 DEF CanCheckpoint, RequestRow
<1>3. new \in RowType /\ new.status = outcome /\ new.durable = t /\ RowOrdered(new)
  <2>1. outcome \in RowStatus
    BY DEF RowStatus
  <2>. QED
    BY SMTT(60), <1>1, <1>2, <2>1, FinishedFields DEF RowOrdered, CanCheckpoint, RowType
<1>4. /\ requests' = [requests EXCEPT ![q].row = new]
      /\ WriteResponse(q, requests[q].row.durable, t, MessageStatusFor(outcome))
      /\ UNCHANGED <<chats, path>>
  BY <1>2 DEF FinishTurn
<1>5. /\ MessageStatusFor(outcome) \in MessageStatus
      /\ MessageStatusFor(outcome) =
           IF outcome \in {"completed", "failed"}
           THEN MessageStatusFor(outcome) ELSE "partial"
      /\ outcome # "interrupted"
  BY DEF MessageStatus, MessageStatusFor, Outcomes
<1>. HIDE DEF new
<1>. QED
  BY Zenon, <1>1, <1>2, <1>3, <1>4, <1>5, JWrite

\* recover_interrupted_requests preserves the journal invariant.  Its UPDATE
\* of messages changes nothing: the message of a running request is already
\* partial.
LEMMA JRestart ==
  ASSUME JInv, Restart
  PROVE  /\ JInv' /\ SameTree
         /\ \A m \in DOMAIN messages : messages'[m] = messages[m]
<1>1. \A m \in DOMAIN messages : messages'[m] = messages[m]
  <2>. SUFFICES ASSUME NEW m \in DOMAIN messages,
                       NEW q \in DOMAIN requests, requests[q].row.status = "running",
                       requests[q].assistant = m
                PROVE  [messages[m] EXCEPT !.status = "partial"] = messages[m]
    BY DEF Restart
  <2>1. messages[m] \in MessageRow /\ messages[m].status = "partial"
    BY DEF JInv, TypeOK, MessageAgreesWithRequest
  <2>. QED  BY <2>1 DEF MessageRow
<1>2. /\ DOMAIN messages' = DOMAIN messages
      /\ DOMAIN requests' = DOMAIN requests
      /\ chats' = chats /\ path' = path
  BY DEF Restart
<1>3. ASSUME NEW q \in DOMAIN requests
      PROVE  /\ requests'[q] \in RequestRow
             /\ requests'[q].assistant = requests[q].assistant
             /\ requests'[q].chat = requests[q].chat
             /\ requests'[q].row = RecoveredRow(requests[q].row)
  <2>1. requests[q] \in RequestRow /\ requests[q].row \in RowType
    BY DEF JInv, TypeOK, RequestRow
  <2>2. RecoveredRow(requests[q].row) \in RowType
    BY <2>1 DEF RecoveredRow, RowType, RowStatus
  <2>3. requests'[q] = [requests[q] EXCEPT !.row = RecoveredRow(requests[q].row)]
    BY DEF Restart
  <2>. QED  BY <2>1, <2>2, <2>3 DEF RequestRow
<1>4. ASSUME NEW q \in DOMAIN requests
      PROVE  /\ requests'[q].row.durable = requests[q].row.durable
             /\ RowOrdered(requests[q].row) => RowOrdered(requests'[q].row)
             /\ requests'[q].row.status \in {"completed", "failed"} <=>
                  requests[q].row.status \in {"completed", "failed"}
             /\ requests[q].row.status \in {"completed", "failed"} =>
                  requests'[q].row.status = requests[q].row.status
  <2>1. requests[q].row \in RowType
    BY DEF JInv, TypeOK, RequestRow
  <2>. QED  BY Zenon, <2>1, <1>3 DEF RecoveredRow, RowOrdered, RowType
<1>5. TypeOK'
  BY <1>1, <1>2, <1>3 DEF JInv, TypeOK
<1>6. Bounded'
  BY <1>1, <1>2 DEF JInv, Bounded
<1>7. OneWriter'
  BY <1>2, <1>3 DEF JInv, OneWriter
<1>8. JournalOrdered'
  BY <1>2, <1>4 DEF JInv, JournalOrdered
<1>9. MessageAgreesWithRequest'
  BY SMTT(60), <1>1, <1>2, <1>3, <1>4 DEF JInv, MessageAgreesWithRequest, Of
<1>10. TextIsDurablePrefix'
  BY SMTT(60), <1>1, <1>2, <1>3, <1>4 DEF JInv, TextIsDurablePrefix, MessageAgreesWithRequest, Of
<1>. QED
  BY <1>1, <1>2, <1>5, <1>6, <1>7, <1>8, <1>9, <1>10 DEF JInv, SameTree

\* Inserting new message rows keeps the old ones, the type and the bound.
LEMMA RowsInserted ==
  ASSUME JInv, NEW new, DOMAIN new \subseteq Message,
         DOMAIN new \cap DOMAIN messages = {},
         NEW b \in Nat,
         \A m \in DOMAIN new : /\ new[m] \in MessageRow
                               /\ new[m].ordinal <= b /\ new[m].sibling <= b,
         messages' = InsertMessages(new)
  PROVE  /\ DOMAIN messages' = DOMAIN messages \cup DOMAIN new
         /\ DOMAIN messages' \subseteq Message
         /\ \A m \in DOMAIN messages : messages'[m] = messages[m]
         /\ \A m \in DOMAIN new : messages'[m] = new[m]
         /\ \A m \in DOMAIN messages' : messages'[m] \in MessageRow
         /\ Bounded'
<1>1. /\ DOMAIN messages' = DOMAIN messages \cup DOMAIN new
      /\ \A m \in DOMAIN messages : messages'[m] = messages[m]
      /\ \A m \in DOMAIN new : messages'[m] = new[m]
  BY DEF InsertMessages
<1>2. DOMAIN messages' \subseteq Message /\ \A m \in DOMAIN messages' : messages'[m] \in MessageRow
  BY <1>1 DEF JInv, TypeOK
<1>3. PICK k \in Nat : \A m \in DOMAIN messages :
                         messages[m].ordinal <= k /\ messages[m].sibling <= k
  BY DEF JInv, Bounded
<1>4. ASSUME NEW m \in DOMAIN messages'
      PROVE  messages'[m].ordinal <= k + b /\ messages'[m].sibling <= k + b
  <2>1. messages'[m].ordinal \in Nat /\ messages'[m].sibling \in Nat
    BY <1>2 DEF MessageRow
  <2>2. CASE m \in DOMAIN messages
    BY <1>1, <1>3, <2>1, <2>2
  <2>3. CASE m \in DOMAIN new
    BY <1>1, <2>1, <2>3
  <2>. QED  BY <1>1, <2>2, <2>3
<1>5. Bounded'
  BY <1>4 DEF Bounded
<1>. QED
  BY <1>1, <1>2, <1>5

\* Whatever the stored path is, deleting its rows from the first difference on
\* and inserting the suffix (replace_active_path) leaves exactly the ancestry.
LEMMA ReSpliceIsAncestry ==
  ASSUME NEW D, NEW n \in Nat, NEW s \in [1 .. n -> D], NEW old \in Seq(D)
  PROVE  Respliced(old, s) = s
<1>. DEFINE differs == {i \in 1 .. n : i > Len(old) \/ old[i] # s[i]}
            d == Divergence(old, s)
<1>1. Len(s) = n /\ s \in Seq(D)
  OBVIOUS
<1>2. ASSUME NEW i \in 1 .. n, i < d PROVE old[i] = s[i]
  <2>1. CASE differs = {}
    BY <2>1
  <2>2. CASE differs # {}
    <3>1. differs \subseteq Nat
      OBVIOUS
    <3>2. d = Min(differs)
      BY <1>1, <2>2 DEF Divergence
    <3>3. i \in Nat /\ i < Min(differs)
      BY <1>2, <3>2
    <3>4. i \notin differs
      <4>. HIDE DEF differs, d
      <4>1. Min(differs) \in differs /\ \A x \in differs : Min(differs) <= x
        BY Zenon, <2>2, <3>1, LeastNatural
      <4>2. Min(differs) \in Nat
        BY Zenon, <4>1, <3>1
      <4>. QED  BY <3>3, <4>1, <4>2
    <3>. QED  BY <3>4
  <2>. QED  BY <2>1, <2>2
<1>3. Respliced(old, s) = [i \in 1 .. n |-> IF i < d THEN old[i] ELSE s[i]]
  BY <1>1 DEF Respliced
<1>. HIDE DEF d
<1>4. Respliced(old, s) = [i \in 1 .. n |-> s[i]]
  BY <1>2, <1>3
<1>. QED
  BY <1>4

-----------------------------------------------------------------------------
\* The inductive invariant of the message tree: the three properties the tree
\* run checks; together they are inductive over JInv.
TInv == PathIsAncestry /\ AncestryComplete /\ OrdinalsFollowTree

\* An ancestry depends on the chat, parent and depth of its messages only.
LEMMA AncestryKept ==
  ASSUME NEW t1, NEW t2, NEW c, NEW m, NEW s, Len(s) \in Nat \ {0},
         IsAncestry(t1, c, m, s),
         \A i \in 1 .. Len(s) : /\ t2[s[i]].chat = t1[s[i]].chat
                                /\ t2[s[i]].parent = t1[s[i]].parent
                                /\ t2[s[i]].depth = t1[s[i]].depth
  PROVE  IsAncestry(t2, c, m, s)
<1>1. 1 \in 1 .. Len(s)
  OBVIOUS
<1>2. \A i \in 2 .. Len(s) : i \in 1 .. Len(s)
  OBVIOUS
<1>. QED
  BY <1>1, <1>2 DEF IsAncestry

\* A step that leaves the shape of the tree alone preserves its invariant.
LEMMA TSame ==
  ASSUME JInv, TInv, SameTree
  PROVE  TInv'
<1>2. PathIsAncestry'
  <2>. SUFFICES ASSUME NEW c \in Chat
       PROVE /\ {m \in DOMAIN messages' : messages'[m].chat = c} = {} <=> path'[c] = <<>>
             /\ {m \in DOMAIN messages' : messages'[m].chat = c} # {} => c \in chats'
             /\ \A i \in 1 .. Len(path'[c]) : path'[c][i] \in DOMAIN messages'
             /\ path'[c] # <<>> =>
                  IsAncestry(messages', c, IF path'[c] = <<>> THEN NoMessage
                                           ELSE path'[c][Len(path'[c])], path'[c])
    BY DEF PathIsAncestry, Of, ActiveLeaf
  <2>1. path'[c] = path[c] /\ path[c] \in Seq(Message)
    BY DEF SameTree, JInv, TypeOK
  <2>2. {m \in DOMAIN messages' : messages'[m].chat = c} = Of(c)
    BY DEF SameTree, Of
  <2>3. /\ Of(c) = {} <=> path[c] = <<>>
        /\ Of(c) # {} => c \in chats
        /\ \A i \in 1 .. Len(path[c]) : path[c][i] \in DOMAIN messages
        /\ path[c] # <<>> => IsAncestry(messages, c, ActiveLeaf(c), path[c])
    BY DEF TInv, PathIsAncestry
  <2>4. ASSUME path[c] # <<>> PROVE IsAncestry(messages', c, ActiveLeaf(c), path[c])
    <3>1. Len(path[c]) \in Nat \ {0}
      BY <2>1, <2>4
    <3>. QED
      BY <2>3, <2>4, <3>1, AncestryKept DEF SameTree
  <2>. QED
    BY <2>1, <2>2, <2>3, <2>4 DEF SameTree, ActiveLeaf
<1>3. AncestryComplete'
  <2>. SUFFICES ASSUME NEW m \in DOMAIN messages
       PROVE \E s \in [1 .. messages'[m].depth + 1 -> DOMAIN messages'] :
               IsAncestry(messages', messages'[m].chat, m, s)
    BY DEF AncestryComplete, SameTree
  <2>1. PICK s \in [1 .. messages[m].depth + 1 -> DOMAIN messages] :
               IsAncestry(messages, messages[m].chat, m, s)
    BY DEF TInv, AncestryComplete
  <2>2. messages[m].depth \in Nat
    BY DEF JInv, TypeOK, MessageRow
  <2>3. Len(s) = messages[m].depth + 1
    BY <2>2
  <2>4. IsAncestry(messages', messages[m].chat, m, s)
    BY SMTT(60), <2>1, <2>2, <2>3, AncestryKept DEF SameTree
  <2>. QED
    BY <2>4 DEF SameTree
<1>4. OrdinalsFollowTree'
  BY SMTT(60) DEF TInv, OrdinalsFollowTree, SameTree
<1>. QED
  BY <1>2, <1>3, <1>4 DEF TInv

\* Inserting messages does not break the ancestry of the old ones.
LEMMA OldAncestry ==
  ASSUME JInv, TInv, DOMAIN messages \subseteq DOMAIN messages',
         \A n \in DOMAIN messages : messages'[n] = messages[n],
         NEW m \in DOMAIN messages
  PROVE  \E s \in [1 .. messages'[m].depth + 1 -> DOMAIN messages'] :
           IsAncestry(messages', messages'[m].chat, m, s)
<1>1. PICK s \in [1 .. messages[m].depth + 1 -> DOMAIN messages] :
             IsAncestry(messages, messages[m].chat, m, s)
  BY DEF TInv, AncestryComplete
<1>2. messages[m].depth \in Nat
  BY DEF JInv, TypeOK, MessageRow
<1>3. Len(s) = messages[m].depth + 1
  BY <1>2
<1>4. IsAncestry(messages', messages[m].chat, m, s)
  BY SMTT(60), <1>1, <1>2, <1>3, AncestryKept
<1>. QED
  BY <1>4

\* A message without a parent at depth 0 has a complete ancestry.
LEMMA RootAncestry ==
  ASSUME NEW tree, NEW m \in DOMAIN tree,
         tree[m].parent = NoMessage, tree[m].depth = 0
  PROVE  \E s \in [1 .. tree[m].depth + 1 -> DOMAIN tree] :
           IsAncestry(tree, tree[m].chat, m, s)
<1>. DEFINE s == [i \in 1 .. 1 |-> m]
<1>1. s \in [1 .. tree[m].depth + 1 -> DOMAIN tree] /\ Len(s) = 1 /\ s[1] = m
  OBVIOUS
<1>. HIDE DEF s
<1>2. IsAncestry(tree, tree[m].chat, m, s)
  BY <1>1 DEF IsAncestry
<1>. QED
  BY <1>1, <1>2

\* A message one below a message with a complete ancestry has one too.
LEMMA ChildAncestry ==
  ASSUME NEW tree, NEW p \in DOMAIN tree, NEW m \in DOMAIN tree,
         tree[p].depth \in Nat, tree[m].parent = p,
         tree[m].depth = tree[p].depth + 1, tree[m].chat = tree[p].chat,
         \E s \in [1 .. tree[p].depth + 1 -> DOMAIN tree] :
           IsAncestry(tree, tree[p].chat, p, s)
  PROVE  \E s \in [1 .. tree[m].depth + 1 -> DOMAIN tree] :
           IsAncestry(tree, tree[m].chat, m, s)
<1>1. PICK s \in [1 .. tree[p].depth + 1 -> DOMAIN tree] :
             IsAncestry(tree, tree[p].chat, p, s)
  OBVIOUS
<1>. DEFINE n == tree[p].depth + 1
            x == [i \in 1 .. n + 1 |-> IF i = n + 1 THEN m ELSE s[i]]
<1>2. /\ n \in Nat \ {0} /\ Len(s) = n /\ tree[m].depth + 1 = n + 1
  OBVIOUS
<1>3. /\ s[n] = p /\ tree[s[1]].parent = NoMessage
      /\ \A i \in 1 .. n : tree[s[i]].chat = tree[p].chat /\ tree[s[i]].depth = i - 1
      /\ \A i \in 2 .. n : tree[s[i]].parent = s[i - 1]
  BY <1>1, <1>2 DEF IsAncestry
<1>4. /\ x \in [1 .. n + 1 -> DOMAIN tree] /\ Len(x) = n + 1 /\ x[n + 1] = m
      /\ \A i \in 1 .. n : x[i] = s[i]
  BY SMTT(60), <1>2
<1>5. tree[m].depth = n /\ tree[m].parent = s[n]
  BY <1>3
<1>. HIDE DEF n, x
<1>6. \A i \in 1 .. n + 1 : tree[x[i]].chat = tree[m].chat /\ tree[x[i]].depth = i - 1
  <2>1. ASSUME NEW i \in 1 .. n + 1, i # n + 1
        PROVE  tree[x[i]].chat = tree[m].chat /\ tree[x[i]].depth = i - 1
    BY SMTT(60), <1>2, <1>3, <1>4, <2>1
  <2>. QED  BY SMTT(60), <1>2, <1>4, <1>5, <2>1
<1>7. \A i \in 2 .. n + 1 : tree[x[i]].parent = x[i - 1]
  <2>1. ASSUME NEW i \in 2 .. n + 1, i # n + 1
        PROVE  tree[x[i]].parent = x[i - 1]
    <3>1. i \in 2 .. n /\ i \in 1 .. n /\ i - 1 \in 1 .. n
      BY <1>2, <2>1
    <3>. QED  BY <1>3, <1>4, <3>1
  <2>2. tree[x[n + 1]].parent = x[(n + 1) - 1]
    <3>1. (n + 1) - 1 = n /\ n \in 1 .. n
      BY <1>2
    <3>. QED  BY <1>4, <1>5, <3>1
  <2>. QED  BY <2>1, <2>2
<1>8. tree[x[1]].parent = NoMessage
  BY SMTT(60), <1>2, <1>3, <1>4
<1>9. IsAncestry(tree, tree[m].chat, m, x)
  BY <1>4, <1>6, <1>7, <1>8 DEF IsAncestry
<1>. QED
  BY <1>2, <1>4, <1>9

\* The parent of a message is a message of the same chat.
LEMMA ParentInChat ==
  ASSUME JInv, TInv, NEW m \in DOMAIN messages
  PROVE  messages[m].parent \in Of(messages[m].chat) \cup {NoMessage}
<1>1. PICK s \in [1 .. messages[m].depth + 1 -> DOMAIN messages] :
             IsAncestry(messages, messages[m].chat, m, s)
  BY DEF TInv, AncestryComplete
<1>2. messages[m].depth \in Nat
  BY DEF JInv, TypeOK, MessageRow
<1>. DEFINE n == messages[m].depth + 1
<1>3. n \in Nat \ {0} /\ Len(s) = n
  BY <1>2
<1>4. CASE n = 1
  BY <1>1, <1>3, <1>4 DEF IsAncestry
<1>5. CASE n > 1
  <2>1. n \in 2 .. n /\ n - 1 \in 1 .. n
    BY <1>3, <1>5
  <2>2. s[n - 1] \in DOMAIN messages /\ messages[s[n - 1]].chat = messages[m].chat
        /\ messages[s[n]].parent = s[n - 1] /\ s[n] = m
    BY <1>1, <1>3, <2>1 DEF IsAncestry
  <2>. QED  BY <2>2 DEF Of
<1>. QED
  BY <1>3, <1>4, <1>5

\* PathIsAncestry for one chat, with the tables as parameters.
PathOK(ch, tree, pc, c) ==
  /\ {m \in DOMAIN tree : tree[m].chat = c} = {} <=> pc = <<>>
  /\ {m \in DOMAIN tree : tree[m].chat = c} # {} => c \in ch
  /\ \A i \in 1 .. Len(pc) : pc[i] \in DOMAIN tree
  /\ pc # <<>> => IsAncestry(tree, c, pc[Len(pc)], pc)

\* PathIsAncestry chat by chat, before and after a step.
LEMMA PathPerChat ==
  /\ PathIsAncestry <=> \A c \in Chat : PathOK(chats, messages, path[c], c)
  /\ PathIsAncestry' <=> \A c \in Chat : PathOK(chats', messages', path'[c], c)
<1>1. PathIsAncestry <=> \A c \in Chat : PathOK(chats, messages, path[c], c)
  BY DEF PathIsAncestry, PathOK, Of, ActiveLeaf
<1>2. PathIsAncestry' <=> \A c \in Chat : PathOK(chats', messages', path'[c], c)
  BY DEF PathIsAncestry, PathOK, Of, ActiveLeaf
<1>. QED
  BY <1>1, <1>2

\* A step that leaves the path and the messages of a chat alone keeps its path
\* an ancestry.
LEMMA PathUntouched ==
  ASSUME JInv, TInv, NEW c \in Chat, path'[c] = path[c], c \in chats => c \in chats',
         {m \in DOMAIN messages' : messages'[m].chat = c} = Of(c),
         \A m \in Of(c) : messages'[m] = messages[m]
  PROVE  PathOK(chats', messages', path'[c], c)
<1>1. PathOK(chats, messages, path[c], c) /\ path[c] \in Seq(Message)
  BY PathPerChat DEF TInv, JInv, TypeOK
<1>2. ASSUME path[c] # <<>> PROVE IsAncestry(messages', c, path[c][Len(path[c])], path[c])
  <2>1. Len(path[c]) \in Nat \ {0} /\ IsAncestry(messages, c, path[c][Len(path[c])], path[c])
    BY SMTT(60), <1>1, <1>2 DEF PathOK
  <2>2. \A i \in 1 .. Len(path[c]) : messages'[path[c][i]] = messages[path[c][i]]
    BY <1>1, <2>1 DEF PathOK, IsAncestry, Of
  <2>. QED  BY SMTT(60), <2>1, <2>2, AncestryKept
<1>3. \A i \in 1 .. Len(path[c]) : path[c][i] \in DOMAIN messages'
  <2>. SUFFICES ASSUME NEW i \in 1 .. Len(path[c]) PROVE path[c][i] \in Of(c)
    OBVIOUS
  <2>1. path[c] # <<>>
    BY <1>1
  <2>. QED  BY <1>1, <2>1 DEF PathOK, IsAncestry, Of
<1>. QED
  BY <1>1, <1>2, <1>3 DEF PathOK, Of

\* A path set to the ancestry of a message of the chat is a correct path.
LEMMA PathReplaced ==
  ASSUME NEW ch, NEW tree, NEW c \in ch, NEW leaf \in DOMAIN tree,
         tree[leaf].chat = c, tree[leaf].depth \in Nat,
         NEW s \in [1 .. tree[leaf].depth + 1 -> DOMAIN tree],
         IsAncestry(tree, c, leaf, s)
  PROVE  PathOK(ch, tree, s, c)
<1>1. Len(s) = tree[leaf].depth + 1 /\ s # <<>>
  OBVIOUS
<1>2. s[Len(s)] = leaf
  BY DEF IsAncestry
<1>. QED
  BY <1>1, <1>2 DEF PathOK

\* create_chat preserves both invariants.
LEMMA CreateChatPreserves ==
  ASSUME JInv, TInv, NEW c \in Chat, CreateChat(c)
  PROVE  JInv' /\ TInv'
<1>1. JInv'
  BY DEF CreateChat, JInv, TypeOK, Bounded, OneWriter, JournalOrdered,
     MessageAgreesWithRequest, TextIsDurablePrefix, Of
<1>2. AncestryComplete' /\ OrdinalsFollowTree'
  BY SMTT(60) DEF CreateChat, TInv, AncestryComplete, OrdinalsFollowTree
<1>3. ASSUME NEW x \in Chat PROVE PathOK(chats', messages', path'[x], x)
  BY PathUntouched DEF CreateChat, Of
<1>. QED
  BY <1>1, <1>2, <1>3, PathPerChat DEF TInv

\* What replace_active_path leaves: the ancestry of the leaf, as the path of
\* this chat only.
LEMMA Replaced ==
  ASSUME JInv, NEW c \in Chat, NEW tree, NEW leaf,
         ReplaceActivePath(tree, c, leaf), tree[leaf].depth \in Nat,
         DOMAIN tree \subseteq Message, DOMAIN messages \subseteq DOMAIN tree
  PROVE  /\ path' \in [Chat -> Seq(Message)]
         /\ \A x \in Chat : x # c => path'[x] = path[x]
         /\ leaf \in DOMAIN tree /\ tree[leaf].chat = c
         /\ path'[c] \in [1 .. tree[leaf].depth + 1 -> DOMAIN tree]
         /\ IsAncestry(tree, c, leaf, path'[c])
<1>1. PICK s \in [1 .. tree[leaf].depth + 1 -> DOMAIN tree] :
        /\ IsAncestry(tree, c, leaf, s)
        /\ path' = [path EXCEPT ![c] = Respliced(path[c], s)]
  BY Zenon DEF ReplaceActivePath
<1>2. path \in [Chat -> Seq(Message)]
  BY DEF JInv, TypeOK
<1>3. s \in [1 .. tree[leaf].depth + 1 -> Message] /\ tree[leaf].depth + 1 \in Nat
  OBVIOUS
<1>4. Respliced(path[c], s) = s
  BY Zenon, <1>2, <1>3, ReSpliceIsAncestry
<1>5. s \in Seq(Message)
  <2>. DEFINE n == tree[leaf].depth + 1
  <2>1. n \in Nat /\ s \in [1 .. n -> Message]
    BY <1>3
  <2>. HIDE DEF n
  <2>. QED  BY <2>1
<1>6. path' = [path EXCEPT ![c] = s]
  BY <1>1, <1>4
<1>. QED
  BY SMTT(60), <1>1, <1>2, <1>5, <1>6 DEF ReplaceActivePath

\* select_active_path preserves both invariants.
LEMMA SelectPreserves ==
  ASSUME JInv, TInv, NEW c \in Chat, NEW e, NEW leaf, SelectActivePath(c, e, leaf)
  PROVE  JInv' /\ TInv'
<1>1. /\ c \in chats /\ ReplaceActivePath(messages, c, leaf)
      /\ chats' = chats /\ messages' = messages /\ requests' = requests
  BY DEF SelectActivePath
<1>2. leaf \in DOMAIN messages /\ messages[leaf].depth \in Nat
  BY <1>1 DEF ReplaceActivePath, JInv, TypeOK, MessageRow
<1>3. /\ path' \in [Chat -> Seq(Message)]
      /\ \A x \in Chat : x # c => path'[x] = path[x]
      /\ messages[leaf].chat = c
      /\ path'[c] \in [1 .. messages[leaf].depth + 1 -> DOMAIN messages]
      /\ IsAncestry(messages, c, leaf, path'[c])
  <2>1. DOMAIN messages \subseteq Message
    BY DEF JInv, TypeOK
  <2>. QED  BY <1>1, <1>2, <2>1, Replaced
<1>4. JInv'
  BY <1>1, <1>3 DEF JInv, TypeOK, Bounded, OneWriter, JournalOrdered,
     MessageAgreesWithRequest, TextIsDurablePrefix, Of
<1>5. AncestryComplete' /\ OrdinalsFollowTree'
  BY SMTT(60), <1>1 DEF TInv, AncestryComplete, OrdinalsFollowTree
<1>6. ASSUME NEW x \in Chat PROVE PathOK(chats', messages', path'[x], x)
  <2>1. CASE x = c
    BY <1>1, <1>2, <1>3, <2>1, PathReplaced
  <2>2. CASE x # c
    BY <1>1, <1>3, <2>2, PathUntouched DEF Of
  <2>. QED  BY <2>1, <2>2
<1>. QED
  BY <1>4, <1>5, <1>6, PathPerChat DEF TInv

\* delete_chat and its cascades preserve both invariants: no row of another
\* chat depends on a deleted one.
LEMMA DeleteChatPreserves ==
  ASSUME JInv, TInv, NEW c \in Chat, DeleteChat(c)
  PROVE  JInv' /\ TInv'
<1>1. /\ chats' = chats \ {c}
      /\ DOMAIN messages' = {m \in DOMAIN messages : messages[m].chat # c}
      /\ \A m \in DOMAIN messages' : messages'[m] = messages[m]
      /\ path' = [path EXCEPT ![c] = <<>>]
      /\ DOMAIN requests' = {q \in DOMAIN requests : requests[q].chat # c}
      /\ \A q \in DOMAIN requests' : requests'[q] = requests[q]
  BY DEF DeleteChat, Restrict, Of
<1>2. path' \in [Chat -> Seq(Message)] /\ path'[c] = <<>>
      /\ \A x \in Chat : x # c => path'[x] = path[x]
  BY SMTT(60), <1>1 DEF JInv, TypeOK
<1>3. TypeOK'
  BY <1>1, <1>2 DEF JInv, TypeOK
<1>4. Bounded'
  BY <1>1 DEF JInv, Bounded
<1>5. OneWriter' /\ JournalOrdered'
  BY <1>1 DEF JInv, OneWriter, JournalOrdered
<1>6. \A q \in DOMAIN requests' : requests'[q].assistant \in DOMAIN messages'
  BY <1>1 DEF JInv, MessageAgreesWithRequest, Of
<1>7. MessageAgreesWithRequest'
  BY SMTT(60), <1>1, <1>6 DEF JInv, MessageAgreesWithRequest, Of
<1>8. TextIsDurablePrefix'
  BY <1>1, <1>6 DEF JInv, TextIsDurablePrefix
<1>9. AncestryComplete'
  <2>. SUFFICES ASSUME NEW m \in DOMAIN messages'
       PROVE \E s \in [1 .. messages'[m].depth + 1 -> DOMAIN messages'] :
               IsAncestry(messages', messages'[m].chat, m, s)
    BY DEF AncestryComplete
  <2>1. m \in DOMAIN messages /\ messages[m].chat # c /\ messages'[m] = messages[m]
        /\ messages[m].depth \in Nat
    BY <1>1 DEF JInv, TypeOK, MessageRow
  <2>2. PICK s \in [1 .. messages[m].depth + 1 -> DOMAIN messages] :
               IsAncestry(messages, messages[m].chat, m, s)
    BY <2>1 DEF TInv, AncestryComplete
  <2>3. Len(s) = messages[m].depth + 1
    BY <2>1
  <2>4. \A i \in 1 .. Len(s) : s[i] \in DOMAIN messages'
    BY <1>1, <2>1, <2>2, <2>3 DEF IsAncestry
  <2>5. IsAncestry(messages', messages[m].chat, m, s)
    BY SMTT(60), <1>1, <2>1, <2>2, <2>3, <2>4, AncestryKept
  <2>6. s \in [1 .. messages[m].depth + 1 -> DOMAIN messages']
    BY <2>3, <2>4
  <2>. QED  BY <2>1, <2>5, <2>6
<1>10. OrdinalsFollowTree'
  BY SMTT(60), <1>1 DEF TInv, OrdinalsFollowTree
<1>11. ASSUME NEW x \in Chat PROVE PathOK(chats', messages', path'[x], x)
  <2>1. CASE x = c
    BY SMTT(60), <1>1, <1>2, <2>1 DEF PathOK
  <2>2. CASE x # c
    <3>1. {m \in DOMAIN messages' : messages'[m].chat = x} = Of(x)
      BY <1>1, <2>2 DEF Of
    <3>2. \A m \in Of(x) : messages'[m] = messages[m]
      BY <1>1, <2>2 DEF Of
    <3>. QED  BY Zenon, <1>1, <1>2, <2>2, <3>1, <3>2, PathUntouched
  <2>. QED  BY <2>1, <2>2
<1>. QED
  BY <1>3, <1>4, <1>5, <1>7, <1>8, <1>9, <1>10, <1>11, PathPerChat DEF JInv, TInv

\* Rows numbered by next_message_ordinal and next_sibling_ordinal keep the
\* ordinals unique and growing along every branch.
LEMMA OrdinalsGrow ==
  ASSUME JInv, TInv, NEW c, DOMAIN messages \subseteq DOMAIN messages',
         \A m \in DOMAIN messages : messages'[m] = messages[m],
         NEW N, DOMAIN messages' = DOMAIN messages \cup N, N \cap DOMAIN messages = {},
         N \subseteq Message,
         \A m \in N : /\ messages'[m].chat = c
                      /\ messages'[m].ordinal \in Nat /\ messages'[m].sibling \in Nat
                      /\ messages'[m].ordinal >= NextMessageOrdinal(c)
                      /\ messages'[m].parent \in DOMAIN messages \cup {NoMessage} =>
                           messages'[m].sibling >= NextSiblingOrdinal(c, messages'[m].parent),
         \A m, n \in N :
           /\ messages'[m].ordinal = messages'[n].ordinal => m = n
           /\ messages'[m].parent = messages'[n].parent
                /\ messages'[m].sibling = messages'[n].sibling => m = n
           /\ messages'[m].parent = n => messages'[n].ordinal < messages'[m].ordinal
  PROVE  OrdinalsFollowTree'
<1>. SUFFICES ASSUME NEW m \in DOMAIN messages', NEW n \in DOMAIN messages',
                     messages'[m].chat = messages'[n].chat
     PROVE  /\ messages'[m].ordinal = messages'[n].ordinal => m = n
            /\ messages'[m].parent = messages'[n].parent
                 /\ messages'[m].sibling = messages'[n].sibling => m = n
            /\ messages'[m].parent = n => messages'[n].ordinal < messages'[m].ordinal
  BY DEF OrdinalsFollowTree
<1>1. TypeOK /\ Bounded
  BY DEF JInv
<1>2. CASE m \in DOMAIN messages /\ n \in DOMAIN messages
  BY SMTT(60), <1>2 DEF TInv, OrdinalsFollowTree
<1>3. CASE m \in N /\ n \in N
  BY <1>3
<1>4. ASSUME NEW x \in N, NEW o \in DOMAIN messages, messages[o].chat = c
      PROVE  /\ messages[o].ordinal \in Nat /\ messages[o].sibling \in Nat
             /\ messages[o].ordinal < messages'[x].ordinal
             /\ messages[o].parent # x
             /\ messages[o].parent = messages'[x].parent =>
                  messages[o].sibling < messages'[x].sibling
  <2>1. messages[o].ordinal \in Nat /\ messages[o].sibling \in Nat
    BY DEF JInv, TypeOK, MessageRow
  <2>2. messages[o].parent \in Of(c) \cup {NoMessage}
    BY <1>4, ParentInChat
  <2>3. messages[o].parent # x
    BY <2>2, ConstantsAssumption DEF Of
  <2>4. o \in Of(c) /\ NextMessageOrdinal(c) \in Nat
        /\ messages[o].ordinal < NextMessageOrdinal(c)
    BY <1>1, <1>4, NextOrdinal DEF Of
  <2>5. ASSUME messages[o].parent = messages'[x].parent
        PROVE  messages[o].sibling < messages'[x].sibling
    <3>. DEFINE k == NextSiblingOrdinal(c, messages[o].parent)
    <3>1. k \in Nat /\ messages[o].sibling < k
      BY <1>1, <2>4, NextSibling
    <3>2. messages'[x].sibling >= k
      BY <2>2, <2>5 DEF Of
    <3>. HIDE DEF k
    <3>. QED  BY SMTT(60), <2>1, <3>1, <3>2
  <2>. QED  BY SMTT(60), <2>1, <2>3, <2>4, <2>5
<1>5. CASE m \in N /\ n \in DOMAIN messages
  <2>1. messages[n].chat = c /\ messages'[n] = messages[n]
    BY <1>5
  <2>. QED  BY SMTT(60), <1>4, <1>5, <2>1
<1>6. CASE m \in DOMAIN messages /\ n \in N
  <2>1. messages[m].chat = c /\ messages'[m] = messages[m]
    BY <1>6
  <2>. QED  BY SMTT(60), <1>4, <1>6, <2>1
<1>. QED
  BY <1>2, <1>3, <1>5, <1>6

\* append_branch_message preserves both invariants.
LEMMA AppendPreserves ==
  ASSUME JInv, TInv, NEW c \in Chat, NEW e, NEW p \in Message \cup {NoMessage},
         NEW m \in Message, NEW role \in {"user", "assistant"},
         AppendBranchMessage(c, e, p, m, role)
  PROVE  JInv' /\ TInv'
<1>. DEFINE sib == NextSiblingOrdinal(c, p)
            ord == NextMessageOrdinal(c)
            dep == DepthBelow(p)
            row == [chat |-> c, parent |-> p, sibling |-> sib, depth |-> dep,
                    ordinal |-> ord, role |-> role, status |-> "complete", text |-> <<>>]
            new == [x \in {m} |-> row]
<1>1. /\ c \in chats /\ m \notin DOMAIN messages /\ p \in Of(c) \cup {NoMessage}
      /\ messages' = InsertMessages(new) /\ ReplaceActivePath(messages', c, m)
      /\ chats' = chats /\ requests' = requests
  BY DEF AppendBranchMessage
<1>2. TypeOK /\ Bounded
  BY DEF JInv
<1>3. sib \in Nat \ {0} /\ ord \in Nat \ {0}
  BY <1>2, NextSibling, NextOrdinal
<1>4. /\ p = NoMessage => dep = 0
      /\ p # NoMessage => p \in DOMAIN messages /\ messages[p].chat = c
                          /\ messages[p].depth \in Nat /\ dep = messages[p].depth + 1
  BY <1>1, <1>2 DEF DepthBelow, TypeOK, MessageRow, Of
<1>5. dep \in Nat
  BY SMTT(60), <1>4
<1>. HIDE DEF sib, ord, dep
<1>6. row \in MessageRow
  BY SMTT(60), <1>3, <1>5 DEF MessageRow, MessageStatus
<1>7. /\ row.chat = c /\ row.parent = p /\ row.sibling = sib /\ row.depth = dep
      /\ row.ordinal = ord
  OBVIOUS
<1>. HIDE DEF row
<1>8. /\ DOMAIN messages' = DOMAIN messages \cup {m}
      /\ DOMAIN messages' \subseteq Message
      /\ \A x \in DOMAIN messages : messages'[x] = messages[x]
      /\ messages'[m] = row
      /\ \A x \in DOMAIN messages' : messages'[x] \in MessageRow
      /\ Bounded'
  <2>. DEFINE b == sib + ord
  <2>1. b \in Nat /\ row.ordinal <= b /\ row.sibling <= b
    BY <1>3, <1>7
  <2>2. DOMAIN new = {m} /\ new[m] = row
    OBVIOUS
  <2>. HIDE DEF b, new
  <2>. QED  BY Zenon, <1>1, <1>6, <2>1, <2>2, RowsInserted
<1>9. /\ path' \in [Chat -> Seq(Message)]
      /\ \A x \in Chat : x # c => path'[x] = path[x]
      /\ path'[c] \in [1 .. messages'[m].depth + 1 -> DOMAIN messages']
      /\ IsAncestry(messages', c, m, path'[c])
  BY <1>1, <1>5, <1>7, <1>8, Replaced
<1>10. \A q \in DOMAIN requests :
         /\ requests[q].assistant \in DOMAIN messages
         /\ messages'[requests[q].assistant] = messages[requests[q].assistant]
  BY <1>8 DEF JInv, MessageAgreesWithRequest, Of
<1>11. JInv'
  <2>1. TypeOK'
    BY <1>1, <1>8, <1>9 DEF JInv, TypeOK
  <2>2. MessageAgreesWithRequest'
    BY SMTT(60), <1>1, <1>8, <1>10 DEF JInv, MessageAgreesWithRequest, Of
  <2>3. TextIsDurablePrefix'
    BY <1>1, <1>10 DEF JInv, TextIsDurablePrefix
  <2>4. OneWriter' /\ JournalOrdered'
    BY <1>1 DEF JInv, OneWriter, JournalOrdered
  <2>. QED  BY <1>8, <2>1, <2>2, <2>3, <2>4 DEF JInv
<1>12. AncestryComplete'
  <2>. SUFFICES ASSUME NEW x \in DOMAIN messages'
       PROVE \E s \in [1 .. messages'[x].depth + 1 -> DOMAIN messages'] :
               IsAncestry(messages', messages'[x].chat, x, s)
    BY DEF AncestryComplete
  <2>1. CASE x \in DOMAIN messages
    BY <1>8, <2>1, OldAncestry
  <2>2. CASE x = m
    BY <1>7, <1>8, <1>9, <2>2
  <2>. QED  BY <1>8, <2>1, <2>2
<1>13. OrdinalsFollowTree'
  <2>1. p # m
    BY <1>1, ConstantsAssumption DEF Of
  <2>2. /\ row.ordinal >= NextMessageOrdinal(c) /\ row.sibling >= NextSiblingOrdinal(c, row.parent)
        /\ row.ordinal \in Nat /\ row.sibling \in Nat
    BY <1>3, <1>7 DEF sib, ord
  <2>. DEFINE N == {m}
  <2>3. /\ DOMAIN messages' = DOMAIN messages \cup N /\ N \cap DOMAIN messages = {}
        /\ N \subseteq Message
        /\ \A x \in N : x = m /\ messages'[x] = row
    BY <1>1, <1>8
  <2>. HIDE DEF N
  <2>. QED  BY SMTT(60), <1>7, <1>8, <2>1, <2>2, <2>3, OrdinalsGrow
<1>14. ASSUME NEW x \in Chat PROVE PathOK(chats', messages', path'[x], x)
  <2>1. CASE x = c
    BY Zenon, <1>1, <1>5, <1>7, <1>8, <1>9, <2>1, PathReplaced
  <2>2. CASE x # c
    <3>1. {y \in DOMAIN messages' : messages'[y].chat = x} = Of(x)
      BY <1>1, <1>7, <1>8, <2>2 DEF Of
    <3>2. \A y \in Of(x) : messages'[y] = messages[y]
      BY <1>8 DEF Of
    <3>. QED  BY <1>1, <1>9, <2>2, <3>1, <3>2, PathUntouched
  <2>. QED  BY <2>1, <2>2
<1>. QED
  BY <1>11, <1>12, <1>13, <1>14, PathPerChat DEF TInv

\* begin_turn preserves both invariants.  It extends the path by its two
\* messages without the ancestry query; PathIsAncestry before the step is what
\* makes the longer path an ancestry again.
LEMMA BeginTurnPreserves ==
  ASSUME JInv, TInv, NEW c \in Chat, NEW q \in Request, NEW u \in Message, NEW a \in Message,
         BeginTurn(q, c, u, a)
  PROVE  JInv' /\ TInv'
<1>. DEFINE leaf == ActiveLeaf(c)
            n == Len(path[c])
            sib == NextSiblingOrdinal(c, leaf)
            ord == NextMessageOrdinal(c)
            dep == DepthBelow(leaf)
            urow == [chat |-> c, parent |-> leaf, sibling |-> sib, depth |-> dep,
                     ordinal |-> ord, role |-> "user", status |-> "complete", text |-> <<>>]
            arow == [chat |-> c, parent |-> u, sibling |-> 1, depth |-> dep + 1,
                     ordinal |-> ord + 1, role |-> "assistant", status |-> "partial",
                     text |-> <<>>]
            new == [m \in {u, a} |-> IF m = u THEN urow ELSE arow]
<1>1. /\ c \in chats /\ q \notin DOMAIN requests /\ u # a
      /\ u \notin DOMAIN messages /\ a \notin DOMAIN messages
      /\ path' = [path EXCEPT ![c] = path[c] \o <<u, a>>]
      /\ chats' = chats
      /\ DOMAIN requests' = DOMAIN requests \cup {q}
      /\ requests'[q] = [chat |-> c, assistant |-> a, row |-> NewRow]
      /\ \A r \in DOMAIN requests : requests'[r] = requests[r]
  BY DEF BeginTurn
<1>2. messages' = InsertMessages(new)
  <2>. DEFINE old == [m \in {u, a} |->
          [chat |-> c,
           parent |-> IF m = u THEN leaf ELSE u,
           sibling |-> IF m = u THEN sib ELSE 1,
           depth |-> IF m = u THEN dep ELSE dep + 1,
           ordinal |-> IF m = u THEN ord ELSE ord + 1,
           role |-> IF m = u THEN "user" ELSE "assistant",
           status |-> IF m = u THEN "complete" ELSE "partial",
           text |-> <<>>]]
  <2>1. messages' = InsertMessages(old)
    BY Zenon DEF BeginTurn
  <2>. HIDE DEF leaf, sib, ord, dep
  <2>2. old = new
    BY <1>1
  <2>. QED  BY <2>1, <2>2
<1>3. TypeOK /\ Bounded
  BY DEF JInv
<1>4. sib \in Nat \ {0} /\ ord \in Nat \ {0}
  BY <1>3, NextSibling, NextOrdinal
<1>5. /\ PathOK(chats, messages, path[c], c) /\ path \in [Chat -> Seq(Message)]
      /\ path[c] \in Seq(Message) /\ n \in Nat
  BY SMTT(60), <1>3, PathPerChat DEF TInv, TypeOK
<1>6. /\ n = 0 => leaf = NoMessage /\ dep = 0
      /\ n > 0 => /\ leaf = path[c][n] /\ leaf \in DOMAIN messages /\ messages[leaf].chat = c
                  /\ messages[leaf].depth = n - 1 /\ dep = n
                  /\ IsAncestry(messages, c, leaf, path[c])
  <2>1. CASE n = 0
    <3>1. path[c] = <<>>
      BY SMTT(60), <1>5, <2>1
    <3>. QED  BY SMTT(60), <2>1, <3>1 DEF ActiveLeaf, DepthBelow
  <2>2. CASE n > 0
    <3>1. path[c] # <<>> /\ n \in 1 .. n
      BY <1>5, <2>2
    <3>2. leaf = path[c][n] /\ IsAncestry(messages, c, leaf, path[c]) /\ leaf \in DOMAIN messages
      BY <1>5, <3>1 DEF PathOK, ActiveLeaf
    <3>3. messages[leaf].chat = c /\ messages[leaf].depth = n - 1
      BY <3>1, <3>2 DEF IsAncestry
    <3>4. leaf # NoMessage
      BY <1>3, <3>2, ConstantsAssumption DEF TypeOK
    <3>5. dep = messages[leaf].depth + 1
      BY <3>4 DEF DepthBelow
    <3>. HIDE DEF leaf, dep, n
    <3>. QED  BY SMTT(60), <1>5, <2>2, <3>2, <3>3, <3>5
  <2>. QED  BY <1>5, <2>1, <2>2
<1>7. dep = n /\ leaf \in DOMAIN messages \cup {NoMessage}
      /\ leaf \in Message \cup {NoMessage}
  BY SMTT(60), <1>3, <1>5, <1>6 DEF TypeOK
<1>. HIDE DEF leaf, sib, ord, dep
<1>8. urow \in MessageRow /\ arow \in MessageRow
  BY SMTT(60), <1>4, <1>5, <1>7 DEF MessageRow, MessageStatus
<1>9. /\ urow.chat = c /\ urow.parent = leaf /\ urow.sibling = sib /\ urow.depth = n
      /\ urow.ordinal = ord
      /\ arow.chat = c /\ arow.parent = u /\ arow.sibling = 1 /\ arow.depth = n + 1
      /\ arow.ordinal = ord + 1 /\ arow.status = "partial" /\ arow.text = <<>>
  BY <1>7
<1>. HIDE DEF urow, arow
<1>10. /\ DOMAIN messages' = DOMAIN messages \cup {u, a}
       /\ DOMAIN messages' \subseteq Message
       /\ \A x \in DOMAIN messages : messages'[x] = messages[x]
       /\ messages'[u] = urow /\ messages'[a] = arow
       /\ \A x \in DOMAIN messages' : messages'[x] \in MessageRow
       /\ Bounded'
  <2>. DEFINE b == sib + ord + 1
  <2>1. /\ b \in Nat /\ urow.ordinal <= b /\ urow.sibling <= b
        /\ arow.ordinal <= b /\ arow.sibling <= b
    BY SMTT(60), <1>4, <1>9
  <2>2. DOMAIN new = {u, a} /\ new[u] = urow /\ new[a] = arow
    BY Zenon, <1>1
  <2>. HIDE DEF b, new
  <2>. QED  BY ZenonT(60), <1>1, <1>2, <1>8, <2>1, <2>2, RowsInserted
<1>11. /\ path' \in [Chat -> Seq(Message)] /\ path'[c] = path[c] \o <<u, a>>
       /\ \A x \in Chat : x # c => path'[x] = path[x]
  BY SMTT(60), <1>1, <1>5
<1>. HIDE DEF new, n
<1>b. n \in Nat
  BY <1>5
<1>c. /\ DOMAIN messages' = DOMAIN messages \cup {u, a}
      /\ \A x \in DOMAIN messages : messages'[x] = messages[x]
  BY <1>10
<1>d. /\ messages'[u].chat = c /\ messages'[u].parent = leaf /\ messages'[u].depth = n
      /\ messages'[a].chat = c /\ messages'[a].parent = u /\ messages'[a].depth = n + 1
  BY <1>9, <1>10
<1>e. messages'[a].status = "partial" /\ messages'[a].text = <<>>
  BY <1>9, <1>10
<1>12. NewRow \in RowType /\ RowOrdered(NewRow) /\ NewRow.durable = 0 /\ NewRow.status = "running"
  BY Zenon, NewRowFacts
<1>13. \A r \in DOMAIN requests :
         /\ requests[r].assistant \in DOMAIN messages
         /\ messages'[requests[r].assistant] = messages[requests[r].assistant]
         /\ requests[r].assistant # a
  BY <1>1, <1>c DEF JInv, MessageAgreesWithRequest, Of
<1>a. /\ DOMAIN requests' = DOMAIN requests \cup {q} /\ q \notin DOMAIN requests
      /\ requests'[q].chat = c /\ requests'[q].assistant = a /\ requests'[q].row = NewRow
      /\ \A r \in DOMAIN requests : requests'[r] = requests[r]
  <2>1. requests'[q] = [chat |-> c, assistant |-> a, row |-> NewRow]
    BY <1>1
  <2>2. requests'[q].chat = c /\ requests'[q].assistant = a /\ requests'[q].row = NewRow
    BY SMTT(60), <2>1
  <2>. QED  BY <1>1, <2>2, Zenon
<1>14. JInv'
  <2>1. TypeOK'
    <3>1. requests'[q] = [chat |-> c, assistant |-> a, row |-> NewRow] /\ NewRow \in RowType
      BY Zenon, <1>1, <1>12
    <3>2. requests'[q] \in RequestRow
      BY Zenon, <3>1, RequestTyped
    <3>. QED  BY Zenon, <1>1, <1>10, <1>11, <3>2 DEF JInv, TypeOK
  <2>2. MessageAgreesWithRequest'
    <3>. SUFFICES ASSUME NEW r \in DOMAIN requests'
         PROVE /\ requests'[r].assistant \in DOMAIN messages'
               /\ messages'[requests'[r].assistant].chat = requests'[r].chat
               /\ messages'[requests'[r].assistant].status =
                    IF requests'[r].row.status \in {"completed", "failed"}
                    THEN MessageStatusFor(requests'[r].row.status) ELSE "partial"
      BY DEF MessageAgreesWithRequest, Of
    <3>1. CASE r = q
      BY <1>a, <1>c, <1>d, <1>e, <1>12, <3>1
    <3>2. CASE r \in DOMAIN requests
      BY SMTT(60), <1>a, <1>c, <1>13, <3>2 DEF JInv, MessageAgreesWithRequest, Of
    <3>. QED  BY <1>a, <3>1, <3>2
  <2>3. TextIsDurablePrefix'
    <3>. SUFFICES ASSUME NEW r \in DOMAIN requests'
         PROVE  messages'[requests'[r].assistant].text = Fragment(0, requests'[r].row.durable)
      BY DEF TextIsDurablePrefix
    <3>1. CASE r = q
      <4>1. Fragment(0, 0) = <<>>
        BY DEF Fragment
      <4>. QED  BY <1>a, <1>e, <1>12, <3>1, <4>1
    <3>2. CASE r \in DOMAIN requests
      BY <1>a, <1>13, <3>2 DEF JInv, TextIsDurablePrefix
    <3>. QED  BY <1>a, <3>1, <3>2
  <2>4. OneWriter'
    <3>. SUFFICES ASSUME NEW r \in DOMAIN requests', NEW s \in DOMAIN requests',
                         requests'[r].assistant = requests'[s].assistant
         PROVE  r = s
      BY DEF OneWriter
    <3>1. CASE r \in DOMAIN requests /\ s \in DOMAIN requests
      BY <1>a, <3>1 DEF JInv, OneWriter
    <3>2. CASE r = q \/ s = q
      BY <1>a, <1>13, <3>2
    <3>. QED  BY <1>a, <3>1, <3>2
  <2>5. JournalOrdered'
    <3>. SUFFICES ASSUME NEW r \in DOMAIN requests'
         PROVE  RowOrdered(requests'[r].row)
      BY DEF JournalOrdered
    <3>1. CASE r = q
      BY <1>a, <1>12, <3>1
    <3>2. CASE r \in DOMAIN requests
      BY <1>a, <3>2 DEF JInv, JournalOrdered
    <3>. QED  BY <1>a, <3>1, <3>2
  <2>. QED  BY <1>10, <2>1, <2>2, <2>3, <2>4, <2>5 DEF JInv
<1>15. AncestryComplete'
  <2>. DEFINE Reaches(x) == \E s \in [1 .. messages'[x].depth + 1 -> DOMAIN messages'] :
                              IsAncestry(messages', messages'[x].chat, x, s)
  <2>1. ASSUME NEW x \in DOMAIN messages PROVE Reaches(x)
    BY <1>10, OldAncestry
  <2>2. Reaches(u)
    <3>1. CASE n = 0
      BY Zenon, <1>6, <1>c, <1>d, <3>1, RootAncestry
    <3>2. CASE n > 0
      <4>1. /\ leaf \in DOMAIN messages /\ messages'[leaf] = messages[leaf]
            /\ messages'[leaf].depth \in Nat /\ messages'[u].depth = messages'[leaf].depth + 1
            /\ messages'[u].chat = messages'[leaf].chat /\ messages'[u].parent = leaf
        BY SMTT(60), <1>b, <1>6, <1>c, <1>d, <3>2
      <4>2. Reaches(leaf)
        BY <2>1, <4>1
      <4>. QED  BY <1>c, <4>1, <4>2, ChildAncestry
    <3>. QED  BY SMTT(60), <1>b, <3>1, <3>2
  <2>3. Reaches(a)
    <3>1. /\ messages'[u].depth \in Nat /\ messages'[a].depth = messages'[u].depth + 1
          /\ messages'[a].chat = messages'[u].chat /\ messages'[a].parent = u
      BY <1>b, <1>d
    <3>. QED  BY <1>c, <2>2, <3>1, ChildAncestry
  <2>. QED  BY <1>c, <2>1, <2>2, <2>3 DEF AncestryComplete
<1>16. OrdinalsFollowTree'
  <2>1. leaf # u /\ leaf # a /\ leaf # NoMessage => leaf \in DOMAIN messages
    BY <1>1, <1>7, ConstantsAssumption
  <2>2. /\ urow.ordinal >= NextMessageOrdinal(c) /\ arow.ordinal >= NextMessageOrdinal(c)
        /\ urow.sibling >= NextSiblingOrdinal(c, urow.parent)
        /\ urow.ordinal \in Nat /\ urow.sibling \in Nat
        /\ arow.ordinal \in Nat /\ arow.sibling \in Nat /\ urow.ordinal < arow.ordinal
    BY SMTT(60), <1>4, <1>9 DEF sib, ord
  <2>3. leaf # u /\ leaf # a /\ u \notin DOMAIN messages \cup {NoMessage}
    BY <1>1, <1>7, ConstantsAssumption
  <2>. DEFINE N == {u, a}
  <2>4. /\ DOMAIN messages' = DOMAIN messages \cup N /\ N \cap DOMAIN messages = {}
        /\ N \subseteq Message
    BY <1>1, <1>10
  <2>5. \A x \in N : /\ messages'[x].chat = c
                     /\ messages'[x].ordinal \in Nat /\ messages'[x].sibling \in Nat
                     /\ messages'[x].ordinal >= NextMessageOrdinal(c)
                     /\ messages'[x].parent \in DOMAIN messages \cup {NoMessage} =>
                          messages'[x].sibling >= NextSiblingOrdinal(c, messages'[x].parent)
    BY <1>9, <1>10, <2>2, <2>3
  <2>6. \A x, y \in N :
           /\ messages'[x].ordinal = messages'[y].ordinal => x = y
           /\ messages'[x].parent = messages'[y].parent
                /\ messages'[x].sibling = messages'[y].sibling => x = y
           /\ messages'[x].parent = y => messages'[y].ordinal < messages'[x].ordinal
    <3>1. /\ messages'[u].ordinal = urow.ordinal /\ messages'[a].ordinal = arow.ordinal
          /\ messages'[u].parent = leaf /\ messages'[a].parent = u
      BY <1>9, <1>10
    <3>2. u # a /\ leaf # u /\ leaf # a /\ urow.ordinal < arow.ordinal
      BY <1>1, <2>2, <2>3
    <3>3. urow.ordinal # arow.ordinal
      BY SMTT(60), <2>2
    <3>. SUFFICES ASSUME NEW x \in N, NEW y \in N, x # y
         PROVE  /\ messages'[x].ordinal # messages'[y].ordinal
                /\ messages'[x].parent # messages'[y].parent
                /\ messages'[x].parent = y => messages'[y].ordinal < messages'[x].ordinal
      BY <3>1, <3>2
    <3>4. CASE x = u /\ y = a
      BY <3>1, <3>2, <3>3, <3>4
    <3>5. CASE x = a /\ y = u
      BY <3>1, <3>2, <3>3, <3>5
    <3>. QED  BY SMTT(60), <3>4, <3>5
  <2>. HIDE DEF N
  <2>. QED  BY <1>10, <2>4, <2>5, <2>6, OrdinalsGrow
<1>17. ASSUME NEW x \in Chat PROVE PathOK(chats', messages', path'[x], x)
  <2>1. CASE x = c
    <3>. DEFINE s == path'[c]
    <3>1. /\ s \in Seq(Message) /\ Len(s) = n + 2 /\ s[n + 1] = u /\ s[n + 2] = a
          /\ \A i \in 1 .. n : s[i] = path[c][i]
      BY SMTT(60), <1>5, <1>11 DEF n
    <3>2. ASSUME NEW i \in 1 .. n
          PROVE  /\ s[i] \in DOMAIN messages /\ messages'[s[i]] = messages[s[i]]
                 /\ messages[s[i]].chat = c /\ messages[s[i]].depth = i - 1
      <4>1. s[i] = path[c][i] /\ n > 0
        BY SMTT(60), <1>5, <3>1
      <4>. HIDE DEF s
      <4>2. s[i] \in DOMAIN messages /\ messages[s[i]].chat = c /\ messages[s[i]].depth = i - 1
        <5>1. i \in 1 .. Len(path[c])
          BY DEF n
        <5>2. IsAncestry(messages, c, leaf, path[c])
          BY <1>6, <4>1
        <5>3. path[c][i] \in DOMAIN messages
          BY <1>5, <5>1 DEF PathOK
        <5>. QED  BY <4>1, <5>1, <5>2, <5>3 DEF IsAncestry
      <4>. QED  BY <1>c, <4>2
    <3>. HIDE DEF s
    <3>3. ASSUME NEW i \in 1 .. n + 2
          PROVE  s[i] \in DOMAIN messages' /\ messages'[s[i]].chat = c
                 /\ messages'[s[i]].depth = i - 1
      <4>1. CASE i \in 1 .. n
        BY <1>c, <3>2, <4>1
      <4>2. CASE i = n + 1 \/ i = n + 2
        BY SMTT(60), <1>b, <1>c, <1>d, <3>1, <4>2
      <4>. QED  BY SMTT(60), <1>b, <4>1, <4>2
    <3>4. messages'[s[1]].parent = NoMessage
      <4>1. CASE n = 0
        BY SMTT(60), <1>6, <1>d, <3>1, <4>1
      <4>2. CASE n > 0
        <5>1. 1 \in 1 .. n
          BY <1>b, <4>2
        <5>2. messages[path[c][1]].parent = NoMessage
          BY <1>6, <4>2 DEF IsAncestry
        <5>3. s[1] = path[c][1] /\ messages'[s[1]] = messages[s[1]]
          BY <3>1, <3>2, <5>1
        <5>. QED  BY <5>2, <5>3
      <4>. QED  BY SMTT(60), <1>b, <4>1, <4>2
    <3>5. ASSUME NEW i \in 2 .. n + 2 PROVE messages'[s[i]].parent = s[i - 1]
      <4>1. CASE i \in 2 .. n
        <5>1. i \in 1 .. n /\ i - 1 \in 1 .. n /\ n > 0
          BY <1>b, <4>1
        <5>2. i \in 2 .. Len(path[c])
          BY <4>1 DEF n
        <5>3. messages[path[c][i]].parent = path[c][i - 1]
          BY <1>6, <5>1, <5>2 DEF IsAncestry
        <5>4. /\ s[i] = path[c][i] /\ s[i - 1] = path[c][i - 1]
              /\ messages'[s[i]] = messages[s[i]]
          BY <3>1, <3>2, <5>1
        <5>. QED  BY <5>3, <5>4
      <4>2. CASE i = n + 1
        <5>1. n > 0 /\ n \in 1 .. n /\ i - 1 = n
          BY <1>b, <4>2
        <5>. QED  BY <1>6, <1>d, <3>1, <4>2, <5>1
      <4>3. CASE i = n + 2
        <5>1. i - 1 = n + 1
          BY <1>b, <4>3
        <5>. QED  BY <1>d, <3>1, <4>3, <5>1
      <4>4. i \in 2 .. n \/ i = n + 1 \/ i = n + 2
        BY <1>b
      <4>. QED  BY <4>1, <4>2, <4>3, <4>4
    <3>6. IsAncestry(messages', c, s[Len(s)], s)
      BY <3>1, <3>3, <3>4, <3>5 DEF IsAncestry
    <3>7. s # <<>> /\ {m \in DOMAIN messages' : messages'[m].chat = c} # {}
      <4>1. a \in {m \in DOMAIN messages' : messages'[m].chat = c}
        BY <1>c, <1>d
      <4>. QED  BY SMTT(60), <1>b, <3>1, <4>1
    <3>8. PathOK(chats', messages', s, c)
      BY <1>1, <3>1, <3>3, <3>6, <3>7 DEF PathOK
    <3>. QED  BY <2>1, <3>8 DEF s
  <2>2. CASE x # c
    <3>1. {y \in DOMAIN messages' : messages'[y].chat = x} = Of(x)
      BY <1>1, <1>c, <1>d, <2>2 DEF Of
    <3>2. \A y \in Of(x) : messages'[y] = messages[y]
      BY <1>c DEF Of
    <3>. QED  BY Zenon, <1>1, <1>11, <2>2, <3>1, <3>2, PathUntouched
  <2>. QED  BY <2>1, <2>2
<1>. QED
  BY <1>14, <1>15, <1>16, <1>17, PathPerChat DEF TInv

-----------------------------------------------------------------------------
\* Every transaction of the store, and a restart, preserves both invariants.
LEMMA StepPreserves ==
  ASSUME JInv, TInv, [Next]_vars
  PROVE  JInv' /\ TInv'
<1>1. ASSUME NEW c \in Chat, CreateChat(c) PROVE JInv' /\ TInv'
  BY <1>1, CreateChatPreserves
<1>2. ASSUME NEW c \in Chat, DeleteChat(c) PROVE JInv' /\ TInv'
  BY <1>2, DeleteChatPreserves
<1>3. ASSUME NEW c \in Chat, NEW q \in Request, NEW u \in Message, NEW a \in Message,
             BeginTurn(q, c, u, a)
      PROVE  JInv' /\ TInv'
  BY <1>3, BeginTurnPreserves
<1>4. ASSUME NEW c \in Chat, NEW e \in Message \cup {NoMessage},
             NEW p \in Message \cup {NoMessage}, NEW m \in Message,
             NEW role \in {"user", "assistant"}, AppendBranchMessage(c, e, p, m, role)
      PROVE  JInv' /\ TInv'
  BY <1>4, AppendPreserves
<1>5. ASSUME NEW c \in Chat, NEW e \in Message \cup {NoMessage}, NEW m \in Message,
             SelectActivePath(c, e, m)
      PROVE  JInv' /\ TInv'
  BY <1>5, SelectPreserves
<1>6. ASSUME NEW q \in Request, NEW e \in 0 .. MaxSeq, NEW t \in 0 .. MaxSeq,
             \/ RecordResponseDelivery(q, e, t)
             \/ \E u \in 0 .. MaxUsage :
                  \/ CheckpointResponse(q, e, t, u)
                  \/ \E outcome \in Outcomes : FinishTurn(q, e, t, u, outcome)
             \/ AcknowledgeResponse(q, e, t)
      PROVE  JInv' /\ TInv'
  <2>1. e \in Nat /\ t \in Nat /\ \A u \in 0 .. MaxUsage : u \in Nat
    BY ConstantsAssumption
  <2>2. CASE RecordResponseDelivery(q, e, t)
    BY <2>1, <2>2, JDelivery, TSame
  <2>3. ASSUME NEW u \in 0 .. MaxUsage, CheckpointResponse(q, e, t, u)
        PROVE  JInv' /\ TInv'
    BY <2>1, <2>3, JCheckpoint, TSame
  <2>4. ASSUME NEW u \in 0 .. MaxUsage, NEW outcome \in Outcomes,
               FinishTurn(q, e, t, u, outcome)
        PROVE  JInv' /\ TInv'
    BY <2>1, <2>4, JFinish, TSame
  <2>5. CASE AcknowledgeResponse(q, e, t)
    BY <2>1, <2>5, JAcknowledge, TSame
  <2>. QED  BY <1>6, <2>2, <2>3, <2>4, <2>5
<1>7. ASSUME Restart PROVE JInv' /\ TInv'
  BY <1>7, JRestart, TSame
<1>8. ASSUME UNCHANGED vars PROVE JInv' /\ TInv'
  <2>1. JInv'
    BY <1>8 DEF vars, JInv, TypeOK, Bounded, OneWriter, JournalOrdered,
       MessageAgreesWithRequest, TextIsDurablePrefix, Of
  <2>2. SameTree
    BY <1>8 DEF vars, SameTree
  <2>. QED  BY <2>1, <2>2, TSame
<1>. QED
  BY <1>1, <1>2, <1>3, <1>4, <1>5, <1>6, <1>7, <1>8 DEF Next

\* The empty database satisfies the tree invariant.
LEMMA TInit == Init => TInv
<1>. SUFFICES ASSUME Init PROVE TInv
  OBVIOUS
<1>1. DOMAIN messages = {} /\ path = [c \in Chat |-> <<>>]
  BY DEF Init
<1>2. PathIsAncestry
  BY SMTT(60), <1>1 DEF PathIsAncestry, Of
<1>. QED
  BY <1>1, <1>2 DEF TInv, AncestryComplete, OrdinalsFollowTree

\* The inductive invariant holds in every reachable state of the store, for
\* any sets of chats, messages and requests and any bounds.
THEOREM StoreInvariant == Spec => [](JInv /\ TInv)
<1>1. Init => JInv /\ TInv
  BY JInit, TInit
<1>2. (JInv /\ TInv) /\ [Next]_vars => (JInv /\ TInv)'
  BY StepPreserves
<1>. QED
  BY <1>1, <1>2, PTL DEF Spec

\* Every row the store's transactions write has the type the schema demands.
THEOREM TypeCorrect == Spec => []TypeOK
<1>1. JInv => TypeOK
  BY DEF JInv
<1>. QED
  BY <1>1, StoreInvariant, PTL

\* However calls are repeated, reordered or stale, and wherever the process
\* restarts: acknowledged <= durable <= delivered, a running request finds the
\* partial message it writes, and the stored text is exactly the text of the
\* durable events, each once and in order.
THEOREM JournalSafe == Spec => []JournalIsSound
<1>1. JInv => JournalIsSound
  BY DEF JInv, JournalIsSound
<1>. QED
  BY <1>1, StoreInvariant, PTL

\* However branches are appended, selected and deleted: the active path is an
\* unbroken parent chain from a root, every message can be selected, and the
\* ordinals the store computes are unique and grow along every branch.
THEOREM TreeSafe == Spec => []TreeIsSound
<1>1. TInv => TreeIsSound
  BY DEF TInv, TreeIsSound
<1>. QED
  BY <1>1, StoreInvariant, PTL

\* A row that does not change takes an allowed step.
LEMMA RowKept ==
  ASSUME NEW r \in RowType
  PROVE  /\ [r EXCEPT !.acked = r.acked] = r
         /\ r.delivered <= r.delivered /\ r.durable <= r.durable
         /\ r.acked <= r.acked /\ r.usage <= r.usage
  BY DEF RowType

\* A step that keeps the rows and messages of the surviving requests is allowed.
LEMMA QuietStep ==
  ASSUME JInv,
         \A q \in DOMAIN requests \cap DOMAIN requests' :
           /\ requests'[q] = requests[q]
           /\ messages'[requests[q].assistant] = messages[requests[q].assistant]
  PROVE  JournalStepAllowed
<1>. SUFFICES ASSUME NEW q \in DOMAIN requests \cap DOMAIN requests'
     PROVE  LET r == requests[q].row  s == requests'[q].row IN
            /\ r.delivered <= s.delivered /\ r.durable <= s.durable
            /\ r.acked <= s.acked /\ r.usage <= s.usage
            /\ r.status # "running" =>
                 /\ [s EXCEPT !.acked = r.acked] = r
                 /\ messages'[requests'[q].assistant] = messages[requests[q].assistant]
  BY DEF JournalStepAllowed
<1>1. requests[q].row \in RowType
  BY DEF JInv, TypeOK, RequestRow
<1>. QED
  BY <1>1, RowKept

\* A step that moves one row forward, and changes its outcome or its message
\* only while it is running, is allowed.
LEMMA RowStep ==
  ASSUME JInv, NEW q \in DOMAIN requests, NEW new \in RowType,
         requests' = [requests EXCEPT ![q].row = new],
         DOMAIN messages' = DOMAIN messages,
         \A m \in DOMAIN messages : m # requests[q].assistant => messages'[m] = messages[m],
         LET r == requests[q].row IN
           /\ r.delivered <= new.delivered /\ r.durable <= new.durable
           /\ r.acked <= new.acked /\ r.usage <= new.usage
           /\ r.status # "running" =>
                /\ [new EXCEPT !.acked = r.acked] = r
                /\ messages'[requests[q].assistant] = messages[requests[q].assistant]
  PROVE  JournalStepAllowed
<1>1. requests[q] \in RequestRow /\ requests'[q] = [requests[q] EXCEPT !.row = new]
      /\ DOMAIN requests' = DOMAIN requests
      /\ \A x \in DOMAIN requests : x # q => requests'[x] = requests[x]
  BY DEF JInv, TypeOK
<1>2. requests'[q].row = new /\ requests'[q].assistant = requests[q].assistant
  BY <1>1 DEF RequestRow
<1>. SUFFICES ASSUME NEW x \in DOMAIN requests
     PROVE  LET r == requests[x].row  s == requests'[x].row IN
            /\ r.delivered <= s.delivered /\ r.durable <= s.durable
            /\ r.acked <= s.acked /\ r.usage <= s.usage
            /\ r.status # "running" =>
                 /\ [s EXCEPT !.acked = r.acked] = r
                 /\ messages'[requests'[x].assistant] = messages[requests[x].assistant]
  BY <1>1 DEF JournalStepAllowed
<1>3. CASE x = q
  BY <1>2, <1>3
<1>4. CASE x # q
  <2>1. requests[x].row \in RowType /\ requests'[x] = requests[x]
    BY <1>1, <1>4 DEF JInv, TypeOK, RequestRow
  <2>2. messages'[requests[x].assistant] = messages[requests[x].assistant]
    BY <1>4 DEF JInv, OneWriter, MessageAgreesWithRequest, Of
  <2>. QED  BY <2>1, <2>2, RowKept
<1>. QED
  BY <1>3, <1>4

\* Every transaction, and a restart, takes only allowed steps on the journal.
LEMMA StepIsAllowed ==
  ASSUME JInv, TInv, [Next]_vars
  PROVE  [JournalStepAllowed]_vars
<1>0. ASSUME NEW q \in DOMAIN requests
      PROVE  /\ requests[q] \in RequestRow /\ requests[q].row \in RowType
             /\ requests[q].assistant \in DOMAIN messages
             /\ messages[requests[q].assistant].chat = requests[q].chat
  BY DEF JInv, TypeOK, RequestRow, MessageAgreesWithRequest, Of
<1>1. ASSUME NEW c \in Chat, CreateChat(c) PROVE JournalStepAllowed
  BY <1>1, QuietStep DEF CreateChat
<1>2. ASSUME NEW c \in Chat, DeleteChat(c) PROVE JournalStepAllowed
  BY <1>0, <1>2, QuietStep DEF DeleteChat, Restrict, Of
<1>3. ASSUME NEW c \in Chat, NEW q \in Request, NEW u \in Message, NEW a \in Message,
             BeginTurn(q, c, u, a)
      PROVE  JournalStepAllowed
  <2>1. /\ \A r \in DOMAIN requests : requests'[r] = requests[r]
        /\ \A m \in DOMAIN messages : messages'[m] = messages[m]
    BY Zenon, <1>3 DEF BeginTurn, InsertMessages
  <2>. QED  BY <1>0, <2>1, QuietStep
<1>4. ASSUME NEW c \in Chat, NEW e, NEW p, NEW m \in Message, NEW role,
             AppendBranchMessage(c, e, p, m, role)
      PROVE  JournalStepAllowed
  <2>1. /\ requests' = requests
        /\ \A x \in DOMAIN messages : messages'[x] = messages[x]
    BY Zenon, <1>4 DEF AppendBranchMessage, InsertMessages
  <2>. QED  BY <1>0, <2>1, QuietStep
<1>5. ASSUME NEW c \in Chat, NEW e, NEW m, SelectActivePath(c, e, m)
      PROVE  JournalStepAllowed
  BY <1>5, QuietStep DEF SelectActivePath
<1>6. ASSUME NEW q \in Request, NEW e \in Nat, NEW t \in Nat, RecordResponseDelivery(q, e, t)
      PROVE  JournalStepAllowed
  <2>. DEFINE r == requests[q].row
              new == DeliveredRow(r, t)
  <2>1. /\ q \in DOMAIN requests /\ r \in RowType /\ CanDeliver(r, e, t)
        /\ requests' = [requests EXCEPT ![q].row = new]
        /\ messages' = messages
    BY <1>0, <1>6 DEF RecordResponseDelivery
  <2>2. /\ new \in RowType /\ r.delivered <= new.delivered /\ new.durable = r.durable
        /\ new.acked = r.acked /\ new.usage = r.usage /\ r.status = "running"
    <3>. HIDE DEF r
    <3>. QED  BY <2>1 DEF CanDeliver, DeliveredRow, RowType
  <2>3. r.durable \in Nat /\ r.acked \in Nat /\ r.usage \in Nat
    BY <2>1 DEF RowType
  <2>4. /\ r.delivered <= new.delivered /\ r.durable <= new.durable
        /\ r.acked <= new.acked /\ r.usage <= new.usage
    <3>. HIDE DEF r, new
    <3>. QED  BY SMTT(60), <2>2, <2>3
  <2>. HIDE DEF new
  <2>. QED  BY Zenon, <2>1, <2>2, <2>3, <2>4, RowStep
<1>7. ASSUME NEW q \in Request, NEW e \in Nat, NEW t \in Nat, NEW u \in Nat,
             CheckpointResponse(q, e, t, u)
      PROVE  JournalStepAllowed
  <2>. DEFINE r == requests[q].row
              new == CheckpointedRow(r, t, u)
  <2>1. /\ q \in DOMAIN requests /\ r \in RowType /\ CanCheckpoint(r, e, t, u)
        /\ requests' = [requests EXCEPT ![q].row = new]
        /\ DOMAIN messages' = DOMAIN messages
        /\ \A m \in DOMAIN messages : m # requests[q].assistant => messages'[m] = messages[m]
    BY <1>0, <1>7 DEF CheckpointResponse, WriteResponse
  <2>2. /\ new \in RowType /\ new.delivered = r.delivered /\ new.durable = t
        /\ new.acked = r.acked /\ new.usage = u
    <3>. HIDE DEF r
    <3>. QED  BY Zenon, <2>1 DEF CheckpointedRow, RowType
  <2>3. r.durable <= t /\ r.delivered \in Nat /\ r.acked \in Nat /\ r.usage <= u
        /\ r.status = "running"
    BY <2>1 DEF RowType, CanCheckpoint
  <2>4. /\ r.delivered <= new.delivered /\ r.durable <= new.durable
        /\ r.acked <= new.acked /\ r.usage <= new.usage
    <3>. HIDE DEF r, new
    <3>. QED  BY <2>2, <2>3
  <2>. HIDE DEF new
  <2>. QED  BY Zenon, <2>1, <2>2, <2>3, <2>4, RowStep
<1>8. ASSUME NEW q \in Request, NEW e \in Nat, NEW t \in Nat, NEW u \in Nat,
             NEW outcome \in Outcomes, FinishTurn(q, e, t, u, outcome)
      PROVE  JournalStepAllowed
  <2>. DEFINE r == requests[q].row
              new == FinishedRow(r, t, u, outcome)
  <2>1. /\ q \in DOMAIN requests /\ r \in RowType /\ CanCheckpoint(r, e, t, u)
        /\ requests' = [requests EXCEPT ![q].row = new]
        /\ DOMAIN messages' = DOMAIN messages
        /\ \A m \in DOMAIN messages : m # requests[q].assistant => messages'[m] = messages[m]
    BY <1>0, <1>8 DEF FinishTurn, WriteResponse
  <2>2. /\ new \in RowType /\ new.delivered = r.delivered /\ new.durable = t
        /\ new.acked = r.acked /\ new.usage = u
    <3>1. outcome \in RowStatus
      BY DEF RowStatus
    <3>. HIDE DEF r
    <3>. QED  BY <2>1, <3>1, FinishedFields
  <2>3. r.durable <= t /\ r.delivered \in Nat /\ r.acked \in Nat /\ r.usage <= u
        /\ r.status = "running"
    BY <2>1 DEF RowType, CanCheckpoint
  <2>4. /\ r.delivered <= new.delivered /\ r.durable <= new.durable
        /\ r.acked <= new.acked /\ r.usage <= new.usage
    <3>. HIDE DEF r, new
    <3>. QED  BY <2>2, <2>3
  <2>. HIDE DEF new
  <2>. QED  BY Zenon, <2>1, <2>2, <2>3, <2>4, RowStep
<1>9. ASSUME NEW q \in Request, NEW e \in Nat, NEW t \in Nat, AcknowledgeResponse(q, e, t)
      PROVE  JournalStepAllowed
  <2>. DEFINE r == requests[q].row
              new == AckedRow(r, t)
  <2>1. /\ q \in DOMAIN requests /\ r \in RowType /\ CanAck(r, e, t)
        /\ requests' = [requests EXCEPT ![q].row = new]
        /\ messages' = messages
    BY <1>0, <1>9 DEF AcknowledgeResponse
  <2>2. /\ new \in RowType /\ new.delivered = r.delivered /\ new.durable = r.durable
        /\ r.acked <= new.acked /\ new.usage = r.usage
        /\ [new EXCEPT !.acked = r.acked] = r
    <3>. HIDE DEF r
    <3>1. /\ new \in RowType /\ new.delivered = r.delivered /\ new.durable = r.durable
          /\ r.acked <= new.acked /\ new.usage = r.usage /\ new.status = r.status
      BY <2>1 DEF CanAck, AckedRow, RowType
    <3>. HIDE DEF new
    <3>2. [new EXCEPT !.acked = r.acked] = r
      BY <2>1, <3>1 DEF RowType
    <3>. QED  BY <3>1, <3>2
  <2>3. r.durable \in Nat /\ r.delivered \in Nat /\ r.usage \in Nat
    BY <2>1 DEF RowType
  <2>4. /\ r.delivered <= new.delivered /\ r.durable <= new.durable
        /\ r.acked <= new.acked /\ r.usage <= new.usage
    <3>. HIDE DEF r, new
    <3>. QED  BY <2>2, <2>3
  <2>. HIDE DEF new
  <2>. QED  BY Zenon, <2>1, <2>2, <2>3, <2>4, RowStep
<1>10. ASSUME Restart PROVE JournalStepAllowed
  <2>1. \A m \in DOMAIN messages : messages'[m] = messages[m]
    BY <1>10, JRestart
  <2>2. DOMAIN requests' = DOMAIN requests
        /\ \A q \in DOMAIN requests :
             requests'[q] = [requests[q] EXCEPT !.row = RecoveredRow(requests[q].row)]
    BY <1>10 DEF Restart
  <2>. SUFFICES ASSUME NEW q \in DOMAIN requests
       PROVE  LET r == requests[q].row  s == requests'[q].row IN
              /\ r.delivered <= s.delivered /\ r.durable <= s.durable
              /\ r.acked <= s.acked /\ r.usage <= s.usage
              /\ r.status # "running" =>
                   /\ [s EXCEPT !.acked = r.acked] = r
                   /\ messages'[requests'[q].assistant] = messages[requests[q].assistant]
    BY <2>2 DEF JournalStepAllowed
  <2>3. requests'[q].row = RecoveredRow(requests[q].row)
        /\ requests'[q].assistant = requests[q].assistant
    BY <1>0, <2>2 DEF RequestRow
  <2>4. CASE requests[q].row.status # "running"
    BY <1>0, <2>1, <2>3, <2>4, RowKept DEF RecoveredRow
  <2>5. CASE requests[q].row.status = "running"
    BY <1>0, <2>3, <2>5 DEF RecoveredRow, RowType
  <2>. QED  BY <2>4, <2>5
<1>11. \A x \in 0 .. MaxSeq : x \in Nat
  BY ConstantsAssumption
<1>12. \A x \in 0 .. MaxUsage : x \in Nat
  BY ConstantsAssumption
<1>13. CASE Next
  BY <1>1, <1>2, <1>3, <1>4, <1>5, <1>6, <1>7, <1>8, <1>9, <1>10, <1>11, <1>12, <1>13 DEF Next
<1>. QED
  BY <1>13

\* Once a request has left "running", no late checkpoint, second finish,
\* acknowledgement or restart changes its outcome or its text, and no
\* watermark ever moves back.
THEOREM OutcomesFinal == Spec => OutcomeIsFinal
<1>1. JInv /\ TInv /\ [Next]_vars => [JournalStepAllowed]_vars
  BY StepIsAllowed
<1>. QED
  BY <1>1, StoreInvariant, PTL DEF Spec, OutcomeIsFinal
=============================================================================
