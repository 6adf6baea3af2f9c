----------------------------- MODULE StorePages -----------------------------
(***************************************************************************)
(* Reading the store page by page while it changes, and the render cache   *)
(* (crates/lorepia-storage/src/store.rs).                                  *)
(*                                                                         *)
(* Each listing is ordered by a key and resumes after a cursor taken from  *)
(* the last row of a page; nothing holds the rows still between two pages. *)
(* A reader scans one listing; writers of the rows that listing shows are  *)
(* free to run, and stamp what they write with a clock that may step back. *)
(* The render cache is one more listing of its own, with no reader.        *)
(***************************************************************************)
EXTENDS Integers, Sequences, FiniteSets, SequencesExt, FiniteSetsExt

CONSTANTS
  ScanChats,    \* chat identifiers; messages are those of the least
  ScanNodes,    \* how many messages the chat gets
  ScanLimit,    \* the page size
  ScanBytes,    \* MAX_MESSAGE_PAGE_BYTES, envelopes counted
  ScanTimes,    \* what the clock may show
  Renderers     \* clients of the render cache

ASSUME ScanLimit \in 1..200 /\ ScanChats \subseteq Int /\ ScanTimes \subseteq Nat

VARIABLES
  listing,    \* the listing that is read, or "cache"
  chatRows,   \* updated_at_ms of each chat ever created, Deleted when it is gone
  nodes,      \* messages by ordinal: [parent, sib, at, id, size]
  activePath, \* ordinals from the root to the leaf
  scan,       \* the reader: [st, cursor, got, steady]
  cached,     \* message_render_cache: [ver, used] by message
  seen        \* the entry each renderer got last: [msg, ver, used]

pagesVars == <<listing, chatRows, nodes, activePath, scan, cached, seen>>

TheChat == Min(ScanChats)
Deleted == -1
ChatsThere == {c \in DOMAIN chatRows : chatRows[c] # Deleted}
NoEntry == [msg |-> 0, ver |-> 0, used |-> 0]

PagesInit ==
  /\ listing \in {"chats", "messages", "recent", "path", "children", "timeline", "cache"}
  /\ chatRows = (IF listing = "chats" THEN <<>> ELSE [c \in {TheChat} |-> 0])
  /\ nodes = <<>> /\ activePath = <<>>
  /\ scan = [st |-> "idle", cursor |-> <<>>, got |-> <<>>, steady |-> {}]
  /\ cached = <<>> /\ seen = [r \in Renderers |-> NoEntry]
-----------------------------------------------------------------------------
(* The listings.                                                           *)

PositionOf(n) == CHOOSE p \in DOMAIN activePath : activePath[p] = n
OnPath == ToSet(activePath)

\* Rows with the key ORDER BY sorts them by; a descending column is negated.
ListChats == {[row |-> c, key |-> <<-chatRows[c], -c>>] : c \in ChatsThere}
LoadMessages == {[row |-> n, key |-> <<n, 0>>] : n \in DOMAIN nodes}
LoadRecentMessages == {[row |-> n, key |-> <<-PositionOf(n), 0>>] : n \in OnPath}
LoadActivePath == {[row |-> n, key |-> <<PositionOf(n), 0>>] : n \in OnPath}
LoadBranchChildren(p) ==
  {[row |-> n, key |-> <<nodes[n].sib, nodes[n].id>>] : n \in {m \in DOMAIN nodes : nodes[m].parent = p}}
LoadMessageTimeline == {[row |-> n, key |-> <<nodes[n].at, nodes[n].id>>] : n \in DOMAIN nodes}

PageRows ==
  CASE listing = "chats" -> ListChats
    [] listing = "messages" -> LoadMessages
    [] listing = "recent" -> LoadRecentMessages
    [] listing = "path" -> LoadActivePath
    [] listing = "children" -> LoadBranchChildren(0)
    [] listing = "timeline" -> LoadMessageTimeline
    [] OTHER -> {}

KeyBefore(j, k) == j[1] < k[1] \/ (j[1] = k[1] /\ j[2] < k[2])
Sorted(rows) ==
  [n \in 1..Cardinality(rows) |->
     CHOOSE r \in rows : Cardinality({s \in rows : KeyBefore(s.key, r.key)}) = n - 1]

RowsAfter(cursor) == {r \in PageRows : cursor = <<>> \/ KeyBefore(cursor, r.key)}

\* collect_bounded_message_rows: how many of these rows are taken, by count and,
\* for recent messages, by bytes; the first one always is (a message that alone is
\* over the limit is an error, and the store admits none).
Weighed(rows) == FoldLeft(LAMBDA n, r : n + nodes[r.row].size, 0, rows)
Taken(rows) ==
  Max({n \in 0..Len(rows) :
         /\ n <= ScanLimit
         /\ listing = "recent" /\ n > 1 => Weighed(SubSeq(rows, 1, n)) <= ScanBytes})

\* The cursor of recent messages is an ordinal; it is resolved in the present
\* active path and refused when it is not on it.
CursorResolved(cursor) ==
  IF listing # "recent" \/ cursor = <<>> THEN [ok |-> TRUE, key |-> cursor]
  ELSE IF cursor[1] \in OnPath THEN [ok |-> TRUE, key |-> <<-PositionOf(cursor[1]), 0>>]
  ELSE [ok |-> FALSE, key |-> <<>>]

CursorAt(r) == IF listing = "recent" THEN <<r.row, -r.key[1]>> ELSE r.key

\* Mutant: the row that was fetched to see whether there is more.
LastFetched(rows, n) == rows[IF n < Len(rows) THEN n + 1 ELSE n]
\* The next page starts after the last row of this one.
LastKept(rows, n) == rows[n]

OpenScan ==
  /\ listing # "cache" /\ scan.st = "idle"
  /\ scan' = [scan EXCEPT !.st = "open", !.steady = PageRows]
  /\ UNCHANGED <<listing, chatRows, nodes, activePath, cached, seen>>

\* One page: one row more than the limit tells whether there is another.
NextPage ==
  /\ scan.st = "open"
  /\ LET from == CursorResolved(scan.cursor)
         rows == Sorted(RowsAfter(from.key))
         n == Taken(rows)
     IN scan' =
          IF ~from.ok \/ (listing # "chats" /\ TheChat \notin ChatsThere)
          THEN [scan EXCEPT !.st = "refused"]
          ELSE [scan EXCEPT !.st = IF n < Len(rows) THEN "open" ELSE "done",
                            !.cursor = IF n = 0 THEN @ ELSE CursorAt(LastKept(rows, n)),
                            !.got = @ \o [k \in 1..n |-> rows[k].row]]
  /\ UNCHANGED <<listing, chatRows, nodes, activePath, cached, seen>>

\* What a write leaves of the rows that have kept their place since the scan began.
Unmoved == scan' = [scan EXCEPT !.steady = @ \cap PageRows']
-----------------------------------------------------------------------------
(* The writers.                                                            *)

AddChat(c, t) ==
  /\ listing = "chats" /\ c \notin DOMAIN chatRows
  /\ chatRows' = [d \in DOMAIN chatRows \cup {c} |-> IF d = c THEN t ELSE chatRows[d]]
  /\ UNCHANGED <<listing, nodes, activePath, cached, seen>> /\ Unmoved

Latest(c, t) == IF chatRows[c] > t THEN chatRows[c] ELSE t

\* rename_chat with the present revision (another is a Conflict), or a message:
\* updated_at_ms never goes back.
TouchChat(c, t) ==
  /\ listing = "chats" /\ c \in ChatsThere /\ Latest(c, t) # chatRows[c]
  /\ chatRows' = [chatRows EXCEPT ![c] = Latest(c, t)]
  /\ UNCHANGED <<listing, nodes, activePath, cached, seen>> /\ Unmoved

\* delete_chat: messages and active path go with the chat.
RemoveChat(c) ==
  /\ listing # "cache" /\ c \in ChatsThere
  /\ chatRows' = [chatRows EXCEPT ![c] = Deleted]
  /\ nodes' = <<>> /\ activePath' = <<>>
  /\ UNCHANGED <<listing, cached, seen>> /\ Unmoved

\* replace_active_path: the ancestry of a leaf.
Line(tree, leaf) ==
  LET up[n \in 0..Len(tree)] == IF n = 0 THEN <<>> ELSE Append(up[tree[n].parent], n)
  IN up[leaf]

\* append_branch_message: below any message, after its siblings; the fields a
\* listing does not look at are fixed.
AddMessage(p, t, id, size) ==
  /\ listing \notin {"chats", "cache"} /\ TheChat \in ChatsThere
  /\ Len(nodes) < ScanNodes /\ p \in 0..Len(nodes)
  /\ listing # "timeline" => t = 0 /\ id = Len(nodes) + 1
  /\ listing = "timeline" => p = Len(nodes) /\ id \notin {nodes[n].id : n \in DOMAIN nodes}
  /\ listing # "recent" => size = 1
  /\ LET brothers == {nodes[n].sib : n \in {m \in DOMAIN nodes : nodes[m].parent = p}} IN
     nodes' = Append(nodes, [parent |-> p, sib |-> Max({-1} \cup brothers) + 1, at |-> t,
                             id |-> id, size |-> size])
  /\ activePath' = Line(nodes', Len(nodes'))
  /\ UNCHANGED <<listing, chatRows, cached, seen>> /\ Unmoved

\* select_active_path.
SelectPath(n) ==
  /\ listing \in {"recent", "path"} /\ n \in DOMAIN nodes
  /\ activePath' = Line(nodes, n) /\ activePath' # activePath
  /\ UNCHANGED <<listing, chatRows, nodes, cached, seen>> /\ Unmoved
-----------------------------------------------------------------------------
(* The render cache.                                                       *)

CacheStep == listing = "cache" /\ UNCHANGED <<listing, chatRows, nodes, activePath, scan>>
EntryOf(m) == [msg |-> m, ver |-> cached[m].ver, used |-> cached[m].used]

\* get_render_cache: a hit is touched, and refused when the clock is behind it.
GetRender(r, m, v, t) ==
  /\ CacheStep
  /\ \/ /\ m \in DOMAIN cached /\ cached[m].ver = v /\ t >= cached[m].used
        /\ cached' = [cached EXCEPT ![m].used = t]
        /\ seen' = [seen EXCEPT ![r] = [msg |-> m, ver |-> v, used |-> t]]
     \/ /\ (m \in DOMAIN cached => cached[m].ver # v)
        /\ seen' = [seen EXCEPT ![r] = NoEntry] /\ UNCHANGED cached

\* The UPDATE matches the very entry the renderer got, and time does not go back.
AsExpected(r, m, t) == m \in DOMAIN cached /\ EntryOf(m) = seen[r] /\ t >= seen[r].used

\* put_render_cache: INSERT when the renderer knows of no entry, else the UPDATE.
PutRender(r, m, v, t) ==
  /\ CacheStep
  /\ \/ seen[r] = NoEntry /\ m \notin DOMAIN cached
     \/ seen[r].msg = m /\ AsExpected(r, m, t)
  /\ cached' = [k \in DOMAIN cached \cup {m} |-> IF k = m THEN [ver |-> v, used |-> t] ELSE cached[k]]
  /\ seen' = [seen EXCEPT ![r] = [msg |-> m, ver |-> v, used |-> t]]

\* evict_render_cache: the longest unused first, at most so many.
EvictRender(older, limit) ==
  /\ CacheStep
  /\ LET Rank(m) == <<cached[m].used, m>>
         stale == {m \in DOMAIN cached : cached[m].used < older}
         gone == {m \in stale : Cardinality({k \in stale : KeyBefore(Rank(k), Rank(m))}) < limit}
     IN gone # {} /\ cached' = [m \in DOMAIN cached \ gone |-> cached[m]]
  /\ UNCHANGED seen

PagesNext ==
  \/ OpenScan \/ NextPage
  \/ \E c \in ScanChats : RemoveChat(c) \/ \E t \in ScanTimes : AddChat(c, t) \/ TouchChat(c, t)
  \/ \E p \in 0..ScanNodes, t \in ScanTimes, id \in 1..ScanNodes, size \in 1..2 : AddMessage(p, t, id, size)
  \/ \E n \in 1..ScanNodes : SelectPath(n)
  \/ \E r \in Renderers, m \in {1, 2}, v \in {1, 2}, t \in ScanTimes : GetRender(r, m, v, t) \/ PutRender(r, m, v, t)
  \/ \E t \in ScanTimes, n \in {1, 2} : EvictRender(t, n)

PagesSpec == PagesInit /\ [][PagesNext]_pagesVars
-----------------------------------------------------------------------------
(* Properties.                                                             *)

\* A scan that reached its end has listed every row that kept its place while it
\* ran: inserts, deletions, branch changes and clocks that step back make it miss
\* nothing else.
ScanComplete == scan.st = "done" => \A r \in scan.steady : r.row \in ToSet(scan.got)

\* No scan shows a row twice, although chats move to the top of their listing
\* while it is read.
ScannedOnce == \A j, k \in DOMAIN scan.got : scan.got[j] = scan.got[k] => j = k

\* What load_recent_messages has returned so far is one line of descent, newest
\* first, down to its first message when the scan is done, also when another
\* branch was selected between two pages.
RecentIsOneLine ==
  (listing = "recent" /\ nodes # <<>>) =>
    /\ \A k \in 1..(Len(scan.got) - 1) : nodes[scan.got[k]].parent = scan.got[k + 1]
    /\ scan.st = "done" /\ scan.got # <<>> => nodes[Last(scan.got)].parent = 0

\* The cache forgets the longest unused entries first, and the time of the last
\* use never moves back, whichever renderers race and whatever their clocks say.
LeastUsedGoesFirst ==
  [][\A m \in DOMAIN cached :
       IF m \in DOMAIN cached' THEN cached'[m].used >= cached[m].used
       ELSE \A k \in DOMAIN cached' : cached[k].used >= cached[m].used]_pagesVars

\* A listing read page by page is complete, without repetition and of one branch
\* while rows are added between the pages, and the render cache forgets in order.
ListingsHold ==
  /\ [](ScanComplete /\ ScannedOnce /\ RecentIsOneLine)
  /\ LeastUsedGoesFirst

=============================================================================
