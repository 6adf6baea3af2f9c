\* Two chats and two requests: journal calls with arbitrary arguments, branches
\* and restarts.
CONSTANTS
  Chat = {c1, c2}
  Message = {m1, m2, m3, m4}
  Request = {q1, q2}
  NoMessage = NoMessage
  MaxDepth = 3
  MaxSeq = 2
  MaxUsage = 1
SYMMETRY Symmetry
SPECIFICATION Spec
INVARIANTS JournalIsSound TreeIsSound
PROPERTY OutcomeIsFinal
