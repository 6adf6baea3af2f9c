---------------------------- MODULE MCChatStore ----------------------------
(***************************************************************************)
(* TLC instances of ChatStore.  Message ids and chats are interchangeable, *)
(* so symmetry is sound for the safety properties checked.                 *)
(***************************************************************************)
EXTENDS ChatStore, TLC

Symmetry == Permutations(Chat) \cup Permutations(Message) \cup Permutations(Request)
=============================================================================
