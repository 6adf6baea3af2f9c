-------------------------- MODULE MCBridgeStories --------------------------
(***************************************************************************)
(* The bridge disturbed in one way at a time: "story" says by what, and    *)
(* the other disturbances do not happen in that behaviour.  Taken together *)
(* they are out of reach, one by one they are within it.                   *)
(***************************************************************************)
EXTENDS MCStreamBridge, FiniteSets

CONSTANT Stories   \* "faults", "tokens", "snapshot", "cancel", "reset", "destroy" or "acks"

VARIABLE story

MCInit == Init /\ story \in Stories

MCNext ==
  /\ Next /\ UNCHANGED story
  \* a storage call fails, with or without its effect
  /\ story = "faults" \/ faults' = faults \/ bridge'.pc = "crashed"
  \* the provider counts tokens
  /\ story = "tokens" \/ buffer'.usage = 0
  \* the client asks for a snapshot, or cancels
  /\ story = "snapshot" \/ snapshot' = snapshot
  /\ story \in {"cancel", "reset"} \/ accepted' = accepted
  \* the window is reset or destroyed
  /\ story = "reset" \/ reset' = reset
  /\ (story = "reset" /\ accepted' # accepted) => reset' # reset
  /\ story = "destroy" \/ owner' = owner
  \* two acknowledgements are on their way at once
  /\ story = "acks" \/ Cardinality({a \in Acker : ackers'[a] # Idle}) <= 1

MCSpec == MCInit /\ [][MCNext]_<<vars, story>>
MCFairSpec == MCSpec /\ Fairness
=============================================================================
