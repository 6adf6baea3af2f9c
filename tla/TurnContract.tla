---------------------------- MODULE TurnContract ----------------------------
(***************************************************************************)
(* What starting a chat turn promises its caller: a turn that was opened   *)
(* is closed again, whatever happened to the call that opened it, one turn *)
(* is open at a time, and a closed turn stays closed.  A call is answered  *)
(* at most once; an accepted call has opened its turn.                     *)
(***************************************************************************)
CONSTANT Turns

VARIABLES turn,    \* "none", "open" or "closed"
          answer   \* "pending", "accepted", "rejected" or "lost"

ContractInit == turn = [t \in Turns |-> "none"] /\ answer = [t \in Turns |-> "pending"]

\* At most one turn of the chat is open.
OpenTurn(t) ==
  /\ turn[t] = "none" /\ answer[t] = "pending" /\ \A u \in Turns : turn[u] # "open"
  /\ turn' = [turn EXCEPT ![t] = "open"] /\ UNCHANGED answer

CloseTurn(t) ==
  /\ turn[t] = "open" /\ turn' = [turn EXCEPT ![t] = "closed"]
  /\ \/ UNCHANGED answer
     \/ answer[t] = "pending" /\ answer' = [answer EXCEPT ![t] = "rejected"]

AcceptCall(t) ==
  /\ answer[t] = "pending" /\ turn[t] = "open"
  /\ answer' = [answer EXCEPT ![t] = "accepted"] /\ UNCHANGED turn

RejectCall(t) ==
  /\ answer[t] = "pending"
  /\ answer' = [answer EXCEPT ![t] = "rejected"] /\ UNCHANGED turn

\* The process ends: open turns are closed by the next start of the store, and
\* calls that were not answered never are.
Restarted ==
  /\ turn' = [t \in Turns |-> IF turn[t] = "open" THEN "closed" ELSE turn[t]]
  /\ \E ts \in SUBSET {t \in Turns : answer[t] = "pending"} :
       answer' = [t \in Turns |-> IF t \in ts THEN "lost" ELSE answer[t]]

ContractNext ==
  \/ \E t \in Turns : OpenTurn(t) \/ CloseTurn(t) \/ AcceptCall(t) \/ RejectCall(t)
  \/ Restarted

Contract == ContractInit /\ [][ContractNext]_<<turn, answer>>
=============================================================================
