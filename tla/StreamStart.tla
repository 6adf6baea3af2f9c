----------------------------- MODULE StreamStart -----------------------------
(***************************************************************************)
(* start_provider_stream and the ProviderStreamRegistry                    *)
(* (apps/desktop-mobile/src-tauri/src/provider_stream.rs).                 *)
(*                                                                         *)
(* A call reads the history, takes a registry slot, opens the turn in the  *)
(* store, reads the credential, sends Started and hands over to the bridge *)
(* (StreamBridge models what follows; here it closes the turn).  Every     *)
(* step is an await or a lock, so calls interleave at all of them.  A call *)
(* that fails after its turn was opened has to close it again.             *)
(***************************************************************************)
EXTENDS Naturals, FiniteSets

CONSTANTS
  Calls,        \* the calls of start_provider_stream, all for one chat
  MaxActive,    \* MAX_ACTIVE_STREAMS
  StreamBytes,  \* PER_STREAM_IN_FLIGHT_RESERVATION_BYTES
  GlobalBytes,  \* GLOBAL_IN_FLIGHT_RESERVATION_BYTES
  Attempts,     \* persist_rejected_start tries of one fail_started_turn
  MaxFaults     \* transient storage errors

ASSUME StartAssumption ==
  /\ IsFiniteSet(Calls) /\ Attempts \in Nat \ {0}
  /\ MaxActive \in Nat /\ StreamBytes \in Nat /\ GlobalBytes \in Nat /\ MaxFaults \in Nat

VARIABLES
  turnPc,        \* where each call is
  response,  \* what its caller was told
  row,       \* the request row of each call
  registry,  \* [requests, reserved]
  cancelled, \* streams whose owner went away
  tries,     \* failed attempts to close a rejected turn
  budget     \* storage errors still to come

startVars == <<turnPc, response, row, registry, cancelled, tries, budget>>

NoRow == [status |-> "none", delivered |-> 0, durable |-> 0]
Running == {c \in Calls : row[c].status = "running"}

StartInit ==
  /\ turnPc = [c \in Calls |-> "idle"]
  /\ response = [c \in Calls |-> "pending"]
  /\ row = [c \in Calls |-> NoRow]
  /\ registry = [requests |-> {}, reserved |-> 0]
  /\ cancelled = {} /\ tries = [c \in Calls |-> 0] /\ budget = MaxFaults

Goto(c, to) == turnPc' = [turnPc EXCEPT ![c] = to]
Reject(c) == response' = [response EXCEPT ![c] = "rejected"]
\* storage.run fails, for the moment.
StorageFails == budget > 0 /\ budget' = budget - 1
-----------------------------------------------------------------------------
\* The identifiers are parsed, the history is read and build_chat_request
\* accepts the profile and the message, or the call is rejected.
ReadHistory(c) ==
  /\ turnPc[c] = "idle"
  /\ \/ Goto(c, "insert") /\ UNCHANGED response
     \/ Goto(c, "done") /\ Reject(c)
  /\ UNCHANGED <<row, registry, cancelled, tries, budget>>

\* insert_new: the count and the byte reservation are checked under the lock.
InsertNew(c) ==
  /\ turnPc[c] = "insert"
  /\ LET fits == /\ Cardinality(registry.requests) < MaxActive
                 /\ registry.reserved + StreamBytes <= GlobalBytes IN
     \/ /\ fits
        /\ registry' = [requests |-> registry.requests \cup {c},
                        reserved |-> registry.reserved + StreamBytes]
        /\ Goto(c, "clock") /\ UNCHANGED response
     \/ ~fits /\ Goto(c, "done") /\ Reject(c) /\ UNCHANGED registry
  /\ UNCHANGED <<row, cancelled, tries, budget>>

\* remove_if_same gives back the slot of this very request, once.
RemoveIfSame(reg, c) ==
  IF c \in reg.requests
  THEN [requests |-> reg.requests \ {c}, reserved |-> reg.reserved - StreamBytes]
  ELSE reg

\* TimestampMillis::now: on an error the call returns and keeps its slot.
ReadClock(c) ==
  /\ turnPc[c] = "clock"
  /\ \/ Goto(c, "begin") /\ UNCHANGED <<response, budget>>
     \/ StorageFails /\ Goto(c, "leaked") /\ Reject(c)
  /\ UNCHANGED <<row, registry, cancelled, tries>>

\* Mutant: a chat with a running request takes a second one.
BeginSecond(c) ==
  /\ turnPc[c] = "begin"
  /\ \/ /\ Goto(c, "credential")
        /\ row' = [row EXCEPT ![c].status = "running"]
        /\ UNCHANGED <<response, registry, budget>>
     \/ /\ StorageFails /\ registry' = RemoveIfSame(registry, c)
        /\ Goto(c, "done") /\ Reject(c) /\ UNCHANGED row
  /\ UNCHANGED <<cancelled, tries>>

\* begin_turn refuses a chat with a running request (Conflict); on any error
\* the slot is given back.  bind_started_turn then ties the slot to the row.
BeginTurn(c) ==
  /\ turnPc[c] = "begin"
  /\ \/ /\ Running = {} /\ Goto(c, "credential")
        /\ row' = [row EXCEPT ![c].status = "running"]
        /\ UNCHANGED <<response, registry, budget>>
     \/ /\ (Running # {} /\ UNCHANGED budget) \/ StorageFails
        /\ registry' = RemoveIfSame(registry, c)
        /\ Goto(c, "done") /\ Reject(c) /\ UNCHANGED row
  /\ UNCHANGED <<cancelled, tries>>

\* Mutant: a locked keychain fails the call at once.
CredentialAbandons(c) ==
  /\ turnPc[c] = "credential"
  /\ \/ Goto(c, "send") /\ UNCHANGED <<response, registry>>
     \/ Goto(c, "done") /\ Reject(c) /\ registry' = RemoveIfSame(registry, c)
  /\ UNCHANGED <<row, cancelled, tries, budget>>

\* load_provider_credential: found in time, or missing, locked, timed out.
LoadCredential(c) ==
  /\ turnPc[c] = "credential"
  /\ \E next \in {"send", "retire"} : Goto(c, next)
  /\ UNCHANGED <<response, row, registry, cancelled, tries, budget>>

\* send_direct of Started; then the watchdog and the bridge are spawned and the
\* caller gets the control token.
SendStarted(c) ==
  /\ turnPc[c] = "send"
  /\ \/ Goto(c, "bridge") /\ response' = [response EXCEPT ![c] = "accepted"]
     \/ Goto(c, "retire") /\ UNCHANGED response
  /\ UNCHANGED <<row, registry, cancelled, tries, budget>>
-----------------------------------------------------------------------------
(* retire_rejected_start: Attempts tries while the caller waits, then a    *)
(* task of its own that retries until the terminal row is durable.         *)

Retiring(c) == turnPc[c] \in {"retire", "recover"}

\* persist_rejected_start, first transaction: the terminal sequence is recorded
\* as delivered, unless an earlier attempt did.
RecordDelivery(c) ==
  /\ Retiring(c) /\ row[c].status = "running" /\ row[c].delivered = 0
  /\ row' = [row EXCEPT ![c].delivered = 1]
  /\ UNCHANGED <<turnPc, response, registry, cancelled, tries, budget>>

\* Second transaction: fail_turn; the slot goes with it.
FailTurn(c) ==
  /\ Retiring(c) /\ row[c].status = "running" /\ row[c].delivered = 1 /\ row[c].durable = 0
  /\ row' = [row EXCEPT ![c].status = "failed", ![c].durable = 1]
  /\ registry' = RemoveIfSame(registry, c)
  /\ IF turnPc[c] = "retire" THEN Reject(c) ELSE UNCHANGED response
  /\ Goto(c, "done") /\ UNCHANGED <<cancelled, tries, budget>>

\* An attempt fails in either transaction; after the last one the caller gets
\* its error and the recovery task takes over.
AttemptFails(c) ==
  /\ Retiring(c) /\ StorageFails
  /\ IF turnPc[c] = "retire" /\ tries[c] + 1 = Attempts
     THEN Goto(c, "recover") /\ Reject(c)
     ELSE UNCHANGED <<turnPc, response>>
  /\ tries' = [tries EXCEPT ![c] = IF @ + 1 = Attempts THEN 0 ELSE @ + 1]
  /\ UNCHANGED <<row, registry, cancelled>>
-----------------------------------------------------------------------------
\* The bridge closes the turn (StreamBridge), and schedule_terminal_cleanup
\* removes the slot when the retention is over.
BridgeSettles(c) ==
  /\ turnPc[c] = "bridge"
  /\ \E outcome \in {"complete", "failed", "cancelled"} :
       /\ outcome = "complete" => c \notin cancelled
       /\ row' = [row EXCEPT ![c] = [status |-> outcome, delivered |-> 1, durable |-> 1]]
  /\ Goto(c, "retained") /\ UNCHANGED <<response, registry, cancelled, tries, budget>>

RetentionOver(c) ==
  /\ turnPc[c] = "retained" /\ Goto(c, "done")
  /\ registry' = RemoveIfSame(registry, c)
  /\ UNCHANGED <<response, row, cancelled, tries, budget>>

\* cancel_owner: every stream of the window that has a slot.
CancelOwner ==
  /\ registry.requests \ cancelled # {}
  /\ cancelled' = cancelled \cup registry.requests
  /\ UNCHANGED <<turnPc, response, row, registry, tries, budget>>

\* The process ends and starts again: the store fails the rows left running
\* before any command runs.
Restart ==
  /\ \E c \in Calls : turnPc[c] \notin {"idle", "done"}
  /\ turnPc' = [c \in Calls |-> IF turnPc[c] = "idle" THEN "idle" ELSE "done"]
  /\ response' = [c \in Calls |-> IF response[c] = "pending" /\ turnPc[c] # "idle"
                                  THEN "lost" ELSE response[c]]
  /\ row' = [c \in Calls |-> IF row[c].status = "running"
                             THEN [row[c] EXCEPT !.status = "interrupted"] ELSE row[c]]
  /\ registry' = [requests |-> {}, reserved |-> 0]
  /\ cancelled' = {} /\ UNCHANGED <<tries, budget>>

Retire(c) == RecordDelivery(c) \/ FailTurn(c)

StartNext ==
  \/ \E c \in Calls :
       \/ ReadHistory(c) \/ InsertNew(c) \/ ReadClock(c) \/ BeginTurn(c) \/ LoadCredential(c)
       \/ SendStarted(c) \/ RecordDelivery(c) \/ FailTurn(c) \/ AttemptFails(c)
       \/ BridgeSettles(c) \/ RetentionOver(c)
  \/ CancelOwner \/ Restart

StartSpec == StartInit /\ [][StartNext]_startVars
-----------------------------------------------------------------------------
(* Properties.                                                             *)

StartTypeOK ==
  /\ turnPc \in [Calls -> {"idle", "insert", "clock", "leaked", "begin", "credential", "send",
                       "bridge", "retire", "recover", "retained", "done"}]
  /\ response \in [Calls -> {"pending", "accepted", "rejected", "lost"}]
  /\ row \in [Calls -> [status : {"none", "running", "complete", "failed", "cancelled",
                                  "interrupted"},
                        delivered : {0, 1}, durable : {0, 1}]]
  /\ registry \in [requests : SUBSET Calls, reserved : Nat]
  /\ cancelled \subseteq Calls /\ budget \in Nat /\ tries \in [Calls -> 0..(Attempts - 1)]

\* The byte reservation is that of the streams in the map, and within the limit,
\* however calls start, fail and retire: the expect in remove_if_same never fires.
ReservationExact ==
  /\ registry.reserved = StreamBytes * Cardinality(registry.requests)
  /\ Cardinality(registry.requests) <= MaxActive

\* Somebody is at work who gives the slot back: the call, its bridge, its recovery
\* task or its retention timer.
SlotOwned(c) ==
  turnPc[c] \in {"clock", "begin", "credential", "send", "bridge", "retire", "recover", "retained"}

\* The code leaks a slot in one place: TimestampMillis::now fails after insert_new, and
\* the call returns without remove_if_same.  Nothing else does: a slot nobody gives
\* back is that of a call rejected for its clock, which has opened no turn, so the
\* leak costs a place until the process ends and never blocks the chat.
OnlyClockErrorLeaks ==
  \A c \in registry.requests :
    SlotOwned(c) \/ (turnPc[c] = "leaked" /\ response[c] = "rejected" /\ row[c] = NoRow)

\* A row that is running has somebody who will close it: the call, its bridge or
\* its recovery task.  No error path leaves the chat blocked.
RunningRowOwned ==
  \A c \in Running : turnPc[c] \in {"credential", "send", "bridge", "retire", "recover"}

\* Slots, bytes and running rows are accounted for on every error path of
\* start_provider_stream: each has somebody who gives it back, but for the slot of a
\* call whose clock failed, which is kept until the process ends.
SlotsAccounted ==
  /\ StartTypeOK
  /\ ReservationExact
  /\ OnlyClockErrorLeaks
  /\ RunningRowOwned

\* A rejected call's turn is closed in the end, transient storage errors
\* notwithstanding, so the chat takes another message.
RejectedTurnCloses ==
  \A c \in Calls :
    (response[c] = "rejected" /\ row[c].status = "running") ~> (row[c].status # "running")

\* What the caller and the chat see of a row.
TurnOf(c) == CASE row[c].status = "none" -> "none"
               [] row[c].status = "running" -> "open"
               [] OTHER -> "closed"

TurnPromise == INSTANCE TurnContract WITH
  Turns <- Calls, turn <- [c \in Calls |-> TurnOf(c)], answer <- response

\* The start path implements the contract of a turn.
KeepsContract == TurnPromise!Contract

\* The start path implements the contract of a turn, and keeps its promise to close the
\* turn of a call it rejected (retire_rejected_start and its recovery task).
ContractKept ==
  KeepsContract /\ RejectedTurnCloses

=============================================================================
