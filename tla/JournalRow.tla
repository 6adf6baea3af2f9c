----------------------------- MODULE JournalRow -----------------------------
(***************************************************************************)
(* One row of the request_state table, together with the text of the       *)
(* assistant message it writes: the guards the store evaluates inside its  *)
(* IMMEDIATE transactions and the row each transaction leaves behind.      *)
(* last_acked_seq is NULL until the first acknowledgement; NULL is 0 here, *)
(* which is what validate_cumulative_ack makes of it.                      *)
(*                                                                         *)
(* The visible text of a response is abstracted to the sequence numbers of *)
(* the wire events that carried it, so that a lost, repeated or reordered  *)
(* fragment can be told apart.                                             *)
(***************************************************************************)
EXTENDS Naturals, Sequences

\* The terminal outcomes finish_turn may be asked to record.
Outcomes == {"completed", "cancelled", "failed"}

RowStatus == Outcomes \cup {"running", "interrupted"}

RowType ==
  [status : RowStatus, delivered : Nat, durable : Nat, acked : Nat, usage : Nat]

\* The row begin_turn inserts.
NewRow ==
  [status |-> "running", delivered |-> 0, durable |-> 0, acked |-> 0, usage |-> 0]

\* record_response_delivery: a running row, the caller's view of the
\* delivered sequence current, and an advance by exactly one.
CanDeliver(r, expected, through) ==
  /\ through = expected + 1
  /\ r.status = "running"
  /\ r.delivered = expected

DeliveredRow(r, through) == [r EXCEPT !.delivered = through]

\* Mutant: the expected durable sequence is not compared.
CanCheckpointAgain(r, expected, through, usage) ==
  /\ through > expected
  /\ r.status = "running"
  /\ through <= r.delivered
  /\ usage >= r.usage

\* apply_response_progress, shared by checkpoint_response and finish_turn.
\* The four token counters of the usage are one number here; the store wants
\* them never to decrease.
CanCheckpoint(r, expected, through, usage) ==
  /\ through > expected
  /\ r.status = "running"
  /\ r.durable = expected
  /\ through <= r.delivered
  /\ usage >= r.usage

CheckpointedRow(r, through, usage) ==
  [r EXCEPT !.durable = through, !.usage = usage]

FinishedRow(r, through, usage, outcome) ==
  [r EXCEPT !.durable = through, !.usage = usage, !.status = outcome]

\* acknowledge_response: any status, the caller's view of the acknowledged
\* sequence current, a strict advance, never beyond the durable sequence.
CanAck(r, expected, through) ==
  /\ through > expected
  /\ r.acked = expected
  /\ through <= r.durable

AckedRow(r, through) == [r EXCEPT !.acked = through]

\* Mutant: every row is marked, settled ones too.
RecoveredAnyRow(r) == [r EXCEPT !.status = "interrupted"]

\* recover_interrupted_requests at startup.
RecoveredRow(r) ==
  IF r.status = "running" THEN [r EXCEPT !.status = "interrupted"] ELSE r

\* Status the assistant message takes with each terminal outcome.
MessageStatusFor(outcome) ==
  CASE outcome = "completed" -> "complete"
    [] outcome = "cancelled" -> "partial"
    [] outcome = "failed"    -> "failed"

\* The journal's watermarks, as verify_stream_journal_rows and the table's
\* CHECK constraint state them.
RowOrdered(r) == r.acked <= r.durable /\ r.durable <= r.delivered

\* What the events a+1 .. b contribute to the text.
Fragment(a, b) == [i \in 1 .. b - a |-> a + i]
=============================================================================
