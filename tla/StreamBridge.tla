---------------------------- MODULE StreamBridge ----------------------------
(***************************************************************************)
(* One provider stream from its Started event to the eviction of its       *)
(* terminal receipt (apps/desktop-mobile/src-tauri/src/provider_stream.rs):*)
(* the bridge task that forwards provider events to the WebView and writes *)
(* the journal, the acknowledgement, cancel, reset and snapshot commands,  *)
(* the ACK watchdog, the window-destroyed handler and a crash.             *)
(*                                                                         *)
(* Everything done while the `machine` lock is held is one step, every     *)
(* storage call is one step and every send to the channel is one step;     *)
(* tasks interleave between them.  A wait on `notify` is a wait on the     *)
(* condition itself: each waiter creates its Notified before it reads the  *)
(* machine and each change of the machine is followed by notify_waiters.   *)
(* Timers may fire at any moment.                                          *)
(***************************************************************************)
EXTENDS JournalRow, Integers, Functions

CONSTANTS
  Acker,        \* concurrent invocations of ack_provider_stream
  MaxInFlight,  \* MAX_IN_FLIGHT
  MaxWire,      \* MAX_WIRE_SEQUENCE, the sequence reserved for a terminal
  MaxUsage,     \* bound of the provider's token counter
  Retries,      \* length of TERMINAL_STORAGE_RETRY_DELAYS
  Commands,     \* the commands the client may issue besides ACK
  FaultOps,     \* the <<storage call, fault>> pairs that may happen
  MaxFaults     \* bound on the number of storage faults

Calls == {"deliver", "flush", "terminalDelivery", "finish", "fail", "ack"}

\* A call may fail without effect ("error") or commit and still be reported
\* as failed ("lost").
ASSUME ConstantsAssumption ==
  /\ MaxInFlight \in Nat \ {0}
  /\ MaxWire \in Nat \ {0}
  /\ MaxUsage \in Nat
  /\ Retries \in Nat
  /\ Commands \subseteq {"cancel", "reset", "destroy", "snapshot"}
  /\ FaultOps \subseteq Calls \X {"error", "lost"}
  /\ MaxFaults \in Nat
  /\ Acker \cap {"free", "bridge"} = {}

VARIABLES
  machine,   \* the StreamMachine, guarded by its lock
  flags,     \* the atomics cancel_requested and forced_failure, and the token
  permit,    \* the stored permit of flush_notify
  gate,      \* holder of ack_gate
  bridge,    \* control state of run_stream_bridge and what it calls
  buffer,    \* the StreamPersistence the bridge owns
  row,       \* this stream's row of request_state
  text,      \* the stored text of its assistant message
  wire,      \* the events put on the channel after Started
  ackers,    \* control state of each acknowledgement
  watchdog,  \* control state of run_ack_watchdog
  owner,     \* control state of cancel_owner on this stream
  reset,     \* control state of reset_owner_streams on this stream
  snapshot,  \* control state of get_provider_stream_snapshot
  accepted,  \* a cancel or reset command had its cancellation accepted
  registered,\* the registry still resolves the request id
  faults     \* storage faults left

shared == <<machine, flags, permit, gate>>
store == <<row, text, faults>>
clients == <<ackers, watchdog, owner, reset, snapshot, accepted, registered>>
vars == <<shared, bridge, buffer, store, wire, clients>>

None == -1

Ordinary == {"text", "hidden"}
Event == [seq : Nat, kind : Ordinary \cup Outcomes]

MachineType ==
  [sent : Nat, acked : Nat \cup {None}, durable : Nat, persistedAcked : Nat,
   flushRequested : Nat, armed : BOOLEAN, pending : Nat, lease : BOOLEAN,
   terminal : Outcomes \cup {"none"}, snapshotReturned : BOOLEAN,
   committing : BOOLEAN]

BridgePc ==
  {"select", "reserve", "send", "committed", "rejected", "deliver", "check",
   "recheck", "flush", "publish", "error", "decide", "gate", "terminalDelivery",
   "finish", "fail", "publishTerminal", "reserveTerminal", "sendTerminal",
   "receipt", "abort", "recover", "done", "crashed"}

BridgeType ==
  [pc : BridgePc, return : {"select", "reserve", "recheck", "event", "final"},
   draining : BOOLEAN, kind : Ordinary, result : Outcomes \cup {"none"},
   outcome : Outcomes \cup {"none"}, tries : Nat]

BufferType ==
  [delivered : Nat, durable : Nat, through : Nat, text : Seq(Nat), usage : Nat]

\* in_flight(): Started occupies sequence 0, hence the + 1.
InFlight(m) == (m.sent + 1) - (m.acked + 1)

IsTerminal == machine.terminal # "none"

Alive == bridge.pc # "crashed"

\* A storage call's outcome: "ok", or a fault that may happen to this call.
Outcome(call, f) ==
  \/ f = "ok" /\ UNCHANGED faults
  \/ <<call, f>> \in FaultOps /\ faults > 0 /\ faults' = faults - 1

Faults == {"ok", "error", "lost"}

GoTo(pc) == bridge' = [bridge EXCEPT !.pc = pc]

\* StreamMachine::after_started, StreamRequestState::new and
\* StreamPersistence::new.
NewMachine ==
  [sent |-> 0, acked |-> None, durable |-> 0, persistedAcked |-> 0,
   flushRequested |-> 0, armed |-> TRUE, pending |-> 0, lease |-> FALSE,
   terminal |-> "none", snapshotReturned |-> FALSE, committing |-> FALSE]

NewFlags == [cancel |-> FALSE, forced |-> FALSE, token |-> FALSE]

NewBridge ==
  [pc |-> "select", return |-> "select", draining |-> FALSE, kind |-> "hidden",
   result |-> "none", outcome |-> "none", tries |-> 0]

NewBuffer ==
  [delivered |-> 0, durable |-> 0, through |-> 0, text |-> <<>>, usage |-> 0]

Idle == [pc |-> "idle", seq |-> 0, known |-> FALSE]

Init ==
  /\ machine = NewMachine /\ flags = NewFlags
  /\ permit = FALSE /\ gate = "free"
  /\ bridge = NewBridge /\ buffer = NewBuffer
  /\ row = NewRow /\ text = <<>> /\ wire = <<>>
  /\ ackers = [a \in Acker |-> Idle]
  /\ watchdog = "watching" /\ owner = "idle" /\ reset = "idle"
  /\ snapshot = [pc |-> "idle", saw |-> FALSE]
  /\ accepted = FALSE /\ registered = TRUE
  /\ faults = MaxFaults
-----------------------------------------------------------------------------
(* The bridge's select loop.  The select is biased, so a flush request is  *)
(* served before an event, and an event before the end of the run.         *)

Dirty == buffer.through > buffer.durable

\* The flush after the loop; with nothing to write flush() returns at once,
\* without suspending.
FinalFlush(b) ==
  IF Dirty THEN [b EXCEPT !.pc = "flush", !.return = "final"]
  ELSE [b EXCEPT !.pc = "decide", !.return = "final"]

\* Where control goes when a flush returns, or an event has been forwarded.
Continue(b, return) ==
  CASE return = "final" -> [b EXCEPT !.pc = "decide"]
    [] return = "event" -> IF b.draining THEN FinalFlush(b) ELSE [b EXCEPT !.pc = "select"]
    [] OTHER -> [b EXCEPT !.pc = return]

Flush(b, return) ==
  IF Dirty THEN [b EXCEPT !.pc = "flush", !.return = return] ELSE Continue(b, return)

SelectFlushRequest ==
  /\ bridge.pc = "select" /\ permit
  /\ permit' = FALSE
  /\ bridge' = Flush(bridge, "select")
  /\ UNCHANGED <<machine, flags, gate, buffer, store, wire, clients>>

SelectFlushTimer ==
  /\ bridge.pc = "select" /\ ~permit
  /\ Dirty
  /\ bridge' = Flush(bridge, "select")
  /\ UNCHANGED <<shared, buffer, store, wire, clients>>

\* An event the runtime queued: text or refusal ("text"), or reasoning, a
\* response id or usage ("hidden", no visible text).
SelectEvent(kind) ==
  /\ bridge.pc = "select" /\ ~permit
  /\ bridge' = [bridge EXCEPT !.pc = "reserve", !.kind = kind]
  /\ UNCHANGED <<shared, buffer, store, wire, clients>>

\* The run future ended.  The runtime reports a cancellation only for its
\* token.  The channel between them holds at most one event, which is still
\* forwarded.
SelectRunEnd(result, queued) ==
  /\ bridge.pc = "select" /\ ~permit
  /\ result = "cancelled" => flags.token
  /\ LET b == [bridge EXCEPT !.result = result, !.draining = TRUE] IN
     bridge' = IF queued = "none" THEN FinalFlush(b)
               ELSE [b EXCEPT !.pc = "reserve", !.kind = queued]
  /\ UNCHANGED <<shared, buffer, store, wire, clients>>

\* An event refused before it is sent: oversized response id, empty delta,
\* visible text beyond the message limit.
RefuseEvent ==
  /\ bridge.pc = "reserve"
  /\ GoTo("error")
  /\ UNCHANGED <<shared, buffer, store, wire, clients>>

\* send_non_terminal, first lock section.
ReserveRefused ==
  /\ bridge.pc = "reserve"
  /\ \/ machine.lease \/ flags.cancel \/ flags.token
     \/ InFlight(machine) < MaxInFlight /\ machine.sent + 1 > MaxWire - 1
  /\ GoTo("error")
  /\ UNCHANGED <<shared, buffer, store, wire, clients>>

Reserve ==
  /\ bridge.pc = "reserve"
  /\ ~machine.lease /\ ~flags.cancel /\ ~flags.token
  /\ machine.pending = 0
  /\ InFlight(machine) < MaxInFlight
  /\ machine.sent + 1 <= MaxWire - 1
  /\ machine' = [machine EXCEPT !.pending = machine.sent + 1]
  /\ GoTo("send")
  /\ UNCHANGED <<flags, permit, gate, buffer, store, wire, clients>>

\* send_direct, outside the lock; the channel may be closed.
Send(open) ==
  /\ bridge.pc = "send"
  /\ wire' = IF open THEN Append(wire, [seq |-> machine.pending, kind |-> bridge.kind])
             ELSE wire
  /\ GoTo(IF open THEN "committed" ELSE "rejected")
  /\ UNCHANGED <<shared, buffer, store, clients>>

\* Mutant: the acknowledgement deadline is not armed again.
CommitSendUnarmed ==
  /\ bridge.pc \in {"committed", "rejected"}
  /\ machine' = IF bridge.pc = "committed"
       THEN [machine EXCEPT !.sent = machine.pending, !.pending = 0]
       ELSE [machine EXCEPT !.pending = 0]
  /\ GoTo(IF bridge.pc = "committed" THEN "deliver" ELSE "error")
  /\ UNCHANGED <<flags, permit, gate, buffer, store, wire, clients>>

\* send_non_terminal, second lock section.
CommitSend ==
  /\ bridge.pc \in {"committed", "rejected"}
  /\ machine' = IF bridge.pc = "committed"
       THEN [machine EXCEPT !.sent = machine.pending, !.pending = 0, !.armed = TRUE]
       ELSE [machine EXCEPT !.pending = 0]
  /\ GoTo(IF bridge.pc = "committed" THEN "deliver" ELSE "error")
  /\ UNCHANGED <<flags, permit, gate, buffer, store, wire, clients>>

\* StreamPersistence::record_delivery on sequence seq: refused locally when it
\* is not the next one; the store's answer must agree with the buffer.
DeliveryStored(seq, f) ==
  /\ seq = buffer.delivered + 1
  /\ f # "error"
  /\ CanDeliver(row, buffer.delivered, seq)

DeliveryAnswered(seq, f) ==
  DeliveryStored(seq, f) /\ f = "ok" /\ row.durable = buffer.durable

RecordDelivery(call, seq, f) ==
  /\ Outcome(call, f)
  /\ row' = IF DeliveryStored(seq, f) THEN DeliveredRow(row, seq) ELSE row
  /\ UNCHANGED text

\* record_delivery, then record: a usage event may also move the usage.
Deliver(f, usage) ==
  /\ bridge.pc = "deliver"
  /\ bridge.kind = "text" => usage = buffer.usage
  /\ RecordDelivery("deliver", machine.sent, f)
  /\ IF DeliveryAnswered(machine.sent, f)
     THEN /\ buffer' = [buffer EXCEPT
               !.delivered = machine.sent, !.through = machine.sent,
               !.usage = usage,
               !.text = IF bridge.kind = "text" THEN Append(@, machine.sent) ELSE @]
          /\ GoTo(IF bridge.kind = "text" THEN "check" ELSE "recheck")
     ELSE GoTo("error") /\ UNCHANGED buffer
  /\ UNCHANGED <<shared, wire, clients>>

\* flush_if_requested_or_pressured, called after each fragment of a text
\* delta ("check") and once more after the whole event ("recheck"); big says
\* that the buffered text reached STORAGE_FLUSH_BYTES.  A text delta may have
\* further fragments to send.
FlushCheck(big, more) ==
  LET requested == machine.flushRequested \in 1 .. buffer.through
      pressured == InFlight(machine) >= MaxInFlight - 1
      next == IF more THEN "reserve" ELSE IF bridge.pc = "check" THEN "recheck" ELSE "event"
  IN
  /\ bridge.pc \in {"check", "recheck"}
  /\ more => bridge.pc = "check"
  /\ big => buffer.text # <<>>
  /\ bridge' = IF big \/ requested \/ pressured THEN Flush(bridge, next)
               ELSE Continue(bridge, next)
  /\ UNCHANGED <<shared, buffer, store, wire, clients>>

\* Mutant: the text of a failed checkpoint is not put back.
FlushStoreForgets(f) ==
  LET stored == f # "error"
                /\ CanCheckpoint(row, buffer.durable, buffer.through, buffer.usage)
      answered == stored /\ f = "ok" /\ row.delivered = buffer.delivered
  IN
  /\ bridge.pc = "flush"
  /\ Outcome("flush", f)
  /\ row' = IF stored THEN CheckpointedRow(row, buffer.through, buffer.usage) ELSE row
  /\ text' = IF stored THEN text \o buffer.text ELSE text
  /\ buffer' = [buffer EXCEPT !.durable = IF answered THEN buffer.through ELSE @,
                              !.text = <<>>]
  /\ GoTo(IF answered THEN "publish" ELSE "error")
  /\ UNCHANGED <<shared, wire, clients>>

\* checkpoint_response.  A failed call puts the text back into the buffer; an
\* answer that disagrees with the buffer is treated as a failure.
FlushStore(f) ==
  LET stored == f # "error"
                /\ CanCheckpoint(row, buffer.durable, buffer.through, buffer.usage)
  IN
  /\ bridge.pc = "flush"
  /\ Outcome("flush", f)
  /\ row' = IF stored THEN CheckpointedRow(row, buffer.through, buffer.usage) ELSE row
  /\ text' = IF stored THEN text \o buffer.text ELSE text
  /\ IF stored /\ f = "ok" /\ row.delivered = buffer.delivered
     THEN /\ buffer' = [buffer EXCEPT !.durable = buffer.through, !.text = <<>>]
          /\ GoTo("publish")
     ELSE GoTo("error") /\ UNCHANGED buffer
  /\ UNCHANGED <<shared, wire, clients>>

\* publish_durable: also withdraws a flush request it satisfies.
PublishDurable(m, seq) ==
  LET durable == IF seq > m.durable THEN seq ELSE m.durable IN
  [m EXCEPT !.durable = durable,
            !.flushRequested = IF @ <= durable THEN 0 ELSE @]

FlushPublish ==
  /\ bridge.pc = "publish"
  /\ machine' = PublishDurable(machine, buffer.durable)
  /\ bridge' = Continue(bridge, bridge.return)
  /\ UNCHANGED <<flags, permit, gate, buffer, store, wire, clients>>

\* An error ends the loop and cancels the token, except while draining; the
\* final flush cancels it in any case.
BridgeError ==
  /\ bridge.pc = "error"
  /\ flags' = [flags EXCEPT !.token = @ \/ ~bridge.draining \/ bridge.return = "final"]
  /\ LET b == [bridge EXCEPT !.result = "failed", !.draining = TRUE, !.kind = "hidden"] IN
     bridge' = IF bridge.return = "final" THEN [b EXCEPT !.pc = "decide"] ELSE FinalFlush(b)
  /\ UNCHANGED <<machine, permit, gate, buffer, store, wire, clients>>

Decide ==
  /\ bridge.pc = "decide"
  /\ bridge' = [bridge EXCEPT !.pc = "gate",
       !.result = IF machine.lease THEN "failed"
                  ELSE IF flags.cancel THEN "cancelled" ELSE @]
  /\ UNCHANGED <<shared, buffer, store, wire, clients>>
-----------------------------------------------------------------------------
(* send_terminal, and recover_terminal_until_durable around it.            *)

TerminalSeq == machine.sent + 1

\* Take ack_gate and start committing; an accepted cancel wins.  The branches
\* that find a terminal, a commit or a pending send, or no sequence left, are
\* unreachable: see InternalChecksHold.
EnterTerminal ==
  /\ bridge.pc = "gate" /\ gate = "free"
  /\ gate' = "bridge"
  /\ machine' = [machine EXCEPT !.committing = TRUE]
  /\ bridge' = [bridge EXCEPT !.pc = "terminalDelivery", !.tries = 0,
       !.outcome = IF flags.cancel THEN "cancelled" ELSE bridge.result]
  /\ UNCHANGED <<flags, permit, buffer, store, wire, clients>>

\* Reserve the terminal sequence in the journal, unless an earlier attempt
\* did.  A completed run carries the provider's final usage.
TerminalDelivery(f, usage) ==
  /\ bridge.pc = "terminalDelivery"
  /\ bridge.outcome # "completed" => usage = buffer.usage
  /\ IF buffer.delivered < TerminalSeq
     THEN /\ RecordDelivery("terminalDelivery", TerminalSeq, f)
          /\ IF DeliveryAnswered(TerminalSeq, f)
             THEN /\ buffer' = [buffer EXCEPT !.delivered = TerminalSeq, !.usage = usage]
                  /\ GoTo("finish")
             ELSE GoTo("abort") /\ UNCHANGED buffer
     ELSE f = "ok" /\ GoTo("finish") /\ UNCHANGED <<buffer, store>>
  /\ UNCHANGED <<shared, wire, clients>>

\* Mutant: the terminal is published although storage never took it.
RetryThenPublish(pc) ==
  bridge' = IF bridge.tries < Retries THEN [bridge EXCEPT !.tries = @ + 1]
            ELSE [bridge EXCEPT !.tries = 0, !.pc = "publishTerminal"]

\* After a failed attempt: try again, or go on to pc.
Retry(pc) ==
  bridge' = IF bridge.tries < Retries THEN [bridge EXCEPT !.tries = @ + 1]
            ELSE [bridge EXCEPT !.tries = 0, !.pc = pc]

\* StreamPersistence::finish: the final checkpoint and the outcome, in one
\* transaction.
Finish(f) ==
  LET stored == f # "error"
                /\ CanCheckpoint(row, buffer.durable, TerminalSeq, buffer.usage)
  IN
  /\ bridge.pc = "finish"
  /\ Outcome("finish", f)
  /\ row' = IF stored THEN FinishedRow(row, TerminalSeq, buffer.usage, bridge.outcome)
            ELSE row
  /\ text' = IF stored THEN text \o buffer.text ELSE text
  /\ IF stored /\ f = "ok"
     THEN /\ buffer' = [buffer EXCEPT !.through = TerminalSeq,
                         !.durable = TerminalSeq, !.text = <<>>]
          /\ GoTo("publishTerminal")
     ELSE /\ buffer' = [buffer EXCEPT !.through = TerminalSeq]
          /\ Retry("fail")
  /\ UNCHANGED <<shared, wire, clients>>

\* What the row's status makes of the outcome the bridge wanted.
ReconciledOutcome(status) ==
  CASE status = "completed" /\ bridge.outcome = "completed" -> "completed"
    [] status = "cancelled" -> "cancelled"
    [] OTHER -> "failed"

\* fail_after_terminal_error: adopt an outcome the row already has, otherwise
\* record a failure with the same checkpoint.
FailRow(f) ==
  LET settled == row.status # "running"
      stored == f # "error" /\ row.delivered >= TerminalSeq
                /\ CanCheckpoint(row, buffer.durable, TerminalSeq, buffer.usage)
  IN
  /\ bridge.pc = "fail"
  /\ Outcome("fail", f)
  /\ row' = IF stored THEN FinishedRow(row, TerminalSeq, buffer.usage, "failed") ELSE row
  /\ text' = IF stored THEN text \o buffer.text ELSE text
  /\ IF f = "ok" /\ (settled \/ stored)
     THEN /\ buffer' = [buffer EXCEPT !.durable = row'.durable, !.text = <<>>]
          /\ bridge' = [bridge EXCEPT !.pc = "publishTerminal", !.tries = 0,
                         !.outcome = ReconciledOutcome(row'.status)]
     ELSE Retry("abort") /\ UNCHANGED buffer
  /\ UNCHANGED <<shared, wire, clients>>

PublishTerminal ==
  /\ bridge.pc = "publishTerminal"
  /\ machine' = PublishDurable(machine, buffer.durable)
  /\ bridge' = [bridge EXCEPT !.pc = "reserveTerminal", !.tries = 0]
  /\ UNCHANGED <<flags, permit, gate, buffer, store, wire, clients>>

\* Mutant: the acknowledgement gate is kept.
ReserveTerminalGated ==
  /\ bridge.pc = "reserveTerminal"
  /\ machine' = [machine EXCEPT !.pending = TerminalSeq]
  /\ GoTo("sendTerminal")
  /\ UNCHANGED <<flags, permit, gate, buffer, store, wire, clients>>

\* The terminal uses a slot of its own, whatever is in flight.
ReserveTerminal ==
  /\ bridge.pc = "reserveTerminal"
  /\ machine' = [machine EXCEPT !.pending = TerminalSeq]
  /\ gate' = "free"
  /\ GoTo("sendTerminal")
  /\ UNCHANGED <<flags, permit, buffer, store, wire, clients>>

SendTerminal(open) ==
  /\ bridge.pc = "sendTerminal"
  /\ wire' = IF open
             THEN Append(wire, [seq |-> machine.pending, kind |-> bridge.outcome])
             ELSE wire
  /\ GoTo("receipt")
  /\ UNCHANGED <<shared, buffer, store, clients>>

PublishReceipt ==
  /\ bridge.pc = "receipt"
  /\ machine' = [machine EXCEPT !.sent = machine.pending, !.pending = 0,
                   !.terminal = bridge.outcome, !.committing = FALSE]
  /\ GoTo("done")
  /\ UNCHANGED <<flags, permit, gate, buffer, store, wire, clients>>

\* Mutant: the request and its buffer are dropped instead of recovered.
AbortTerminalForGood ==
  /\ bridge.pc = "abort"
  /\ machine' = [machine EXCEPT !.committing = FALSE]
  /\ gate' = "free"
  /\ bridge' = [bridge EXCEPT !.pc = "done", !.outcome = "none", !.tries = 0]
  /\ UNCHANGED <<flags, permit, buffer, store, wire, clients>>

\* A failed attempt gives up the gate and the commit; the recovery task
\* sleeps and starts over with the terminal it was first given.
AbortTerminal ==
  /\ bridge.pc = "abort"
  /\ machine' = [machine EXCEPT !.committing = FALSE]
  /\ gate' = "free"
  /\ bridge' = [bridge EXCEPT !.pc = "recover", !.outcome = "none", !.tries = 0]
  /\ UNCHANGED <<flags, permit, buffer, store, wire, clients>>

RecoverTerminal ==
  /\ bridge.pc = "recover"
  /\ GoTo("gate")
  /\ UNCHANGED <<shared, buffer, store, wire, clients>>

\* schedule_terminal_cleanup: the receipt's retention has passed.
Retire ==
  /\ bridge.pc = "done" /\ registered
  /\ registered' = FALSE
  /\ UNCHANGED <<shared, bridge, buffer, store, wire, ackers, watchdog, owner,
                 reset, snapshot, accepted>>

RunEnds == \E r \in Outcomes, q \in Ordinary \cup {"none"} : SelectRunEnd(r, q)

Bridge ==
  \/ SelectFlushRequest \/ SelectFlushTimer \/ RunEnds \/ RefuseEvent
  \/ \E k \in Ordinary : SelectEvent(k)
  \/ ReserveRefused \/ Reserve \/ CommitSend
  \/ \E open \in BOOLEAN : Send(open) \/ SendTerminal(open)
  \/ \E f \in Faults, u \in 0 .. MaxUsage : Deliver(f, u) \/ TerminalDelivery(f, u)
  \/ \E big, more \in BOOLEAN : FlushCheck(big, more)
  \/ FlushPublish \/ BridgeError \/ Decide
  \/ \E f \in Faults : FlushStore(f) \/ Finish(f) \/ FailRow(f)
  \/ EnterTerminal \/ PublishTerminal \/ ReserveTerminal \/ PublishReceipt
  \/ AbortTerminal \/ RecoverTerminal \/ Retire
-----------------------------------------------------------------------------
(* ack_provider_stream.  ackers[a].known records that the event was already *)
(* on the channel when its acknowledgement was issued.                     *)

AckerPc == {"idle", "gate", "pending", "pendingWait", "validate", "barrier",
            "barrierWait", "persist", "record", "force", "forceCancel"}

AckGoTo(a, pc) == ackers' = [ackers EXCEPT ![a].pc = pc]

\* Return from the command, dropping the ack gate.
AckReturn(a) ==
  /\ gate' = "free"
  /\ ackers' = [ackers EXCEPT ![a] = Idle]

AckRest == <<bridge, buffer, wire, watchdog, owner, reset, snapshot, accepted>>

CanEvict(m) == m.terminal # "none" /\ m.snapshotReturned /\ m.acked >= m.sent

Ack(a, seq) ==
  /\ ackers[a].pc = "idle" /\ registered
  /\ ackers' = [ackers EXCEPT ![a] =
       [pc |-> "gate", seq |-> seq, known |-> seq <= Len(wire)]]
  /\ UNCHANGED <<shared, store, registered, AckRest>>

AckGate(a) ==
  /\ ackers[a].pc = "gate" /\ gate = "free"
  /\ gate' = a
  /\ AckGoTo(a, "pending")
  /\ UNCHANGED <<machine, flags, permit, store, registered, AckRest>>

\* Mutant: no wait for the sender's commit.
AckPendingIgnored(a) ==
  /\ ackers[a].pc = "pending"
  /\ AckGoTo(a, "validate")
  /\ UNCHANGED <<shared, store, registered, AckRest>>

\* wait_for_send_commit: an event may be acknowledged before its sender has
\* committed it.
AckPending(a) ==
  /\ ackers[a].pc = "pending"
  /\ AckGoTo(a, IF ackers[a].seq > 0 /\ machine.pending = ackers[a].seq
                THEN "pendingWait" ELSE "validate")
  /\ UNCHANGED <<shared, store, registered, AckRest>>

AckPendingWake(a) ==
  /\ ackers[a].pc = "pendingWait"
  /\ machine.pending # ackers[a].seq
  /\ AckGoTo(a, "pending")
  /\ UNCHANGED <<shared, store, registered, AckRest>>

\* The token was cancelled or the observation timed out.
AckPendingGiveUp(a) ==
  /\ ackers[a].pc = "pendingWait"
  /\ AckReturn(a)
  /\ UNCHANGED <<machine, flags, permit, store, registered, AckRest>>

\* note_ack_activity and request_flush_through.
RequestFlush(m, seq) ==
  [m EXCEPT !.armed = @ \/ seq > m.acked,
            !.flushRequested = IF seq > m.durable /\ seq > @ THEN seq ELSE @]

AckValidate(a) ==
  LET seq == ackers[a].seq IN
  /\ ackers[a].pc = "validate"
  /\ \/ /\ seq > machine.sent \/ seq <= machine.acked
        /\ AckReturn(a)
        /\ registered' = (registered /\ ~(seq = machine.acked /\ CanEvict(machine)))
        /\ UNCHANGED <<machine, permit>>
     \/ /\ seq <= machine.sent /\ seq > machine.acked
        /\ machine' = IF IsTerminal THEN machine ELSE RequestFlush(machine, seq)
        /\ permit' = (permit \/ (~IsTerminal /\ seq > 0))
        /\ AckGoTo(a, IF seq = 0 THEN "record"
                      ELSE IF IsTerminal THEN "persist" ELSE "barrier")
        /\ UNCHANGED <<gate, registered>>
  /\ UNCHANGED <<flags, store, AckRest>>

\* The durability barrier: nothing is acknowledged before it is durable.
BarrierOpen(seq) ==
  IsTerminal \/ (~machine.committing /\ machine.durable >= seq)

AckBarrier(a) ==
  /\ ackers[a].pc = "barrier"
  /\ IF machine.lease THEN AckReturn(a)
     ELSE /\ AckGoTo(a, IF BarrierOpen(ackers[a].seq) THEN "persist" ELSE "barrierWait")
          /\ UNCHANGED gate
  /\ UNCHANGED <<machine, flags, permit, store, registered, AckRest>>

AckBarrierWake(a) ==
  /\ ackers[a].pc = "barrierWait"
  /\ machine.lease \/ BarrierOpen(ackers[a].seq)
  /\ AckGoTo(a, "barrier")
  /\ UNCHANGED <<shared, store, registered, AckRest>>

AckBarrierCancelled(a) ==
  /\ ackers[a].pc = "barrierWait" /\ flags.token
  /\ AckReturn(a)
  /\ UNCHANGED <<machine, flags, permit, store, registered, AckRest>>

AckBarrierTimeout(a) ==
  /\ ackers[a].pc = "barrierWait"
  /\ AckGoTo(a, "force")
  /\ UNCHANGED <<shared, store, registered, AckRest>>

\* Mutant: a failed write of the acknowledgement is ignored.
AckPersistIgnored(a, f) ==
  LET seq == ackers[a].seq
      stored == f # "error" /\ CanAck(row, machine.persistedAcked, seq)
  IN
  /\ ackers[a].pc = "persist"
  /\ Outcome("ack", f)
  /\ row' = IF stored THEN AckedRow(row, seq) ELSE row
  /\ machine' = [machine EXCEPT !.persistedAcked = seq]
  /\ AckGoTo(a, "record")
  /\ UNCHANGED <<flags, permit, gate, text, registered, AckRest>>

\* persist_cumulative_ack.
AckPersist(a, f) ==
  LET seq == ackers[a].seq
      stored == f # "error" /\ CanAck(row, machine.persistedAcked, seq)
  IN
  /\ ackers[a].pc = "persist"
  /\ Outcome("ack", f)
  /\ row' = IF stored THEN AckedRow(row, seq) ELSE row
  /\ IF stored /\ f = "ok"
     THEN machine' = [machine EXCEPT !.persistedAcked = seq] /\ AckGoTo(a, "record")
     ELSE AckGoTo(a, "force") /\ UNCHANGED machine
  /\ UNCHANGED <<flags, permit, gate, text, registered, AckRest>>

\* record_ack_progress: the deadline is dropped when nothing is in flight.
RecordAckProgress(m, seq) ==
  [m EXCEPT !.acked = seq,
            !.armed = m.sent > seq /\ (@ \/ seq > m.acked)]

AckRecord(a) ==
  /\ ackers[a].pc = "record"
  /\ machine' = RecordAckProgress(machine, ackers[a].seq)
  /\ AckReturn(a)
  /\ registered' = (registered /\ ~CanEvict(machine'))
  /\ UNCHANGED <<flags, permit, store, AckRest>>

\* force_stream_failure: the failure is published under the lock, the token
\* is cancelled after it is released, and the bridge is woken if it waits for
\* a flush request.
ForceFailure(a) ==
  LET forced == ~IsTerminal /\ ~machine.committing /\ ~machine.lease IN
  /\ ackers[a].pc = "force"
  /\ machine' = [machine EXCEPT !.lease = @ \/ forced]
  /\ flags' = [flags EXCEPT !.forced = @ \/ forced]
  /\ AckGoTo(a, "forceCancel")
  /\ UNCHANGED <<permit, gate, store, registered, AckRest>>

ForceCancel(a, waiting) ==
  /\ ackers[a].pc = "forceCancel"
  /\ waiting => bridge.pc = "select"
  /\ flags' = [flags EXCEPT !.token = TRUE]
  /\ permit' = (permit \/ waiting)
  /\ AckReturn(a)
  /\ UNCHANGED <<machine, store, registered, AckRest>>

AckStep(a) ==
  \/ AckPending(a) \/ AckPendingWake(a) \/ AckPendingGiveUp(a) \/ AckValidate(a)
  \/ AckBarrier(a) \/ AckBarrierWake(a) \/ AckBarrierCancelled(a)
  \/ AckBarrierTimeout(a) \/ \E f \in Faults : AckPersist(a, f)
  \/ AckRecord(a) \/ ForceFailure(a)
  \/ \E waiting \in BOOLEAN : ForceCancel(a, waiting)
-----------------------------------------------------------------------------
(* run_ack_watchdog.                                                       *)

WatchdogFire ==
  /\ watchdog = "watching"
  /\ ~IsTerminal /\ ~machine.committing /\ ~machine.lease
  /\ InFlight(machine) > 0 /\ machine.armed
  /\ machine' = [machine EXCEPT !.lease = TRUE]
  /\ flags' = [flags EXCEPT !.forced = TRUE]
  /\ watchdog' = "fired"
  /\ UNCHANGED <<permit, gate, bridge, buffer, store, wire, ackers, owner, reset,
                 snapshot, accepted, registered>>

WatchdogCancel ==
  /\ watchdog = "fired"
  /\ flags' = [flags EXCEPT !.token = TRUE]
  /\ watchdog' = "gone"
  /\ UNCHANGED <<machine, permit, gate, bridge, buffer, store, wire, ackers, owner,
                 reset, snapshot, accepted, registered>>

WatchdogExit ==
  /\ watchdog = "watching"
  /\ IsTerminal \/ machine.committing \/ machine.lease \/ flags.token
  /\ watchdog' = "gone"
  /\ UNCHANGED <<shared, bridge, buffer, store, wire, ackers, owner, reset,
                 snapshot, accepted, registered>>

Watchdog == WatchdogFire \/ WatchdogCancel \/ WatchdogExit
-----------------------------------------------------------------------------
(* Cancellation.                                                           *)

\* request_cancel, called with the machine lock held and only while the
\* stream can still be cancelled.
LockedCancel ==
  LET cancellable == ~IsTerminal /\ ~machine.committing /\ ~machine.lease
                     /\ ~flags.forced /\ ~flags.cancel
  IN
  /\ flags' = [flags EXCEPT !.cancel = @ \/ cancellable, !.token = @ \/ cancellable]
  /\ accepted' = (accepted \/ cancellable)

\* cancel_provider_stream
Cancel ==
  /\ "cancel" \in Commands /\ registered
  /\ LockedCancel
  /\ UNCHANGED <<machine, permit, gate, bridge, buffer, store, wire, ackers,
                 watchdog, owner, reset, snapshot, registered>>

\* reset_owner_streams: cancel, then wait for the terminal and forget the
\* stream, or time out.
ResetCancel ==
  /\ "reset" \in Commands /\ reset = "idle" /\ registered
  /\ LockedCancel
  /\ reset' = "waiting"
  /\ UNCHANGED <<machine, permit, gate, bridge, buffer, store, wire, ackers,
                 watchdog, owner, snapshot, registered>>

ResetEnd(timeout) ==
  /\ reset = "waiting"
  /\ timeout \/ IsTerminal
  /\ reset' = "idle"
  /\ registered' = (registered /\ timeout)
  /\ UNCHANGED <<shared, bridge, buffer, store, wire, ackers, watchdog, owner,
                 snapshot, accepted>>

\* cancel_owner, when the window is destroyed: request_cancel without the
\* machine lock, one atomic operation at a time.
OwnerRest == <<machine, permit, gate, bridge, buffer, store, wire, ackers, watchdog,
               reset, snapshot, accepted, registered>>

OwnerLoadForced ==
  /\ "destroy" \in Commands /\ owner = "idle" /\ registered
  /\ owner' = IF flags.forced THEN "done" ELSE "swap"
  /\ UNCHANGED <<flags, OwnerRest>>

OwnerSwap ==
  /\ owner = "swap"
  /\ flags' = [flags EXCEPT !.cancel = TRUE]
  /\ owner' = IF flags.cancel THEN "done" ELSE "cancel"
  /\ UNCHANGED OwnerRest

OwnerCancelToken ==
  /\ owner = "cancel"
  /\ flags' = [flags EXCEPT !.token = TRUE]
  /\ owner' = "done"
  /\ UNCHANGED OwnerRest

Owner == OwnerLoadForced \/ OwnerSwap \/ OwnerCancelToken
-----------------------------------------------------------------------------
(* get_provider_stream_snapshot.  snapshot.saw records that the terminal    *)
(* event was on the channel when the snapshot was asked for.               *)

SnapshotRest == <<flags, permit, gate, bridge, buffer, store, wire, ackers, watchdog,
                  owner, reset, accepted>>

TerminalOnWire == \E i \in 1 .. Len(wire) : wire[i].kind \in Outcomes

SnapshotAsk ==
  /\ "snapshot" \in Commands /\ snapshot.pc = "idle" /\ registered
  /\ snapshot' = [pc |-> "waiting", saw |-> TerminalOnWire]
  /\ UNCHANGED <<machine, registered, SnapshotRest>>

\* Mutant: no wait for a pending send.
SnapshotNotWaiting(timeout) ==
  /\ snapshot.pc = "waiting"
  /\ ~timeout
  /\ snapshot' = [snapshot EXCEPT !.pc = "reading"]
  /\ UNCHANGED <<machine, registered, SnapshotRest>>

\* wait_for_pending_send_resolution, or its timeout.
SnapshotWaited(timeout) ==
  /\ snapshot.pc = "waiting"
  /\ timeout => machine.pending # 0
  /\ ~timeout => machine.pending = 0
  /\ snapshot' = IF timeout THEN [pc |-> "idle", saw |-> FALSE]
                 ELSE [snapshot EXCEPT !.pc = "reading"]
  /\ UNCHANGED <<machine, registered, SnapshotRest>>

SnapshotRead ==
  /\ snapshot.pc = "reading"
  /\ machine' = [machine EXCEPT !.snapshotReturned = @ \/ IsTerminal]
  /\ registered' = (registered /\ ~CanEvict(machine'))
  /\ snapshot' = [pc |-> "idle", saw |-> FALSE]
  /\ UNCHANGED SnapshotRest

Snapshot ==
  \/ SnapshotAsk \/ SnapshotRead
  \/ \E timeout \in BOOLEAN : SnapshotWaited(timeout)
-----------------------------------------------------------------------------
\* The process dies and restarts.  What it held in memory is gone, the stream
\* with it; only the database survives, recovered at startup, and what the
\* WebView had received (wire, accepted) stays as a record of the past.
Crash ==
  /\ bridge.pc # "crashed"
  /\ registered' = FALSE /\ faults' = 0
  /\ machine' = NewMachine /\ flags' = NewFlags
  /\ permit' = FALSE /\ gate' = "free"
  /\ bridge' = [NewBridge EXCEPT !.pc = "crashed"] /\ buffer' = NewBuffer
  /\ ackers' = [a \in Acker |-> Idle]
  /\ watchdog' = "gone" /\ owner' = "idle" /\ reset' = "idle"
  /\ snapshot' = [pc |-> "idle", saw |-> FALSE]
  /\ row' = RecoveredRow(row)
  /\ UNCHANGED <<text, wire, accepted>>

Next ==
  \/ Bridge
  \/ \E a \in Acker : AckGate(a) \/ AckStep(a)
  \/ \E a \in Acker, seq \in 0 .. machine.sent + 1 : Ack(a, seq)
  \/ Watchdog \/ Cancel \/ ResetCancel \/ Owner \/ Snapshot
  \/ \E timeout \in BOOLEAN : ResetEnd(timeout)
  \/ Crash

Spec == Init /\ [][Next]_vars

\* Fairness.  Every task is polled and every timer it sleeps on fires, so a
\* step that stays possible is taken.  The provider's run ends, because the
\* runtime bounds it by its overall timeout, and it is seen although the
\* select prefers flush requests, because a flush with nothing to write does
\* not suspend.  ack_gate is a tokio mutex, which is granted in order.
Fairness ==
  /\ WF_vars(Bridge)
  /\ SF_vars(RunEnds)
  /\ SF_vars(EnterTerminal)
  /\ WF_vars(Watchdog)
  /\ WF_vars(OwnerSwap \/ OwnerCancelToken)
  /\ \A a \in Acker :
       /\ SF_vars(AckGate(a))
       /\ WF_vars(AckStep(a))

FairSpec == Spec /\ Fairness
-----------------------------------------------------------------------------
\* The types of the machine, the buffer, the journal row and every task's
\* control state; in particular a row and an event only ever get one of the
\* three outcomes send_terminal knows.
TypeOK ==
  /\ machine \in MachineType
  /\ flags \in [cancel : BOOLEAN, forced : BOOLEAN, token : BOOLEAN]
  /\ permit \in BOOLEAN
  /\ gate \in Acker \cup {"free", "bridge"}
  /\ bridge \in BridgeType
  /\ buffer \in BufferType
  /\ row \in RowType
  /\ text \in Seq(Nat)
  /\ wire \in Seq(Event)
  /\ ackers \in [Acker -> [pc : AckerPc, seq : Nat, known : BOOLEAN]]
  /\ watchdog \in {"watching", "fired", "gone"}
  /\ owner \in {"idle", "swap", "cancel", "done"}
  /\ reset \in {"idle", "waiting"}
  /\ snapshot \in [pc : {"idle", "waiting", "reading"}, saw : BOOLEAN]
  /\ accepted \in BOOLEAN /\ registered \in BOOLEAN
  /\ faults \in Nat

\* What the client was told is acknowledged is in the journal, what is
\* acknowledged in the journal is durable, and the machine never claims more
\* durability than the row has: a crash at any moment loses nothing that was
\* acknowledged (the durability barrier of ack_provider_stream).
JournalBacksMachine ==
  Alive =>
  /\ machine.acked <= row.acked
  /\ RowOrdered(row)
  /\ machine.durable <= row.durable
  /\ row.delivered <= machine.sent + 1

\* The text events a+1 .. b of the channel.
TextEvents(a, b) == {i \in 1 .. Len(wire) : wire[i].kind = "text" /\ a < i /\ i <= b}

Increasing(s) == \A i, j \in DOMAIN s : i < j => s[i] < s[j]

\* The stored message is exactly the visible text of the durable events, each
\* once and in the order of the wire, through failed, retried and lost
\* checkpoints (checkpoint takes the buffer, restore_checkpoint_payload puts
\* it back) and through the fallback of a failed terminal.
StoredTextExact ==
  /\ Increasing(text)
  /\ Range(text) = TextEvents(0, row.durable)

\* The WebView sees consecutive sequence numbers and nothing after a terminal
\* event, at most MaxInFlight ordinary events are unacknowledged, reserved
\* ones included, and the terminal uses one slot more.
WireWellFormed ==
  /\ \A i \in 1 .. Len(wire) : wire[i].seq = i
  /\ \A i \in 1 .. Len(wire) - 1 : wire[i].kind \in Ordinary
  /\ Alive => Len(wire) - machine.acked <= MaxInFlight + IF TerminalOnWire THEN 1 ELSE 0

\* A terminal event or receipt is only ever seen when the row has an outcome:
\* a completed or cancelled one agrees with the row exactly, a failed one may
\* stand for an outcome storage reported too late (STORAGE_TERMINAL_
\* INCONSISTENT), never for a request still running.
TerminalBackedByRow ==
  \A o \in Outcomes :
    (machine.terminal = o \/ \E i \in 1 .. Len(wire) : wire[i].kind = o) =>
      /\ row.status \in Outcomes
      /\ o # "failed" => row.status = o
      /\ row.durable = row.delivered

\* A client that acknowledges an event it has received is never told that the
\* sequence is out of range, even when the sender has not committed the send
\* yet (wait_for_send_commit).
ReceivedEventIsAckable ==
  \A a \in Acker :
    ackers[a].known /\ ackers[a].pc = "validate" => ackers[a].seq <= machine.sent

\* A client that has received the terminal event and asks for a snapshot finds
\* the receipt in it, although the event is sent before the receipt is
\* published (wait_for_pending_send_resolution).
SnapshotShowsReceipt ==
  snapshot.saw /\ snapshot.pc = "reading" => IsTerminal

\* A stream whose client stops acknowledging cannot hang: while the bridge
\* may wait for a free slot, unacknowledged events keep the deadline armed and
\* the watchdog is gone only after a failure or a cancel was published.
StallIsWatched ==
  bridge.pc \in {"select", "reserve"} =>
    /\ InFlight(machine) > 0 => machine.armed
    /\ watchdog = "gone" => machine.lease \/ flags.token

\* The bridge's own consistency checks never fail: the branches of
\* send_terminal, record and enter_terminal_sequence that report an internal
\* state error are unreachable.
InternalChecksHold ==
  /\ bridge.pc \in {"gate", "reserve"} =>
       ~IsTerminal /\ ~machine.committing /\ machine.pending = 0
         /\ machine.sent + 1 <= MaxWire
  /\ bridge.pc = "deliver" /\ buffer.delivered = machine.sent - 1 =>
       buffer.through = buffer.delivered
  /\ bridge.pc = "terminalDelivery" => buffer.delivered <= TerminalSeq
  /\ bridge.pc \in {"finish", "fail"} =>
       /\ buffer.through \in {TerminalSeq - 1, TerminalSeq}
       /\ buffer.durable < TerminalSeq
  /\ bridge.pc = "fail" => buffer.through = TerminalSeq
  /\ bridge.pc = "reserveTerminal" => machine.pending = 0
  /\ bridge.pc \in {"sendTerminal", "receipt"} => machine.pending = TerminalSeq

\* Journal row, machine and buffer agree, so nothing acknowledged is lost by a crash and none
\* of the internal errors of send_terminal, record and enter_terminal_sequence can happen.
RecordsAgree ==
    TypeOK /\ JournalBacksMachine /\ InternalChecksHold

\* An accepted cancel decides the outcome: the terminal is `cancelled`, or
\* `failed` when storage would not take it, and never `completed`.
CancelWins ==
  accepted /\ IsTerminal =>
    \/ machine.terminal = "cancelled"
    \/ machine.terminal = "failed" /\ faults < MaxFaults

\* The channel, the snapshot and the answer to a cancel tell the client one story: events in
\* order and within the window, the receipt once the terminal was seen, the cancel it was granted.
ClientSeesTruth ==
    WireWellFormed /\ SnapshotShowsReceipt /\ CancelWins

\* The request does not stay `running`: it is settled by the bridge, by the
\* recovery task after storage failures, or by the next start.
RowSettles == <>(row.status # "running")

\* Every acknowledgement is answered: the ack gate, the durability barrier and
\* the terminal commit never wait for each other for ever.
AckAnswered ==
  \A a \in Acker : ackers[a].pc # "idle" ~> ackers[a].pc = "idle"
=============================================================================
