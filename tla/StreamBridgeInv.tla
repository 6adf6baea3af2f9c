-------------------------- MODULE StreamBridgeInv ---------------------------
(***************************************************************************)
(* The inductive invariant of StreamBridge.  It says for every point of the*)
(* bridge what the machine, the journal row, the buffer and the channel    *)
(* look like there, and for every point of a command what it may rely on.  *)
(***************************************************************************)
EXTENDS StreamBridge
-----------------------------------------------------------------------------
\* The bridge forwards events; it waits for the gate; it commits the terminal;
\* the row has its outcome; the terminal event is on its way.
Looping == {"select", "reserve", "send", "committed", "rejected", "deliver", "check",
            "recheck", "flush", "publish", "error", "decide"}
Waiting == {"gate", "recover"}
Closing == {"terminalDelivery", "finish", "fail", "abort"}
Settled == {"publishTerminal", "reserveTerminal"}
Sending == {"sendTerminal", "receipt"}

\* An ordinary event is being sent.
InSend == {"send", "committed", "rejected"}

\* What the point the bridge has reached says of the machine and the gate.
Phase ==
  /\ machine.terminal = "none" <=> bridge.pc # "done"
  /\ machine.committing <=> bridge.pc \in Closing \cup Settled \cup Sending
  /\ gate = "bridge" <=> bridge.pc \in Closing \cup Settled
  /\ machine.pending = IF bridge.pc \in InSend \cup Sending THEN machine.sent + 1 ELSE 0
  /\ bridge.pc # "done" => machine.sent + 1 <= MaxWire
  /\ bridge.pc \in InSend => machine.sent + 1 <= MaxWire - 1
  /\ bridge.pc \notin (Looping \ {"decide"}) \cup {"crashed"} => bridge.draining
  /\ bridge.return = "final" => bridge.draining
  /\ bridge.draining => bridge.result \in Outcomes
  /\ bridge.pc \in Closing \cup Settled \cup Sending => bridge.outcome \in Outcomes

\* The channel: its length, its kinds, and how far it is ahead of the client.
Channel ==
  /\ \A i \in 1 .. Len(wire) : wire[i].seq = i
  /\ \A i \in 1 .. Len(wire) - 1 : wire[i].kind \in Ordinary
  /\ bridge.pc \notin {"receipt", "done", "crashed"} =>
       \A i \in 1 .. Len(wire) : wire[i].kind \in Ordinary
  /\ bridge.pc \notin {"committed", "receipt", "done", "crashed"} => Len(wire) = machine.sent
  /\ bridge.pc = "committed" =>
       Len(wire) = machine.sent + 1 /\ wire[Len(wire)].kind = bridge.kind
  /\ bridge.pc = "deliver" => machine.sent > 0 /\ wire[machine.sent].kind = bridge.kind
  /\ bridge.pc = "receipt" =>
       /\ Len(wire) \in {machine.sent, machine.sent + 1}
       /\ \A i \in 1 .. Len(wire) :
            wire[i].kind \in (IF i <= machine.sent THEN Ordinary ELSE {bridge.outcome})
  /\ bridge.pc = "done" =>
       /\ Len(wire) \in {machine.sent - 1, machine.sent}
       /\ \A i \in 1 .. Len(wire) :
            wire[i].kind \in (IF i < machine.sent THEN Ordinary ELSE {machine.terminal})
  /\ Alive =>
       /\ machine.acked <= machine.sent
       /\ machine.sent - machine.acked <= MaxInFlight + (IF bridge.pc = "done" THEN 1 ELSE 0)
  /\ bridge.pc \in InSend => machine.sent + 1 - machine.acked <= MaxInFlight

\* The row is settled as far as the bridge knows.
Published == Settled \cup Sending \cup {"done", "crashed"}

\* The watermarks of machine, buffer and row.
Watermarks ==
  /\ RowOrdered(row)
  /\ Alive =>
       /\ machine.acked <= machine.persistedAcked /\ machine.persistedAcked <= row.acked
       /\ machine.durable <= row.durable /\ buffer.durable <= row.durable
       /\ buffer.delivered <= row.delivered /\ row.delivered <= machine.sent + 1
  /\ bridge.pc \in Looping => row.delivered <= machine.sent
  /\ bridge.pc \notin Published =>
       /\ buffer.durable <= buffer.through /\ buffer.durable <= machine.sent
       /\ IF buffer.delivered <= machine.sent THEN buffer.through = buffer.delivered
          ELSE buffer.through \in {machine.sent, machine.sent + 1}
  /\ bridge.pc \in {"finish", "fail"} => buffer.delivered = machine.sent + 1
  /\ bridge.pc = "fail" => buffer.through = machine.sent + 1

\* The outcome: what the row has, what the bridge wants and what a cancel was promised.
Ruling ==
  /\ row.status \in Outcomes => row.durable = row.delivered
  /\ Alive => row.status # "interrupted"
  /\ bridge.pc \in Looping => row.status = "running"
  /\ bridge.pc \in Settled \cup Sending =>
       row.status \in Outcomes /\ (bridge.outcome # "failed" => row.status = bridge.outcome)
  /\ faults <= MaxFaults
  /\ faults = MaxFaults =>
       /\ bridge.pc \notin Published => row.status = "running"
       /\ bridge.pc = "fail" =>
            ~CanCheckpoint(row, buffer.durable, TerminalSeq, buffer.usage)
  /\ accepted /\ Alive => flags.cancel
  /\ accepted /\ bridge.pc \in Closing => bridge.outcome = "cancelled"
  /\ accepted /\ bridge.pc \in Settled \cup Sending =>
       bridge.outcome = "cancelled" \/ (bridge.outcome = "failed" /\ faults < MaxFaults)
  /\ CancelWins

\* The outcome the client sees, and the one the bridge may still reach.
Verdict == TerminalBackedByRow /\ Ruling

\* The text in the store and the text in the buffer.
Texts ==
  /\ StoredTextExact
  /\ bridge.pc \notin Published =>
       /\ Increasing(buffer.text)
       /\ Range(buffer.text) = TextEvents(buffer.durable, buffer.through)

\* An acknowledgement: it owns the gate, its sequence is still to be acknowledged, and
\* the event it was issued for has been sent.
AckerHolds(a) ==
  /\ ackers[a].pc \notin {"idle", "gate"} => gate = a
  /\ ackers[a].pc \in {"barrier", "barrierWait", "persist", "record"} =>
       machine.acked < ackers[a].seq /\ ackers[a].seq <= machine.sent
  /\ ackers[a].pc = "record" => ackers[a].seq <= machine.persistedAcked
  /\ ackers[a].known =>
       /\ ackers[a].pc \in {"gate", "pending", "pendingWait"} => ackers[a].seq <= Len(wire)
       /\ ackers[a].pc = "validate" => ackers[a].seq <= machine.sent

\* The snapshot and the watchdog.
Watchers ==
  /\ snapshot.saw /\ snapshot.pc = "waiting" => bridge.pc \in {"receipt", "done"}
  /\ snapshot.saw /\ snapshot.pc = "reading" => bridge.pc = "done"
  /\ bridge.pc \notin {"done", "crashed"} /\ InFlight(machine) > 0 => machine.armed
  /\ watchdog = "gone" /\ bridge.pc \in Looping => machine.lease \/ flags.token
  /\ bridge.pc = "crashed" => ~registered /\ \A a \in Acker : ackers[a].pc = "idle"

\* The inductive invariant.
BInv ==
  /\ TypeOK /\ Phase /\ Channel /\ Watermarks /\ Verdict /\ Texts
  /\ \A a \in Acker : AckerHolds(a)
  /\ Watchers
-----------------------------------------------------------------------------
\* The types of the commands' control state.
FlagsType == [cancel : BOOLEAN, forced : BOOLEAN, token : BOOLEAN]
AckerType == [pc : AckerPc, seq : Nat, known : BOOLEAN]
AckersType == [Acker -> AckerType]

\* A step of anybody but the bridge, the process living on.
Command ==
  \/ \E a \in Acker : AckGate(a) \/ AckStep(a)
  \/ \E a \in Acker, seq \in 0 .. machine.sent + 1 : Ack(a, seq)
  \/ Watchdog \/ Cancel \/ ResetCancel \/ Owner \/ Snapshot
  \/ \E timeout \in BOOLEAN : ResetEnd(timeout)
=============================================================================
