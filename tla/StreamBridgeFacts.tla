------------------------- MODULE StreamBridgeFacts --------------------------
(***************************************************************************)
(* What every step of the bridge does, field by field, and that it keeps    *)
(* the types: the facts the invariant of StreamBridgeInv is proved from.   *)
(***************************************************************************)
EXTENDS StreamBridgeInv, TLAPS
-----------------------------------------------------------------------------
(* Facts about the operators.                                              *)

\* Only the program counter moves, or the flush after the loop begins.
Continued(b, c) ==
  /\ c \in BridgeType
  /\ c.pc \in {"select", "reserve", "recheck", "flush", "decide"}
  /\ c.pc = "decide" => b.draining
  /\ c.return = "final" => b.draining \/ b.return = "final"
  /\ c.draining = b.draining /\ c.result = b.result /\ c.kind = b.kind
  /\ c.outcome = b.outcome /\ c.tries = b.tries

\* The bridge goes on in its loop.
LEMMA Moved ==
  ASSUME NEW b \in BridgeType, NEW pc \in {"select", "reserve", "recheck", "decide"},
         pc = "decide" => b.draining
  PROVE  Continued(b, [b EXCEPT !.pc = pc])
  BY DEF Continued, BridgeType, BridgePc

\* The bridge goes to flush, and remembers where it came from.
LEMMA MovedFinal ==
  ASSUME NEW b \in BridgeType, NEW pc \in {"flush", "decide"},
         NEW return \in {"select", "reserve", "recheck", "event", "final"},
         pc = "decide" \/ return = "final" => b.draining
  PROVE  Continued(b, [b EXCEPT !.pc = pc, !.return = return])
  BY ZenonT(60) DEF Continued, BridgeType, BridgePc

\* Where Continue leads: never past the loop, and to its end only when draining.
LEMMA ContinueFacts ==
  ASSUME NEW b \in BridgeType, NEW return \in {"select", "reserve", "recheck", "event", "final"},
         return = "final" => b.draining
  PROVE  Continued(b, Continue(b, return))
<1>1. CASE return = "final"
  BY Zenon, <1>1, Moved DEF Continue
<1>2. CASE return = "event" /\ b.draining
  BY Zenon, <1>2, MovedFinal DEF Continue, FinalFlush
<1>3. CASE return = "event" /\ ~b.draining
  BY Zenon, <1>3, Moved DEF Continue
<1>4. CASE return \in {"select", "reserve", "recheck"}
  BY Zenon, <1>4, Moved DEF Continue
<1> QED
  BY <1>1, <1>2, <1>3, <1>4

\* The same of Flush.
LEMMA FlushFacts ==
  ASSUME NEW b \in BridgeType, NEW return \in {"select", "reserve", "recheck", "event", "final"},
         return = "final" => b.draining
  PROVE  Continued(b, Flush(b, return))
  BY Zenon, ContinueFacts, MovedFinal DEF Flush
-----------------------------------------------------------------------------
(* Type correctness.                                                       *)

\* The types, at the start of a stream.
LEMMA TypeInit == Init => TypeOK
<1> SUFFICES ASSUME Init PROVE TypeOK
  OBVIOUS
<1>1. machine \in MachineType
  BY DEF Init, NewMachine, MachineType, None
<1>2. bridge \in BridgeType /\ buffer \in BufferType
  BY DEF Init, NewBridge, NewBuffer, BridgeType, BridgePc, BufferType, Ordinary
<1>3. row \in RowType /\ text \in Seq(Nat) /\ wire \in Seq(Event)
  BY DEF Init, NewRow, RowType, RowStatus
<1>4. ackers \in [Acker -> [pc : AckerPc, seq : Nat, known : BOOLEAN]]
  BY DEF Init, Idle, AckerPc
<1> QED
  BY Zenon, <1>1, <1>2, <1>3, <1>4, ConstantsAssumption DEF Init, TypeOK, NewFlags

\* The updates of the machine keep its type.
LEMMA MachinePending == \A m \in MachineType, n \in Nat : [m EXCEPT !.pending = n] \in MachineType
  BY DEF MachineType

LEMMA MachineSent ==
  \A m \in MachineType, n \in Nat : [m EXCEPT !.sent = n, !.pending = 0, !.armed = TRUE] \in MachineType
  BY Zenon DEF MachineType

LEMMA MachineDurable ==
  \A m \in MachineType, n, k \in Nat : [m EXCEPT !.durable = n, !.flushRequested = k] \in MachineType
  BY Zenon DEF MachineType

LEMMA MachineCommitting == \A m \in MachineType, t \in BOOLEAN : [m EXCEPT !.committing = t] \in MachineType
  BY DEF MachineType

LEMMA MachineTerminal ==
  \A m \in MachineType, n \in Nat, o \in Outcomes :
    [m EXCEPT !.sent = n, !.pending = 0, !.terminal = o, !.committing = FALSE] \in MachineType
  BY Zenon DEF MachineType

LEMMA MachineRequested ==
  \A m \in MachineType, n \in Nat, t \in BOOLEAN :
    [m EXCEPT !.armed = t, !.flushRequested = n] \in MachineType
  BY Zenon DEF MachineType

LEMMA MachineAcked ==
  \A m \in MachineType, n \in Nat, t \in BOOLEAN : [m EXCEPT !.acked = n, !.armed = t] \in MachineType
  BY Zenon DEF MachineType

LEMMA MachinePersisted == \A m \in MachineType, n \in Nat : [m EXCEPT !.persistedAcked = n] \in MachineType
  BY DEF MachineType

LEMMA MachineLease == \A m \in MachineType, t \in BOOLEAN : [m EXCEPT !.lease = t] \in MachineType
  BY DEF MachineType

LEMMA MachineReturned == \A m \in MachineType, t \in BOOLEAN : [m EXCEPT !.snapshotReturned = t] \in MachineType
  BY DEF MachineType

\* publish_durable
LEMMA PublishTyped == \A m \in MachineType, n \in Nat : PublishDurable(m, n) \in MachineType
<1> TAKE m \in MachineType, n \in Nat
<1> DEFINE d == IF n > m.durable THEN n ELSE m.durable
           q == IF m.flushRequested <= d THEN 0 ELSE m.flushRequested
<1>1. d \in Nat /\ q \in Nat
  BY DEF MachineType
<1> HIDE DEF d, q
<1>2. [m EXCEPT !.durable = d, !.flushRequested = q] \in MachineType
  BY Zenon, <1>1, MachineDurable
<1> QED
  BY <1>2 DEF PublishDurable, d, q

LEMMA RowDelivered == \A r \in RowType, n \in Nat : DeliveredRow(r, n) \in RowType
  BY DEF DeliveredRow, RowType

\* The buffer after a write, and after one that failed.
LEMMA BufferWritten ==
  \A b \in BufferType, n \in Nat :
    /\ [b EXCEPT !.durable = n, !.text = <<>>] \in BufferType
    /\ [b EXCEPT !.through = n, !.durable = n, !.text = <<>>] \in BufferType
<1> TAKE b \in BufferType, n \in Nat
<1>1. <<>> \in Seq(Nat)
  OBVIOUS
<1> QED
  BY Zenon, <1>1 DEF BufferType

LEMMA BufferClosed == \A b \in BufferType, n \in Nat : [b EXCEPT !.through = n] \in BufferType
  BY DEF BufferType

\* A failed attempt is repeated or given up.
LEMMA RetryTyped ==
  ASSUME NEW pc \in BridgePc, bridge \in BridgeType, Retry(pc)
  PROVE  bridge' \in BridgeType
<1>1. [bridge EXCEPT !.tries = @ + 1] \in BridgeType
  BY DEF BridgeType
<1>2. [bridge EXCEPT !.tries = 0, !.pc = pc] \in BridgeType
  BY Zenon DEF BridgeType
<1> QED
  BY <1>1, <1>2 DEF Retry

LEMMA BridgeSettled ==
  \A b \in BridgeType, pc \in BridgePc, o \in Outcomes :
    [b EXCEPT !.pc = pc, !.tries = 0, !.outcome = o] \in BridgeType
  BY Zenon DEF BridgeType

\* An error leads to the flush after the loop.
LEMMA ErrorTyped ==
  ASSUME NEW b \in BridgeType
  PROVE  [b EXCEPT !.pc = "decide"] \in BridgeType /\ FinalFlush(b) \in BridgeType
  BY ZenonT(60) DEF BridgeType, BridgePc, FinalFlush

\* A step of the bridge.
LEMMA TypeBridge ==
  ASSUME TypeOK, Phase, Bridge PROVE TypeOK'
<1>0. /\ machine \in MachineType /\ bridge \in BridgeType /\ buffer \in BufferType
      /\ row \in RowType /\ text \in Seq(Nat) /\ wire \in Seq(Event) /\ faults \in Nat
  BY DEF TypeOK
<1>1. CASE SelectFlushRequest
  <2>1. bridge' \in BridgeType
    BY <1>0, <1>1, FlushFacts DEF SelectFlushRequest, Continued
  <2>2. permit' \in BOOLEAN
    BY Zenon, <1>1 DEF SelectFlushRequest
  <2>3. UNCHANGED <<machine, flags, gate, buffer, row, text, faults, wire, ackers, watchdog,
                   owner, reset, snapshot, accepted, registered>>
    BY <1>1 DEF SelectFlushRequest, shared, store, clients
  <2> QED
    BY <2>1, <2>2, <2>3 DEF TypeOK
<1>2. CASE SelectFlushTimer
  <2>1. bridge' \in BridgeType
    BY <1>0, <1>2, FlushFacts DEF SelectFlushTimer, Continued
  <2>2. UNCHANGED <<machine, flags, permit, gate, buffer, row, text, faults, wire, ackers,
                   watchdog, owner, reset, snapshot, accepted, registered>>
    BY <1>2 DEF SelectFlushTimer, shared, store, clients
  <2> QED
    BY <2>1, <2>2 DEF TypeOK
<1>3. ASSUME NEW r \in Outcomes, NEW q \in Ordinary \cup {"none"}, SelectRunEnd(r, q) PROVE TypeOK'
  <2> DEFINE b == [bridge EXCEPT !.result = r, !.draining = TRUE]
  <2>1. b \in BridgeType /\ b.draining
    BY Zenon, <1>0 DEF BridgeType
  <2>2. FinalFlush(b) \in BridgeType
    BY Zenon, <2>1, MovedFinal DEF FinalFlush, Continued
  <2>3. q # "none" => [b EXCEPT !.pc = "reserve", !.kind = q] \in BridgeType
    BY Zenon, <2>1 DEF BridgeType, BridgePc
  <2>4. bridge' \in BridgeType
    BY <1>3, <2>2, <2>3 DEF SelectRunEnd
  <2>5. UNCHANGED <<machine, flags, permit, gate, buffer, row, text, faults, wire, ackers,
                   watchdog, owner, reset, snapshot, accepted, registered>>
    BY <1>3 DEF SelectRunEnd, shared, store, clients
  <2> QED
    BY <2>4, <2>5 DEF TypeOK
<1>4. CASE RefuseEvent
  <2>1. bridge' \in BridgeType
    BY Zenon, <1>0, <1>4 DEF RefuseEvent, GoTo, BridgeType, BridgePc
  <2>2. UNCHANGED <<machine, flags, permit, gate, buffer, row, text, faults, wire, ackers,
                   watchdog, owner, reset, snapshot, accepted, registered>>
    BY <1>4 DEF RefuseEvent, shared, store, clients
  <2> QED
    BY <2>1, <2>2 DEF TypeOK
<1>5. ASSUME NEW k \in Ordinary, SelectEvent(k) PROVE TypeOK'
  <2>1. bridge' \in BridgeType
    BY Zenon, <1>0, <1>5 DEF SelectEvent, GoTo, BridgeType, BridgePc
  <2>2. UNCHANGED <<machine, flags, permit, gate, buffer, row, text, faults, wire, ackers,
                   watchdog, owner, reset, snapshot, accepted, registered>>
    BY <1>5 DEF SelectEvent, shared, store, clients
  <2> QED
    BY <2>1, <2>2 DEF TypeOK
<1>6. CASE ReserveRefused
  <2>1. bridge' \in BridgeType
    BY <1>0, <1>6 DEF ReserveRefused, GoTo, BridgeType, BridgePc
  <2>2. UNCHANGED <<machine, flags, permit, gate, buffer, row, text, faults, wire, ackers,
                   watchdog, owner, reset, snapshot, accepted, registered>>
    BY <1>6 DEF ReserveRefused, shared, store, clients
  <2> QED
    BY <2>1, <2>2 DEF TypeOK
<1>7. CASE Reserve
  <2>1. bridge' \in BridgeType
    BY <1>0, <1>7 DEF Reserve, GoTo, BridgeType, BridgePc
  <2>2. machine' \in MachineType
    <3>1. machine.sent + 1 \in Nat
      BY <1>0 DEF MachineType
    <3> QED
      BY <1>0, <1>7, <3>1, MachinePending DEF Reserve
  <2>3. UNCHANGED <<flags, permit, gate, buffer, row, text, faults, wire, ackers, watchdog,
                   owner, reset, snapshot, accepted, registered>>
    BY <1>7 DEF Reserve, shared, store, clients
  <2> QED
    BY <2>1, <2>2, <2>3 DEF TypeOK
<1>8. CASE CommitSend
  <2>1. bridge' \in BridgeType
    BY Zenon, <1>0, <1>8 DEF CommitSend, GoTo, BridgeType, BridgePc
  <2>2. machine' \in MachineType
    <3>1. machine.pending \in Nat
      BY <1>0 DEF MachineType
    <3> QED
      BY Zenon, <1>0, <1>8, <3>1, MachinePending, MachineSent DEF CommitSend
  <2>3. UNCHANGED <<flags, permit, gate, buffer, row, text, faults, wire, ackers, watchdog,
                   owner, reset, snapshot, accepted, registered>>
    BY <1>8 DEF CommitSend, shared, store, clients
  <2> QED
    BY SMTT(60), <2>1, <2>2, <2>3 DEF TypeOK
<1>9. ASSUME NEW open \in BOOLEAN, Send(open) PROVE TypeOK'
  <2>1. bridge' \in BridgeType
    BY Zenon, <1>0, <1>9 DEF Send, GoTo, BridgeType, BridgePc
  <2>2. wire' \in Seq(Event)
    <3>1. [seq |-> machine.pending, kind |-> bridge.kind] \in Event
      BY <1>0, <1>9 DEF Event, MachineType, BridgeType
    <3> QED
      BY <1>0, <1>9, <3>1 DEF Send
  <2>3. UNCHANGED <<machine, flags, permit, gate, buffer, row, text, faults, ackers, watchdog,
                   owner, reset, snapshot, accepted, registered>>
    BY <1>9 DEF Send, shared, store, clients
  <2> QED
    BY <2>1, <2>2, <2>3 DEF TypeOK
<1>10. ASSUME NEW open \in BOOLEAN, SendTerminal(open) PROVE TypeOK'
  <2>1. bridge' \in BridgeType
    BY Zenon, <1>0, <1>10 DEF SendTerminal, GoTo, BridgeType, BridgePc
  <2>2. wire' \in Seq(Event)
    <3>1. [seq |-> machine.pending, kind |-> bridge.outcome] \in Event
      BY <1>0, <1>10 DEF Event, MachineType, BridgeType, SendTerminal, Phase, Sending
    <3> QED
      BY <1>0, <1>10, <3>1 DEF SendTerminal
  <2>3. UNCHANGED <<machine, flags, permit, gate, buffer, row, text, faults, ackers, watchdog,
                   owner, reset, snapshot, accepted, registered>>
    BY <1>10 DEF SendTerminal, shared, store, clients
  <2> QED
    BY <2>1, <2>2, <2>3 DEF TypeOK
<1>11. ASSUME NEW f \in Faults, NEW u \in 0 .. MaxUsage, Deliver(f, u) PROVE TypeOK'
  <2>1. bridge' \in BridgeType
    BY ZenonT(60), <1>0, <1>11 DEF Deliver, GoTo, BridgeType, BridgePc
  <2>2. row' \in RowType
    BY Zenon, <1>0, <1>11 DEF Deliver, RecordDelivery, DeliveredRow, RowType, MachineType
  <2>3. buffer' \in BufferType
    <3>1. machine.sent \in Nat /\ u \in Nat
      BY <1>0, ConstantsAssumption DEF MachineType
    <3>2. Append(buffer.text, machine.sent) \in Seq(Nat)
      BY <1>0, <3>1 DEF BufferType
    <3> QED
      BY Zenon, <1>0, <1>11, <3>1, <3>2 DEF Deliver, BufferType
  <2>4. faults' \in Nat
    BY <1>0, <1>11 DEF Deliver, RecordDelivery, Outcome
  <2>5. UNCHANGED <<machine, flags, permit, gate, text, wire, ackers, watchdog, owner, reset,
                   snapshot, accepted, registered>>
    BY <1>11 DEF Deliver, RecordDelivery, shared, store, clients
  <2> QED
    BY <2>1, <2>2, <2>3, <2>4, <2>5 DEF TypeOK
<1>12. ASSUME NEW f \in Faults, NEW u \in 0 .. MaxUsage, TerminalDelivery(f, u) PROVE TypeOK'
  <2>1. bridge' \in BridgeType
    BY SMTT(60), <1>0, <1>12 DEF TerminalDelivery, GoTo, BridgeType, BridgePc
  <2>2. row' \in RowType
    <3>1. row' \in {row, DeliveredRow(row, TerminalSeq)}
      BY <1>12 DEF TerminalDelivery, RecordDelivery, store
    <3>2. DeliveredRow(row, TerminalSeq) \in RowType
      BY <1>0, RowDelivered DEF MachineType, TerminalSeq
    <3> QED
      BY <1>0, <3>1, <3>2
  <2>3. buffer' \in BufferType
    <3>1. machine.sent + 1 \in Nat /\ u \in Nat
      BY <1>0, ConstantsAssumption DEF MachineType
    <3> QED
      BY Zenon, <1>0, <1>12, <3>1 DEF TerminalDelivery, BufferType, TerminalSeq
  <2>4. faults' \in Nat
    BY <1>0, <1>12 DEF TerminalDelivery, RecordDelivery, Outcome, store
  <2>5. UNCHANGED <<machine, flags, permit, gate, text, wire, ackers, watchdog, owner, reset,
                   snapshot, accepted, registered>>
    BY <1>12 DEF TerminalDelivery, RecordDelivery, shared, store, clients
  <2> QED
    BY <2>1, <2>2, <2>3, <2>4, <2>5 DEF TypeOK
<1>13. ASSUME NEW big \in BOOLEAN, NEW more \in BOOLEAN, FlushCheck(big, more) PROVE TypeOK'
  <2>1. bridge' \in BridgeType
    BY <1>0, <1>13, FlushFacts, ContinueFacts DEF FlushCheck, Continued
  <2>2. UNCHANGED <<machine, flags, permit, gate, buffer, row, text, faults, wire, ackers,
                   watchdog, owner, reset, snapshot, accepted, registered>>
    BY <1>13 DEF FlushCheck, shared, store, clients
  <2> QED
    BY SMTT(60), <2>1, <2>2 DEF TypeOK
<1>14. CASE FlushPublish
  <2>1. bridge' \in BridgeType
    <3>1. bridge.return \in {"select", "reserve", "recheck", "event", "final"}
      BY <1>0 DEF BridgeType
    <3> QED
      BY <1>0, <1>14, <3>1, ContinueFacts DEF FlushPublish, Continued, Phase
  <2>2. machine' \in MachineType
    BY <1>0, <1>14, PublishTyped DEF FlushPublish, BufferType
  <2>3. UNCHANGED <<flags, permit, gate, buffer, row, text, faults, wire, ackers, watchdog,
                   owner, reset, snapshot, accepted, registered>>
    BY <1>14 DEF FlushPublish, shared, store, clients
  <2> QED
    BY SMTT(60), <2>1, <2>2, <2>3 DEF TypeOK
<1>15. CASE BridgeError
  <2>1. bridge' \in BridgeType
    <3>1. [bridge EXCEPT !.result = "failed", !.draining = TRUE, !.kind = "hidden"] \in BridgeType
      BY Zenon, <1>0 DEF BridgeType, Outcomes, Ordinary
    <3> QED
      BY Zenon, <1>0, <1>15, <3>1, ErrorTyped DEF BridgeError
  <2>2. flags' \in [cancel : BOOLEAN, forced : BOOLEAN, token : BOOLEAN]
    BY Zenon, <1>15 DEF BridgeError, TypeOK
  <2>3. UNCHANGED <<machine, permit, gate, buffer, row, text, faults, wire, ackers, watchdog,
                   owner, reset, snapshot, accepted, registered>>
    BY <1>15 DEF BridgeError, shared, store, clients
  <2> QED
    BY SMTT(60), <2>1, <2>2, <2>3 DEF TypeOK
<1>16. CASE Decide
  <2>1. bridge' \in BridgeType
    BY ZenonT(60), <1>0, <1>16 DEF Decide, GoTo, BridgeType, BridgePc, Outcomes
  <2>2. UNCHANGED <<machine, flags, permit, gate, buffer, row, text, faults, wire, ackers,
                   watchdog, owner, reset, snapshot, accepted, registered>>
    BY <1>16 DEF Decide, shared, store, clients
  <2> QED
    BY SMTT(60), <2>1, <2>2 DEF TypeOK
<1>17. ASSUME NEW f \in Faults, FlushStore(f) PROVE TypeOK'
  <2>1. bridge' \in BridgeType
    BY ZenonT(60), <1>0, <1>17 DEF FlushStore, GoTo, BridgeType, BridgePc
  <2>2. row' \in RowType
    BY Zenon, <1>0, <1>17 DEF FlushStore, CheckpointedRow, RowType, BufferType
  <2>3. text' \in Seq(Nat)
    BY <1>0, <1>17 DEF FlushStore, BufferType
  <2>4. buffer' \in BufferType
    <3>1. buffer.through \in Nat
      BY <1>0 DEF BufferType
    <3> QED
      BY Zenon, <1>0, <1>17, <3>1, BufferWritten DEF FlushStore
  <2>5. faults' \in Nat
    BY <1>0, <1>17 DEF FlushStore, Outcome
  <2>6. UNCHANGED <<machine, flags, permit, gate, wire, ackers, watchdog, owner, reset,
                   snapshot, accepted, registered>>
    BY <1>17 DEF FlushStore, shared, store, clients
  <2> QED
    BY <2>1, <2>2, <2>3, <2>4, <2>5, <2>6 DEF TypeOK
<1>18. ASSUME NEW f \in Faults, Finish(f) PROVE TypeOK'
  <2>1. bridge' \in BridgeType
    BY ZenonT(60), <1>0, <1>18, RetryTyped DEF Finish, GoTo, BridgeType, BridgePc
  <2>2. row' \in RowType
    <3>1. bridge.outcome \in Outcomes /\ machine.sent + 1 \in Nat
      BY SMTT(60), <1>0, <1>18 DEF Finish, Phase, Closing, MachineType
    <3> QED
      BY Zenon, <1>0, <1>18, <3>1 DEF Finish, FinishedRow, RowType, RowStatus, BufferType, TerminalSeq
  <2>3. text' \in Seq(Nat)
    BY <1>0, <1>18 DEF Finish, BufferType
  <2>4. buffer' \in BufferType
    <3>1. machine.sent + 1 \in Nat
      BY <1>0 DEF MachineType
    <3> QED
      BY Zenon, <1>0, <1>18, <3>1, BufferWritten, BufferClosed DEF Finish, TerminalSeq
  <2>5. faults' \in Nat
    BY <1>0, <1>18 DEF Finish, Outcome
  <2>6. UNCHANGED <<machine, flags, permit, gate, wire, ackers, watchdog, owner, reset,
                   snapshot, accepted, registered>>
    BY <1>18 DEF Finish, shared, store, clients
  <2> QED
    BY <2>1, <2>2, <2>3, <2>4, <2>5, <2>6 DEF TypeOK
<1>19. ASSUME NEW f \in Faults, FailRow(f) PROVE TypeOK'
  <2>1. bridge' \in BridgeType
    <3>1. ReconciledOutcome(row'.status) \in Outcomes
      BY DEF ReconciledOutcome, Outcomes
    <3>2. "abort" \in BridgePc /\ "publishTerminal" \in BridgePc
      BY DEF BridgePc
    <3>3. CASE Retry("abort")
      BY <1>0, <3>2, <3>3, RetryTyped
    <3>4. CASE bridge' = [bridge EXCEPT !.pc = "publishTerminal", !.tries = 0,
                                        !.outcome = ReconciledOutcome(row'.status)]
      BY Zenon, <1>0, <3>1, <3>2, <3>4, BridgeSettled
    <3> QED
      BY <1>19, <3>3, <3>4 DEF FailRow
  <2>2. row' \in RowType
    <3>1. machine.sent + 1 \in Nat
      BY <1>0 DEF MachineType
    <3> QED
      BY Zenon, <1>0, <1>19, <3>1 DEF FailRow, FinishedRow, RowType, RowStatus, Outcomes, BufferType, TerminalSeq
  <2>3. text' \in Seq(Nat)
    BY <1>0, <1>19 DEF FailRow, BufferType
  <2>4. buffer' \in BufferType
    <3>1. row'.durable \in Nat
      BY <2>2 DEF RowType
    <3>2. buffer' = [buffer EXCEPT !.durable = row'.durable, !.text = <<>>] \/ buffer' = buffer
      BY <1>19 DEF FailRow
    <3> QED
      BY Zenon, <1>0, <3>1, <3>2, BufferWritten
  <2>5. faults' \in Nat
    BY <1>0, <1>19 DEF FailRow, Outcome
  <2>6. UNCHANGED <<machine, flags, permit, gate, wire, ackers, watchdog, owner, reset,
                   snapshot, accepted, registered>>
    BY <1>19 DEF FailRow, shared, store, clients
  <2> QED
    BY <2>1, <2>2, <2>3, <2>4, <2>5, <2>6 DEF TypeOK
<1>20. CASE EnterTerminal
  <2>1. bridge' \in BridgeType
    BY Zenon, <1>0, <1>20 DEF EnterTerminal, BridgeType, BridgePc, Outcomes
  <2>2. machine' \in MachineType
    BY Zenon, <1>0, <1>20, MachineCommitting DEF EnterTerminal
  <2>3. gate' \in Acker \cup {"free", "bridge"}
    BY <1>20 DEF EnterTerminal
  <2>4. UNCHANGED <<flags, permit, buffer, row, text, faults, wire, ackers, watchdog, owner,
                   reset, snapshot, accepted, registered>>
    BY <1>20 DEF EnterTerminal, shared, store, clients
  <2> QED
    BY SMTT(60), <2>1, <2>2, <2>3, <2>4 DEF TypeOK
<1>21. CASE PublishTerminal
  <2>1. bridge' \in BridgeType
    BY Zenon, <1>0, <1>21 DEF PublishTerminal, BridgeType, BridgePc
  <2>2. machine' \in MachineType
    BY <1>0, <1>21, PublishTyped DEF PublishTerminal, BufferType
  <2>3. UNCHANGED <<flags, permit, gate, buffer, row, text, faults, wire, ackers, watchdog,
                   owner, reset, snapshot, accepted, registered>>
    BY <1>21 DEF PublishTerminal, shared, store, clients
  <2> QED
    BY SMTT(60), <2>1, <2>2, <2>3 DEF TypeOK
<1>22. CASE ReserveTerminal
  <2>1. bridge' \in BridgeType
    BY <1>0, <1>22 DEF ReserveTerminal, GoTo, BridgeType, BridgePc
  <2>2. machine' \in MachineType
    <3>1. machine.sent + 1 \in Nat
      BY <1>0 DEF MachineType
    <3> QED
      BY <1>0, <1>22, <3>1, MachinePending DEF ReserveTerminal, TerminalSeq
  <2>3. gate' \in Acker \cup {"free", "bridge"}
    BY <1>22 DEF ReserveTerminal
  <2>4. UNCHANGED <<flags, permit, buffer, row, text, faults, wire, ackers, watchdog, owner,
                   reset, snapshot, accepted, registered>>
    BY <1>22 DEF ReserveTerminal, shared, store, clients
  <2> QED
    BY SMTT(60), <2>1, <2>2, <2>3, <2>4 DEF TypeOK
<1>23. CASE PublishReceipt
  <2>1. bridge' \in BridgeType
    BY Zenon, <1>0, <1>23 DEF PublishReceipt, GoTo, BridgeType, BridgePc
  <2>2. machine' \in MachineType
    <3>1. machine.pending \in Nat /\ bridge.outcome \in Outcomes
      BY <1>0, <1>23 DEF MachineType, PublishReceipt, Phase, Sending
    <3> QED
      BY Zenon, <1>0, <1>23, <3>1, MachineTerminal DEF PublishReceipt
  <2>3. UNCHANGED <<flags, permit, gate, buffer, row, text, faults, wire, ackers, watchdog,
                   owner, reset, snapshot, accepted, registered>>
    BY <1>23 DEF PublishReceipt, shared, store, clients
  <2> QED
    BY <2>1, <2>2, <2>3 DEF TypeOK
<1>24. CASE AbortTerminal
  <2>1. bridge' \in BridgeType
    BY Zenon, <1>0, <1>24 DEF AbortTerminal, BridgeType, BridgePc
  <2>2. machine' \in MachineType
    BY Zenon, <1>0, <1>24, MachineCommitting DEF AbortTerminal
  <2>3. gate' \in Acker \cup {"free", "bridge"}
    BY <1>24 DEF AbortTerminal
  <2>4. UNCHANGED <<flags, permit, buffer, row, text, faults, wire, ackers, watchdog, owner,
                   reset, snapshot, accepted, registered>>
    BY <1>24 DEF AbortTerminal, shared, store, clients
  <2> QED
    BY <2>1, <2>2, <2>3, <2>4 DEF TypeOK
<1>25. CASE RecoverTerminal
  <2>1. bridge' \in BridgeType
    BY Zenon, <1>0, <1>25 DEF RecoverTerminal, GoTo, BridgeType, BridgePc
  <2>2. UNCHANGED <<machine, flags, permit, gate, buffer, row, text, faults, wire, ackers,
                   watchdog, owner, reset, snapshot, accepted, registered>>
    BY <1>25 DEF RecoverTerminal, shared, store, clients
  <2> QED
    BY SMTT(60), <2>1, <2>2 DEF TypeOK
<1>26. CASE Retire
  <2>1. registered' \in BOOLEAN
    BY Zenon, <1>26 DEF Retire
  <2>2. UNCHANGED <<machine, flags, permit, gate, bridge, buffer, row, text, faults, wire,
                   ackers, watchdog, owner, reset, snapshot, accepted>>
    BY <1>26 DEF Retire, shared, store, clients
  <2> QED
    BY SMTT(60), <2>1, <2>2 DEF TypeOK
<1> QED
  BY <1>1, <1>2, <1>3, <1>4, <1>5, <1>6, <1>7, <1>8, <1>9, <1>10, <1>11, <1>12, <1>13, <1>14, <1>15, <1>16, <1>17, <1>18, <1>19, <1>20, <1>21, <1>22, <1>23, <1>24, <1>25, <1>26
  DEF Bridge, RunEnds
-----------------------------------------------------------------------------
(* What a step of the bridge does.  First the steps of its loop that send, *)
(* deliver and store nothing.                                              *)

\* A step of the loop that leaves wire, row and text alone.
LoopStep ==
  /\ bridge.pc \in {"select", "reserve", "check", "recheck", "publish", "error"}
  /\ bridge'.pc \in {"select", "reserve", "recheck", "flush", "decide", "error"}
  /\ bridge'.pc = "decide" => bridge'.draining
  /\ bridge'.return = "final" => bridge'.draining
  /\ bridge'.draining => bridge'.result \in Outcomes
  /\ machine'.sent = machine.sent /\ machine'.acked = machine.acked
  /\ machine'.persistedAcked = machine.persistedAcked /\ machine'.pending = machine.pending
  /\ machine'.armed = machine.armed /\ machine'.lease = machine.lease
  /\ machine'.terminal = machine.terminal /\ machine'.committing = machine.committing
  /\ machine'.durable \in {machine.durable, buffer.durable}
  /\ flags'.cancel = flags.cancel
  /\ flags.token => flags'.token
  /\ UNCHANGED <<gate, buffer, row, text, faults, wire, ackers, watchdog, owner, reset,
                 snapshot, accepted, registered>>

\* The steps that leave machine and atomics alone.
LEMMA LoopMoves ==
  ASSUME TypeOK, Phase,
         bridge.pc \in {"select", "reserve", "check", "recheck", "error"},
         bridge'.pc \in {"select", "reserve", "recheck", "flush", "decide", "error"},
         bridge'.pc = "decide" => bridge'.draining,
         bridge'.return = "final" => bridge'.draining,
         bridge'.draining => bridge'.result \in Outcomes,
         UNCHANGED <<machine, flags, gate, buffer, row, text, faults, wire, ackers, watchdog, owner,
                     reset, snapshot, accepted, registered>>
  PROVE  LoopStep
  BY DEF LoopStep

\* The steps of the select loop are such steps.
LEMMA LoopSteps ==
  ASSUME TypeOK, Phase,
         \/ SelectFlushRequest \/ SelectFlushTimer \/ RunEnds \/ RefuseEvent
         \/ \E k \in Ordinary : SelectEvent(k)
         \/ ReserveRefused \/ (\E big, more \in BOOLEAN : FlushCheck(big, more))
         \/ FlushPublish \/ BridgeError
  PROVE  LoopStep
<1>0. machine \in MachineType /\ bridge \in BridgeType /\ buffer \in BufferType
      /\ flags \in FlagsType
  BY DEF TypeOK, FlagsType
<1>a. /\ bridge.return = "final" => bridge.draining
      /\ bridge.draining => bridge.result \in Outcomes
  BY DEF Phase
<1>b. ASSUME NEW b, Continued(bridge, b)
      PROVE  /\ b.pc \in {"select", "reserve", "recheck", "flush", "decide"}
             /\ b.pc = "decide" => b.draining
             /\ b.return = "final" => b.draining
             /\ b.draining => b.result \in Outcomes
  BY <1>a, <1>b DEF Continued
<1>1. CASE SelectFlushRequest
  <2>1. Continued(bridge, bridge')
    BY <1>0, <1>1, FlushFacts DEF SelectFlushRequest
  <2> QED
    BY <1>1, <1>b, <2>1, LoopMoves DEF SelectFlushRequest, store, clients
<1>2. CASE SelectFlushTimer
  <2>1. Continued(bridge, bridge')
    BY <1>0, <1>2, FlushFacts DEF SelectFlushTimer
  <2> QED
    BY <1>2, <1>b, <2>1, LoopMoves DEF SelectFlushTimer, shared, store, clients
<1>3. ASSUME NEW r \in Outcomes, NEW q \in Ordinary \cup {"none"}, SelectRunEnd(r, q) PROVE LoopStep
  <2> DEFINE b == [bridge EXCEPT !.result = r, !.draining = TRUE]
  <2>1. /\ bridge'.pc \in {"flush", "decide", "reserve"} /\ bridge'.draining /\ bridge'.result = r
    BY <1>0, <1>3 DEF SelectRunEnd, FinalFlush, BridgeType
  <2> QED
    BY <1>3, <2>1, LoopMoves DEF SelectRunEnd, shared, store, clients
<1>4. CASE RefuseEvent
  BY <1>0, <1>4, <1>a, LoopMoves DEF RefuseEvent, GoTo, BridgeType, shared, store, clients
<1>5. ASSUME NEW k \in Ordinary, SelectEvent(k) PROVE LoopStep
  BY Zenon, <1>0, <1>5, <1>a, LoopMoves DEF SelectEvent, BridgeType, shared, store, clients
<1>6. CASE ReserveRefused
  BY <1>0, <1>6, <1>a, LoopMoves DEF ReserveRefused, GoTo, BridgeType, shared, store, clients
<1>7. ASSUME NEW big \in BOOLEAN, NEW more \in BOOLEAN, FlushCheck(big, more) PROVE LoopStep
  <2>1. Continued(bridge, bridge')
    BY <1>0, <1>7, FlushFacts, ContinueFacts DEF FlushCheck
  <2> QED
    BY <1>7, <1>b, <2>1, LoopMoves DEF FlushCheck, shared, store, clients
<1>8. CASE FlushPublish
  <2>0. bridge.return \in {"select", "reserve", "recheck", "event", "final"}
    BY <1>0 DEF BridgeType
  <2>1. Continued(bridge, bridge')
    BY <1>0, <1>8, <1>a, <2>0, ContinueFacts DEF FlushPublish
  <2>2. /\ machine'.sent = machine.sent /\ machine'.acked = machine.acked
        /\ machine'.persistedAcked = machine.persistedAcked /\ machine'.pending = machine.pending
        /\ machine'.armed = machine.armed /\ machine'.lease = machine.lease
        /\ machine'.terminal = machine.terminal /\ machine'.committing = machine.committing
        /\ machine'.durable \in {machine.durable, buffer.durable}
    BY <1>0, <1>8 DEF FlushPublish, PublishDurable, MachineType
  <2> QED
    BY <1>8, <1>b, <2>1, <2>2 DEF LoopStep, FlushPublish, store, clients
<1>9. CASE BridgeError
  <2>1. /\ bridge'.pc \in {"flush", "decide"} /\ bridge'.draining /\ bridge'.result = "failed"
    BY <1>0, <1>9 DEF BridgeError, FinalFlush, BridgeType
  <2>2. flags'.cancel = flags.cancel /\ (flags.token => flags'.token)
    BY <1>0, <1>9 DEF BridgeError, FlagsType
  <2> QED
    BY <1>9, <2>1, <2>2 DEF LoopStep, BridgeError, Outcomes, store, clients
<1> QED
  BY <1>1, <1>2, <1>3, <1>4, <1>5, <1>6, <1>7, <1>8, <1>9 DEF RunEnds

\* What each of the other steps does, field by field.
BridgeMoves(from, to) ==
  /\ bridge.pc = from /\ bridge'.pc = to
  /\ bridge'.return = bridge.return /\ bridge'.draining = bridge.draining
  /\ bridge'.kind = bridge.kind /\ bridge'.result = bridge.result
  /\ bridge'.outcome = bridge.outcome

\* A storage call uses up a fault when it does not go well.
LEMMA OutcomeFaults ==
  ASSUME NEW call, NEW f, faults \in Nat, Outcome(call, f)
  PROVE  faults' \in Nat /\ faults' <= faults /\ (f # "ok" => faults' < faults)
  BY DEF Outcome

\* What the decision on the outcome changes.
LEMMA DecideFacts ==
  ASSUME TypeOK, Decide
  PROVE  /\ bridge.pc = "decide" /\ bridge'.pc = "gate"
         /\ bridge'.return = bridge.return /\ bridge'.draining = bridge.draining
         /\ bridge'.result \in {bridge.result, "failed", "cancelled"}
         /\ UNCHANGED <<machine, flags, permit, gate, buffer, row, text, faults, wire,
                         ackers, watchdog, owner, reset, snapshot, accepted, registered>>
<1>1. machine \in MachineType /\ bridge \in BridgeType
  BY DEF TypeOK
<1>2. bridge.pc = "decide" /\ bridge'.pc = "gate"
         /\ bridge'.return = bridge.return /\ bridge'.draining = bridge.draining
         /\ bridge'.result \in {bridge.result, "failed", "cancelled"}
  BY <1>1 DEF Decide, BridgeMoves, GoTo, BridgeType
<1> QED
  BY <1>2 DEF Decide, shared, store, clients

\* What a reservation changes: the sequence is pending, not yet sent.
LEMMA ReserveFacts ==
  ASSUME TypeOK, Reserve
  PROVE  /\ BridgeMoves("reserve", "send") /\ machine'.sent = machine.sent
         /\ machine'.acked = machine.acked /\ machine'.durable = machine.durable
         /\ machine'.persistedAcked = machine.persistedAcked /\ machine'.armed = machine.armed
         /\ machine'.pending = machine.sent + 1 /\ machine'.lease = machine.lease
         /\ machine'.terminal = machine.terminal /\ machine'.committing = machine.committing
         /\ machine.sent + 1 <= MaxWire - 1 /\ InFlight(machine) < MaxInFlight
         /\ UNCHANGED <<flags, permit, gate, buffer, row, text, faults, wire, ackers,
                         watchdog, owner, reset, snapshot, accepted, registered>>
<1>1. machine \in MachineType /\ bridge \in BridgeType
  BY DEF TypeOK
<1>2. BridgeMoves("reserve", "send")
  BY <1>1 DEF Reserve, BridgeMoves, GoTo, BridgeType
<1>3. /\ machine'.sent = machine.sent /\ machine'.acked = machine.acked
      /\ machine'.durable = machine.durable /\ machine'.persistedAcked = machine.persistedAcked
      /\ machine'.armed = machine.armed /\ machine'.pending = machine.sent + 1
      /\ machine'.lease = machine.lease /\ machine'.terminal = machine.terminal
      /\ machine'.committing = machine.committing
  BY <1>1 DEF Reserve, MachineType
<1> QED
  BY <1>2, <1>3 DEF Reserve, store, clients

\* What the commit of a send changes.
LEMMA CommittedFacts ==
  ASSUME TypeOK, CommitSend, bridge.pc = "committed"
  PROVE  /\ BridgeMoves("committed", "deliver") /\ machine'.sent = machine.pending
         /\ machine'.acked = machine.acked /\ machine'.durable = machine.durable
         /\ machine'.persistedAcked = machine.persistedAcked /\ machine'.armed
         /\ machine'.pending = 0 /\ machine'.lease = machine.lease
         /\ machine'.terminal = machine.terminal /\ machine'.committing = machine.committing
         /\ UNCHANGED <<flags, permit, gate, buffer, row, text, faults, wire, ackers,
                         watchdog, owner, reset, snapshot, accepted, registered>>
<1>1. machine \in MachineType /\ bridge \in BridgeType
  BY DEF TypeOK
<1>2. BridgeMoves("committed", "deliver")
  BY <1>1 DEF CommitSend, BridgeMoves, GoTo, BridgeType
<1>3. /\ machine'.sent = machine.pending /\ machine'.acked = machine.acked
      /\ machine'.durable = machine.durable /\ machine'.persistedAcked = machine.persistedAcked
      /\ machine'.armed /\ machine'.pending = 0 /\ machine'.lease = machine.lease
      /\ machine'.terminal = machine.terminal /\ machine'.committing = machine.committing
  BY <1>1 DEF CommitSend, MachineType
<1> QED
  BY <1>2, <1>3 DEF CommitSend, store, clients

\* What the withdrawal of a reservation changes.
LEMMA RejectedFacts ==
  ASSUME TypeOK, CommitSend, bridge.pc # "committed"
  PROVE  /\ BridgeMoves("rejected", "error") /\ machine'.sent = machine.sent
         /\ machine'.acked = machine.acked /\ machine'.durable = machine.durable
         /\ machine'.persistedAcked = machine.persistedAcked /\ machine'.armed = machine.armed
         /\ machine'.pending = 0 /\ machine'.lease = machine.lease
         /\ machine'.terminal = machine.terminal /\ machine'.committing = machine.committing
         /\ UNCHANGED <<flags, permit, gate, buffer, row, text, faults, wire, ackers,
                         watchdog, owner, reset, snapshot, accepted, registered>>
<1>1. machine \in MachineType /\ bridge \in BridgeType
  BY DEF TypeOK
<1>2. BridgeMoves("rejected", "error")
  BY <1>1 DEF CommitSend, BridgeMoves, GoTo, BridgeType
<1>3. /\ machine'.sent = machine.sent /\ machine'.acked = machine.acked
      /\ machine'.durable = machine.durable /\ machine'.persistedAcked = machine.persistedAcked
      /\ machine'.armed = machine.armed /\ machine'.pending = 0
      /\ machine'.lease = machine.lease /\ machine'.terminal = machine.terminal
      /\ machine'.committing = machine.committing
  BY <1>1 DEF CommitSend, MachineType
<1> QED
  BY <1>2, <1>3 DEF CommitSend, store, clients

\* What a send that went through changes: the wire alone.
LEMMA SentFacts ==
  ASSUME TypeOK, Send(TRUE)
  PROVE  /\ BridgeMoves("send", "committed")
         /\ wire' = Append(wire, [seq |-> machine.pending, kind |-> bridge.kind])
         /\ UNCHANGED <<machine, flags, permit, gate, buffer, row, text, faults, ackers,
                         watchdog, owner, reset, snapshot, accepted, registered>>
<1>1. machine \in MachineType /\ bridge \in BridgeType
  BY DEF TypeOK
<1>2. BridgeMoves("send", "committed")
  BY <1>1 DEF Send, BridgeMoves, GoTo, BridgeType
<1> QED
  BY <1>2 DEF Send, shared, store, clients

\* What a failed send changes.
LEMMA UnsentFacts ==
  ASSUME TypeOK, Send(FALSE)
  PROVE  /\ BridgeMoves("send", "rejected")
         /\ UNCHANGED <<machine, flags, permit, gate, buffer, row, text, faults, wire,
                         ackers, watchdog, owner, reset, snapshot, accepted, registered>>
<1>1. machine \in MachineType /\ bridge \in BridgeType
  BY DEF TypeOK
<1>2. BridgeMoves("send", "rejected")
  BY <1>1 DEF Send, BridgeMoves, GoTo, BridgeType
<1> QED
  BY <1>2 DEF Send, shared, store, clients

\* What entering the terminal sequence changes; an accepted cancel decides the outcome.
LEMMA EnterFacts ==
  ASSUME TypeOK, EnterTerminal
  PROVE  /\ bridge.pc = "gate" /\ bridge'.pc = "terminalDelivery"
         /\ bridge'.return = bridge.return /\ bridge'.draining = bridge.draining
         /\ bridge'.result = bridge.result
         /\ bridge'.outcome = IF flags.cancel THEN "cancelled" ELSE bridge.result
         /\ machine'.sent = machine.sent /\ machine'.acked = machine.acked
         /\ machine'.durable = machine.durable
         /\ machine'.persistedAcked = machine.persistedAcked /\ machine'.armed = machine.armed
         /\ machine'.pending = machine.pending /\ machine'.lease = machine.lease
         /\ machine'.terminal = machine.terminal /\ machine'.committing /\ gate = "free"
         /\ gate' = "bridge"
         /\ UNCHANGED <<flags, permit, buffer, row, text, faults, wire, ackers, watchdog,
                         owner, reset, snapshot, accepted, registered>>
<1>1. machine \in MachineType /\ bridge \in BridgeType
  BY DEF TypeOK
<1>2. bridge.pc = "gate" /\ bridge'.pc = "terminalDelivery"
         /\ bridge'.return = bridge.return /\ bridge'.draining = bridge.draining
         /\ bridge'.result = bridge.result
         /\ bridge'.outcome = IF flags.cancel THEN "cancelled" ELSE bridge.result
  BY <1>1 DEF EnterTerminal, BridgeMoves, GoTo, BridgeType
<1>3. /\ machine'.sent = machine.sent /\ machine'.acked = machine.acked
      /\ machine'.durable = machine.durable /\ machine'.persistedAcked = machine.persistedAcked
      /\ machine'.armed = machine.armed /\ machine'.pending = machine.pending
      /\ machine'.lease = machine.lease /\ machine'.terminal = machine.terminal
      /\ machine'.committing
  BY <1>1 DEF EnterTerminal, MachineType
<1> QED
  BY <1>2, <1>3 DEF EnterTerminal, store, clients

\* What publishing the terminal to the machine changes.
LEMMA PublishFacts ==
  ASSUME TypeOK, PublishTerminal
  PROVE  /\ BridgeMoves("publishTerminal", "reserveTerminal") /\ machine'.sent = machine.sent
         /\ machine'.acked = machine.acked
         /\ machine'.durable \in {machine.durable, buffer.durable}
         /\ machine'.persistedAcked = machine.persistedAcked /\ machine'.armed = machine.armed
         /\ machine'.pending = machine.pending /\ machine'.lease = machine.lease
         /\ machine'.terminal = machine.terminal /\ machine'.committing = machine.committing
         /\ UNCHANGED <<flags, permit, gate, buffer, row, text, faults, wire, ackers,
                         watchdog, owner, reset, snapshot, accepted, registered>>
<1>1. machine \in MachineType /\ bridge \in BridgeType
  BY DEF TypeOK
<1>2. BridgeMoves("publishTerminal", "reserveTerminal")
  BY <1>1 DEF PublishTerminal, BridgeMoves, GoTo, BridgeType
<1>3. /\ machine'.sent = machine.sent /\ machine'.acked = machine.acked
      /\ machine'.durable \in {machine.durable, buffer.durable}
      /\ machine'.persistedAcked = machine.persistedAcked /\ machine'.armed = machine.armed
      /\ machine'.pending = machine.pending /\ machine'.lease = machine.lease
      /\ machine'.terminal = machine.terminal /\ machine'.committing = machine.committing
  BY <1>1 DEF PublishTerminal, PublishDurable, MachineType
<1> QED
  BY <1>2, <1>3 DEF PublishTerminal, store, clients

\* What the reservation of the terminal event changes.
LEMMA ReserveTerminalFacts ==
  ASSUME TypeOK, ReserveTerminal
  PROVE  /\ BridgeMoves("reserveTerminal", "sendTerminal") /\ machine'.sent = machine.sent
         /\ machine'.acked = machine.acked /\ machine'.durable = machine.durable
         /\ machine'.persistedAcked = machine.persistedAcked /\ machine'.armed = machine.armed
         /\ machine'.pending = machine.sent + 1 /\ machine'.lease = machine.lease
         /\ machine'.terminal = machine.terminal /\ machine'.committing = machine.committing
         /\ gate' = "free"
         /\ UNCHANGED <<flags, permit, buffer, row, text, faults, wire, ackers, watchdog,
                         owner, reset, snapshot, accepted, registered>>
<1>1. machine \in MachineType /\ bridge \in BridgeType
  BY DEF TypeOK
<1>2. BridgeMoves("reserveTerminal", "sendTerminal")
  BY <1>1 DEF ReserveTerminal, BridgeMoves, GoTo, BridgeType
<1>3. /\ machine'.sent = machine.sent /\ machine'.acked = machine.acked
      /\ machine'.durable = machine.durable /\ machine'.persistedAcked = machine.persistedAcked
      /\ machine'.armed = machine.armed /\ machine'.pending = machine.sent + 1
      /\ machine'.lease = machine.lease /\ machine'.terminal = machine.terminal
      /\ machine'.committing = machine.committing
  BY <1>1 DEF ReserveTerminal, TerminalSeq, MachineType
<1> QED
  BY <1>2, <1>3 DEF ReserveTerminal, store, clients

\* What sending the terminal event changes.
LEMMA SentTerminalFacts ==
  ASSUME TypeOK, SendTerminal(TRUE)
  PROVE  /\ BridgeMoves("sendTerminal", "receipt")
         /\ wire' = Append(wire, [seq |-> machine.pending, kind |-> bridge.outcome])
         /\ UNCHANGED <<machine, flags, permit, gate, buffer, row, text, faults, ackers,
                         watchdog, owner, reset, snapshot, accepted, registered>>
<1>1. machine \in MachineType /\ bridge \in BridgeType
  BY DEF TypeOK
<1>2. BridgeMoves("sendTerminal", "receipt")
  BY <1>1 DEF SendTerminal, BridgeMoves, GoTo, BridgeType
<1> QED
  BY <1>2 DEF SendTerminal, shared, store, clients

\* What a terminal event that could not be sent changes.
LEMMA UnsentTerminalFacts ==
  ASSUME TypeOK, SendTerminal(FALSE)
  PROVE  /\ BridgeMoves("sendTerminal", "receipt")
         /\ UNCHANGED <<machine, flags, permit, gate, buffer, row, text, faults, wire,
                         ackers, watchdog, owner, reset, snapshot, accepted, registered>>
<1>1. machine \in MachineType /\ bridge \in BridgeType
  BY DEF TypeOK
<1>2. BridgeMoves("sendTerminal", "receipt")
  BY <1>1 DEF SendTerminal, BridgeMoves, GoTo, BridgeType
<1> QED
  BY <1>2 DEF SendTerminal, shared, store, clients

\* What publishing the receipt changes.
LEMMA ReceiptFacts ==
  ASSUME TypeOK, PublishReceipt
  PROVE  /\ BridgeMoves("receipt", "done") /\ machine'.sent = machine.pending
         /\ machine'.acked = machine.acked /\ machine'.durable = machine.durable
         /\ machine'.persistedAcked = machine.persistedAcked /\ machine'.armed = machine.armed
         /\ machine'.pending = 0 /\ machine'.lease = machine.lease
         /\ machine'.terminal = bridge.outcome /\ ~machine'.committing
         /\ UNCHANGED <<flags, permit, gate, buffer, row, text, faults, wire, ackers,
                         watchdog, owner, reset, snapshot, accepted, registered>>
<1>1. machine \in MachineType /\ bridge \in BridgeType
  BY DEF TypeOK
<1>2. BridgeMoves("receipt", "done")
  BY <1>1 DEF PublishReceipt, BridgeMoves, GoTo, BridgeType
<1>3. /\ machine'.sent = machine.pending /\ machine'.acked = machine.acked
      /\ machine'.durable = machine.durable /\ machine'.persistedAcked = machine.persistedAcked
      /\ machine'.armed = machine.armed /\ machine'.pending = 0
      /\ machine'.lease = machine.lease /\ machine'.terminal = bridge.outcome
      /\ ~machine'.committing
  BY <1>1 DEF PublishReceipt, MachineType
<1> QED
  BY <1>2, <1>3 DEF PublishReceipt, store, clients

\* What giving up a terminal commit changes.
LEMMA AbortFacts ==
  ASSUME TypeOK, AbortTerminal
  PROVE  /\ bridge.pc = "abort" /\ bridge'.pc = "recover" /\ bridge'.return = bridge.return
         /\ bridge'.draining = bridge.draining /\ bridge'.result = bridge.result
         /\ machine'.sent = machine.sent /\ machine'.acked = machine.acked
         /\ machine'.durable = machine.durable
         /\ machine'.persistedAcked = machine.persistedAcked /\ machine'.armed = machine.armed
         /\ machine'.pending = machine.pending /\ machine'.lease = machine.lease
         /\ machine'.terminal = machine.terminal /\ ~machine'.committing /\ gate' = "free"
         /\ UNCHANGED <<flags, permit, buffer, row, text, faults, wire, ackers, watchdog,
                         owner, reset, snapshot, accepted, registered>>
<1>1. machine \in MachineType /\ bridge \in BridgeType
  BY DEF TypeOK
<1>2. bridge.pc = "abort" /\ bridge'.pc = "recover" /\ bridge'.return = bridge.return
         /\ bridge'.draining = bridge.draining /\ bridge'.result = bridge.result
  BY <1>1 DEF AbortTerminal, BridgeMoves, GoTo, BridgeType
<1>3. /\ machine'.sent = machine.sent /\ machine'.acked = machine.acked
      /\ machine'.durable = machine.durable /\ machine'.persistedAcked = machine.persistedAcked
      /\ machine'.armed = machine.armed /\ machine'.pending = machine.pending
      /\ machine'.lease = machine.lease /\ machine'.terminal = machine.terminal
      /\ ~machine'.committing
  BY <1>1 DEF AbortTerminal, MachineType
<1> QED
  BY <1>2, <1>3 DEF AbortTerminal, store, clients

\* What a new attempt at the terminal changes.
LEMMA RecoverFacts ==
  ASSUME TypeOK, RecoverTerminal
  PROVE  /\ BridgeMoves("recover", "gate")
         /\ UNCHANGED <<machine, flags, permit, gate, buffer, row, text, faults, wire,
                         ackers, watchdog, owner, reset, snapshot, accepted, registered>>
<1>1. machine \in MachineType /\ bridge \in BridgeType
  BY DEF TypeOK
<1>2. BridgeMoves("recover", "gate")
  BY <1>1 DEF RecoverTerminal, BridgeMoves, GoTo, BridgeType
<1> QED
  BY <1>2 DEF RecoverTerminal, shared, store, clients

\* record_delivery: taken and answered, taken, or refused.
LEMMA DeliverFacts ==
  ASSUME TypeOK, NEW f \in Faults, NEW u \in 0 .. MaxUsage, Deliver(f, u)
  PROVE  /\ \/ /\ bridge.pc = "deliver" /\ bridge'.pc \in {"check", "recheck"}
               /\ bridge'.return = bridge.return /\ bridge'.draining = bridge.draining
               /\ bridge'.result = bridge.result
               /\ row.delivered + 1 = machine.sent /\ row'.delivered = machine.sent
               /\ buffer.delivered + 1 = machine.sent /\ row.durable = buffer.durable
               /\ buffer'.delivered = machine.sent /\ buffer'.through = machine.sent
               /\ buffer'.durable = buffer.durable
               /\ buffer'.text = IF bridge.kind = "text" THEN Append(buffer.text, machine.sent)
                                 ELSE buffer.text
            \/ /\ BridgeMoves("deliver", "error") /\ buffer' = buffer
               /\ \/ row'.delivered = row.delivered
                  \/ /\ row.delivered + 1 = machine.sent /\ row'.delivered = machine.sent
                     /\ buffer.delivered + 1 = machine.sent
         /\ row'.status = row.status /\ row'.durable = row.durable /\ row'.acked = row.acked
         /\ faults' <= faults
         /\ UNCHANGED <<machine, flags, permit, gate, text, wire, ackers, watchdog, owner, reset,
                        snapshot, accepted, registered>>
<1>1. /\ machine \in MachineType /\ bridge \in BridgeType /\ buffer \in BufferType
      /\ row \in RowType /\ faults \in Nat
  BY DEF TypeOK
<1>2. faults' <= faults
  BY <1>1, OutcomeFaults DEF Deliver, RecordDelivery
<1>3. row' = IF DeliveryStored(machine.sent, f) THEN DeliveredRow(row, machine.sent) ELSE row
  BY DEF Deliver, RecordDelivery
<1>4. row'.status = row.status /\ row'.durable = row.durable /\ row'.acked = row.acked
  BY <1>1, <1>3 DEF DeliveredRow, RowType
<1>5. UNCHANGED <<machine, flags, permit, gate, text, wire, ackers, watchdog, owner, reset,
                  snapshot, accepted, registered>>
  BY DEF Deliver, RecordDelivery, shared, clients
<1>6. DeliveryStored(machine.sent, f) =>
        /\ buffer.delivered + 1 = machine.sent /\ row.delivered + 1 = machine.sent
        /\ row'.delivered = machine.sent
  BY <1>1, <1>3 DEF DeliveryStored, CanDeliver, DeliveredRow, RowType, BufferType, MachineType
<1>7. ~DeliveryStored(machine.sent, f) => row'.delivered = row.delivered
  BY <1>3
<1>8. CASE DeliveryAnswered(machine.sent, f)
  <2>1. DeliveryStored(machine.sent, f) /\ row.durable = buffer.durable
    BY <1>8 DEF DeliveryAnswered
  <2>2. /\ bridge.pc = "deliver" /\ bridge'.pc \in {"check", "recheck"}
        /\ bridge'.return = bridge.return /\ bridge'.draining = bridge.draining
        /\ bridge'.result = bridge.result
    BY <1>1, <1>8 DEF Deliver, GoTo, BridgeType
  <2>3. /\ buffer'.delivered = machine.sent /\ buffer'.through = machine.sent
        /\ buffer'.durable = buffer.durable
        /\ buffer'.text = IF bridge.kind = "text" THEN Append(buffer.text, machine.sent)
                          ELSE buffer.text
    BY Zenon, <1>1, <1>8 DEF Deliver, BufferType
  <2> QED
    BY <1>2, <1>4, <1>5, <1>6, <2>1, <2>2, <2>3
<1>9. CASE ~DeliveryAnswered(machine.sent, f)
  <2>1. BridgeMoves("deliver", "error") /\ buffer' = buffer
    BY <1>1, <1>9 DEF Deliver, GoTo, BridgeMoves, BridgeType
  <2> QED
    BY <1>2, <1>4, <1>5, <1>6, <1>7, <2>1
<1> QED
  BY <1>8, <1>9

\* checkpoint_response: written and answered, written, or refused.
LEMMA FlushStoreFacts ==
  ASSUME TypeOK, NEW f \in Faults, FlushStore(f)
  PROVE  /\ \/ /\ BridgeMoves("flush", "publish")
               /\ row.durable = buffer.durable /\ buffer.through > buffer.durable
               /\ buffer.through <= row.delivered /\ row'.durable = buffer.through
               /\ text' = text \o buffer.text
               /\ buffer'.delivered = buffer.delivered /\ buffer'.through = buffer.through
               /\ buffer'.durable = buffer.through /\ buffer'.text = <<>>
            \/ /\ BridgeMoves("flush", "error") /\ buffer' = buffer
               /\ row.durable = buffer.durable /\ buffer.through > buffer.durable
               /\ buffer.through <= row.delivered /\ row'.durable = buffer.through
               /\ text' = text \o buffer.text
            \/ /\ BridgeMoves("flush", "error") /\ buffer' = buffer
               /\ row'.durable = row.durable /\ text' = text
         /\ row'.status = row.status /\ row'.delivered = row.delivered /\ row'.acked = row.acked
         /\ faults' <= faults
         /\ UNCHANGED <<machine, flags, permit, gate, wire, ackers, watchdog, owner, reset,
                        snapshot, accepted, registered>>
<1>1. /\ machine \in MachineType /\ bridge \in BridgeType /\ buffer \in BufferType
      /\ row \in RowType /\ faults \in Nat
  BY DEF TypeOK
<1> DEFINE stored == f # "error" /\ CanCheckpoint(row, buffer.durable, buffer.through, buffer.usage)
<1>2. faults' <= faults
  BY <1>1, OutcomeFaults DEF FlushStore
<1>3. /\ row' = IF stored THEN CheckpointedRow(row, buffer.through, buffer.usage) ELSE row
      /\ text' = IF stored THEN text \o buffer.text ELSE text
  BY DEF FlushStore
<1>4. row'.status = row.status /\ row'.delivered = row.delivered /\ row'.acked = row.acked
  BY <1>1, <1>3 DEF CheckpointedRow, RowType
<1>5. UNCHANGED <<machine, flags, permit, gate, wire, ackers, watchdog, owner, reset,
                  snapshot, accepted, registered>>
  BY DEF FlushStore, shared, clients
<1>6. stored =>
        /\ row.durable = buffer.durable /\ buffer.through > buffer.durable
        /\ buffer.through <= row.delivered /\ row'.durable = buffer.through
        /\ text' = text \o buffer.text
  BY Zenon, <1>1, <1>3 DEF CanCheckpoint, CheckpointedRow, RowType, BufferType
<1>7. ~stored => row'.durable = row.durable /\ text' = text
  BY <1>3
<1>8. \/ /\ stored /\ BridgeMoves("flush", "publish")
         /\ buffer'.delivered = buffer.delivered /\ buffer'.through = buffer.through
         /\ buffer'.durable = buffer.through /\ buffer'.text = <<>>
      \/ BridgeMoves("flush", "error") /\ buffer' = buffer
  BY Zenon, <1>1 DEF FlushStore, GoTo, BridgeMoves, BridgeType, BufferType
<1> QED
  BY <1>2, <1>4, <1>5, <1>6, <1>7, <1>8

\* The terminal sequence is reserved: taken and answered, already reserved, or given up.
LEMMA TerminalDeliveryFacts ==
  ASSUME TypeOK, NEW f \in Faults, NEW u \in 0 .. MaxUsage, TerminalDelivery(f, u)
  PROVE  /\ \/ /\ BridgeMoves("terminalDelivery", "finish")
               /\ row.delivered = machine.sent /\ row'.delivered = machine.sent + 1
               /\ buffer.delivered = machine.sent /\ buffer'.delivered = machine.sent + 1
               /\ buffer'.durable = buffer.durable /\ buffer'.through = buffer.through
               /\ buffer'.text = buffer.text
            \/ /\ BridgeMoves("terminalDelivery", "finish")
               /\ buffer.delivered >= machine.sent + 1 /\ UNCHANGED <<buffer, row>>
            \/ /\ BridgeMoves("terminalDelivery", "abort") /\ UNCHANGED buffer
               /\ \/ UNCHANGED row
                  \/ /\ row.delivered = machine.sent /\ row'.delivered = machine.sent + 1
                     /\ buffer.delivered = machine.sent
         /\ row'.status = row.status /\ row'.durable = row.durable /\ row'.acked = row.acked
         /\ faults' <= faults
         /\ row'.delivered = row.delivered \/ row.status = "running"
         /\ UNCHANGED <<machine, flags, permit, gate, text, wire, ackers, watchdog, owner, reset,
                        snapshot, accepted, registered>>
<1>1. /\ machine \in MachineType /\ bridge \in BridgeType /\ buffer \in BufferType
      /\ row \in RowType /\ faults \in Nat
  BY DEF TypeOK
<1>2. UNCHANGED <<machine, flags, permit, gate, text, wire, ackers, watchdog, owner, reset,
                  snapshot, accepted, registered>>
  BY DEF TerminalDelivery, RecordDelivery, shared, store, clients
<1>3. CASE buffer.delivered < TerminalSeq
  <2>1. RecordDelivery("terminalDelivery", TerminalSeq, f)
    BY <1>3 DEF TerminalDelivery
  <2>2. faults' <= faults
    BY <1>1, <2>1, OutcomeFaults DEF RecordDelivery
  <2>3. row' = IF DeliveryStored(TerminalSeq, f) THEN DeliveredRow(row, TerminalSeq) ELSE row
    BY <2>1 DEF RecordDelivery
  <2>4. row'.status = row.status /\ row'.durable = row.durable /\ row'.acked = row.acked
    BY <1>1, <2>3 DEF DeliveredRow, RowType
  <2>5. DeliveryStored(TerminalSeq, f) =>
          /\ buffer.delivered = machine.sent /\ row.delivered = machine.sent
          /\ row'.delivered = machine.sent + 1 /\ row.status = "running"
    BY SMTT(60), <1>1, <2>3 DEF DeliveryStored, CanDeliver, DeliveredRow, RowType, BufferType, MachineType,
       TerminalSeq
  <2>6. ~DeliveryStored(TerminalSeq, f) => row' = row
    BY <2>3
  <2>7. CASE DeliveryAnswered(TerminalSeq, f)
    <3>1. DeliveryStored(TerminalSeq, f)
      BY <2>7 DEF DeliveryAnswered
    <3>2. BridgeMoves("terminalDelivery", "finish")
      BY <1>1, <1>3, <2>7 DEF TerminalDelivery, GoTo, BridgeMoves, BridgeType
    <3>3. /\ buffer'.delivered = machine.sent + 1 /\ buffer'.durable = buffer.durable
          /\ buffer'.through = buffer.through /\ buffer'.text = buffer.text
      BY Zenon, <1>1, <1>3, <2>7 DEF TerminalDelivery, BufferType, TerminalSeq
    <3> QED
      BY <1>2, <2>2, <2>4, <2>5, <3>1, <3>2, <3>3
  <2>8. CASE ~DeliveryAnswered(TerminalSeq, f)
    <3>1. BridgeMoves("terminalDelivery", "abort") /\ buffer' = buffer
      BY <1>1, <1>3, <2>8 DEF TerminalDelivery, GoTo, BridgeMoves, BridgeType
    <3> QED
      BY <1>2, <2>2, <2>4, <2>5, <2>6, <3>1
  <2> QED
    BY <2>7, <2>8
<1>4. CASE ~(buffer.delivered < TerminalSeq)
  <2>1. BridgeMoves("terminalDelivery", "finish")
    BY <1>1, <1>4 DEF TerminalDelivery, GoTo, BridgeMoves, BridgeType
  <2>2. UNCHANGED <<buffer, row, faults>>
    BY <1>4 DEF TerminalDelivery, store
  <2>3. buffer.delivered >= machine.sent + 1
    BY <1>1, <1>4 DEF TerminalSeq, BufferType, MachineType
  <2> QED
    BY SMTT(60), <1>1, <1>2, <2>1, <2>2, <2>3
<1> QED
  BY <1>3, <1>4

\* What a terminal transaction writes.
Closed(outcome) ==
  /\ row.status = "running" /\ row.durable = buffer.durable
  /\ machine.sent + 1 > buffer.durable /\ machine.sent + 1 <= row.delivered
  /\ row'.status = outcome /\ row'.durable = machine.sent + 1
  /\ row'.delivered = row.delivered /\ row'.acked = row.acked
  /\ text' = text \o buffer.text

\* A row that is finished has its outcome, and all buffered text.
LEMMA ClosedFacts ==
  ASSUME TypeOK, NEW outcome,
         CanCheckpoint(row, buffer.durable, TerminalSeq, buffer.usage),
         row' = FinishedRow(row, TerminalSeq, buffer.usage, outcome), text' = text \o buffer.text
  PROVE  Closed(outcome)
<1>1. machine \in MachineType /\ buffer \in BufferType /\ row \in RowType
  BY DEF TypeOK
<1> QED
  BY <1>1 DEF Closed, CanCheckpoint, FinishedRow, TerminalSeq, MachineType, BufferType, RowType

\* The same step again, or the next one.
LEMMA RetryFacts ==
  ASSUME bridge \in BridgeType, NEW pc \in BridgePc, Retry(pc)
  PROVE  BridgeMoves(bridge.pc, bridge.pc) \/ BridgeMoves(bridge.pc, pc)
  BY DEF Retry, BridgeMoves, BridgeType

\* finish: written and answered, written, or refused.
LEMMA FinishFacts ==
  ASSUME TypeOK, NEW f \in Faults, Finish(f)
  PROVE  /\ \/ /\ BridgeMoves("finish", "publishTerminal") /\ Closed(bridge.outcome)
               /\ buffer'.durable = machine.sent + 1
            \/ /\ BridgeMoves("finish", "finish") \/ BridgeMoves("finish", "fail")
               /\ Closed(bridge.outcome) /\ faults' < faults
               /\ buffer'.durable = buffer.durable /\ buffer'.text = buffer.text
            \/ /\ BridgeMoves("finish", "finish") \/ BridgeMoves("finish", "fail")
               /\ UNCHANGED <<row, text>>
               /\ \/ faults' < faults
                  \/ ~CanCheckpoint(row, buffer.durable, TerminalSeq, buffer.usage)
               /\ buffer'.durable = buffer.durable /\ buffer'.text = buffer.text
         /\ buffer'.through = machine.sent + 1 /\ buffer'.delivered = buffer.delivered
         /\ buffer'.usage = buffer.usage
         /\ faults' <= faults
         /\ UNCHANGED <<machine, flags, permit, gate, wire, ackers, watchdog, owner, reset,
                        snapshot, accepted, registered>>
<1>1. /\ machine \in MachineType /\ bridge \in BridgeType /\ buffer \in BufferType
      /\ row \in RowType /\ faults \in Nat
  BY DEF TypeOK
<1> DEFINE stored == f # "error" /\ CanCheckpoint(row, buffer.durable, TerminalSeq, buffer.usage)
<1>2. faults' <= faults /\ (f # "ok" => faults' < faults)
  BY <1>1, OutcomeFaults DEF Finish
<1>3. UNCHANGED <<machine, flags, permit, gate, wire, ackers, watchdog, owner, reset,
                  snapshot, accepted, registered>>
  BY Zenon DEF Finish, shared, clients
<1>4. stored => Closed(bridge.outcome)
  BY ClosedFacts DEF Finish
<1>5. ~stored => UNCHANGED <<row, text>>
  BY Zenon DEF Finish
<1>6. CASE stored /\ f = "ok"
  <2>1. BridgeMoves("finish", "publishTerminal")
    BY <1>1, <1>6 DEF Finish, GoTo, BridgeMoves, BridgeType
  <2>2. /\ buffer'.durable = machine.sent + 1 /\ buffer'.through = machine.sent + 1
        /\ buffer'.delivered = buffer.delivered /\ buffer'.usage = buffer.usage
    BY Zenon, <1>1, <1>6 DEF Finish, BufferType, TerminalSeq
  <2> QED
    BY Zenon, <1>2, <1>3, <1>4, <1>6, <2>1, <2>2
<1>7. CASE ~(stored /\ f = "ok")
  <2>1. BridgeMoves("finish", "finish") \/ BridgeMoves("finish", "fail")
    <3>1. Retry("fail") /\ bridge.pc = "finish"
      BY <1>7 DEF Finish
    <3>2. "fail" \in BridgePc
      BY DEF BridgePc
    <3> QED
      BY <1>1, <3>1, <3>2, RetryFacts
  <2>2. /\ buffer'.durable = buffer.durable /\ buffer'.through = machine.sent + 1
        /\ buffer'.delivered = buffer.delivered /\ buffer'.text = buffer.text
        /\ buffer'.usage = buffer.usage
    BY <1>1, <1>7 DEF Finish, BufferType, TerminalSeq
  <2> QED
    BY Zenon, <1>2, <1>3, <1>4, <1>5, <1>7, <2>1, <2>2
<1> QED
  BY Zenon, <1>6, <1>7

\* fail_after_terminal_error: a failure recorded, an outcome adopted, or another attempt.
LEMMA FailRowFacts ==
  ASSUME TypeOK, NEW f \in Faults, FailRow(f)
  PROVE  /\ \/ /\ bridge.pc = "fail" /\ bridge'.pc = "publishTerminal"
               /\ Closed("failed") /\ bridge'.outcome = "failed"
               /\ bridge'.return = bridge.return /\ bridge'.draining = bridge.draining
               /\ bridge'.result = bridge.result
               /\ buffer'.durable = machine.sent + 1
               /\ CanCheckpoint(row, buffer.durable, TerminalSeq, buffer.usage)
            \/ /\ bridge.pc = "fail" /\ bridge'.pc = "publishTerminal"
               /\ UNCHANGED <<row, text>> /\ row.status # "running"
               /\ bridge'.outcome = ReconciledOutcome(row.status)
               /\ bridge'.return = bridge.return /\ bridge'.draining = bridge.draining
               /\ bridge'.result = bridge.result
               /\ buffer'.durable = row.durable
            \/ /\ BridgeMoves("fail", "fail") \/ BridgeMoves("fail", "abort")
               /\ UNCHANGED buffer
               /\ \/ Closed("failed") /\ faults' < faults
                  \/ UNCHANGED <<row, text>>
         /\ buffer'.delivered = buffer.delivered
         /\ faults' <= faults
         /\ UNCHANGED <<machine, flags, permit, gate, wire, ackers, watchdog, owner, reset,
                        snapshot, accepted, registered>>
<1>1. /\ machine \in MachineType /\ bridge \in BridgeType /\ buffer \in BufferType
      /\ row \in RowType /\ faults \in Nat
  BY DEF TypeOK
<1> DEFINE stored == f # "error" /\ row.delivered >= TerminalSeq
                     /\ CanCheckpoint(row, buffer.durable, TerminalSeq, buffer.usage)
<1>2. faults' <= faults /\ (f # "ok" => faults' < faults)
  BY <1>1, OutcomeFaults DEF FailRow
<1>3. UNCHANGED <<machine, flags, permit, gate, wire, ackers, watchdog, owner, reset,
                  snapshot, accepted, registered>>
  BY Zenon DEF FailRow, shared, clients
<1>4. stored => Closed("failed")
  BY ClosedFacts DEF FailRow
<1>5. ~stored => UNCHANGED <<row, text>>
  BY Zenon DEF FailRow
<1>6. CASE f = "ok" /\ (row.status # "running" \/ stored)
  <2>1. /\ bridge.pc = "fail" /\ bridge'.pc = "publishTerminal"
        /\ bridge'.outcome = ReconciledOutcome(row'.status)
        /\ bridge'.return = bridge.return /\ bridge'.draining = bridge.draining
        /\ bridge'.result = bridge.result
    BY Zenon, <1>1, <1>6 DEF FailRow, BridgeType
  <2>2. buffer'.durable = row'.durable /\ buffer'.delivered = buffer.delivered
    BY Zenon, <1>1, <1>6 DEF FailRow, BufferType
  <2>3. CASE stored
    <3>1. bridge'.outcome = "failed"
      BY <1>4, <2>1, <2>3 DEF Closed, ReconciledOutcome
    <3> QED
      BY Zenon, <1>2, <1>3, <1>4, <2>1, <2>2, <2>3, <3>1 DEF Closed
  <2>4. CASE ~stored
    BY Zenon, <1>2, <1>3, <1>5, <1>6, <2>1, <2>2, <2>4
  <2> QED
    BY Zenon, <2>3, <2>4
<1>7. CASE ~(f = "ok" /\ (row.status # "running" \/ stored))
  <2>1. BridgeMoves("fail", "fail") \/ BridgeMoves("fail", "abort")
    <3>1. Retry("abort") /\ bridge.pc = "fail"
      BY <1>7 DEF FailRow
    <3>2. "abort" \in BridgePc
      BY DEF BridgePc
    <3> QED
      BY <1>1, <3>1, <3>2, RetryFacts
  <2>2. UNCHANGED buffer
    BY <1>7 DEF FailRow
  <2> QED
    BY Zenon, <1>2, <1>3, <1>4, <1>5, <1>7, <2>1, <2>2
<1> QED
  BY Zenon, <1>6, <1>7

\* The numbers of the three records.
LEMMA Numbers ==
  ASSUME TypeOK
  PROVE  /\ machine.sent \in Nat /\ machine.durable \in Nat /\ machine.persistedAcked \in Nat
         /\ machine.acked \in Int /\ row.acked \in Nat /\ row.durable \in Nat
         /\ row.delivered \in Nat /\ buffer.delivered \in Nat /\ buffer.durable \in Nat
         /\ buffer.through \in Nat
<1>1. machine \in MachineType /\ row \in RowType /\ buffer \in BufferType
  BY DEF TypeOK
<1> QED
  BY <1>1 DEF MachineType, RowType, BufferType, None
=============================================================================
