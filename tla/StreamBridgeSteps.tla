------------------------- MODULE StreamBridgeSteps --------------------------
(***************************************************************************)
(* Every step of the bridge keeps the invariant of StreamBridgeInv: its    *)
(* control, watermarks, channel and watchers here, the outcome and the text *)
(* in StreamBridgeRulings.  Every command keeps the types.                 *)
(***************************************************************************)
EXTENDS StreamBridgeFacts
-----------------------------------------------------------------------------
(* A step of the bridge keeps each part of the invariant.                  *)

\* What a position implies still holds after a step of the bridge.
LEMMA BridgePhase ==
  ASSUME BInv, Bridge PROVE Phase'
<1>0. TypeOK /\ Phase /\ machine.sent \in Nat /\ MaxWire \in Nat
  BY ConstantsAssumption DEF BInv, TypeOK, MachineType
<1> USE DEF Looping, Waiting, Closing, Settled, Sending, InSend
<1>1. CASE \/ SelectFlushRequest \/ SelectFlushTimer \/ RunEnds \/ RefuseEvent
          \/ (\E k \in Ordinary : SelectEvent(k))
          \/ ReserveRefused \/ (\E big, more \in BOOLEAN : FlushCheck(big, more))
          \/ FlushPublish \/ BridgeError
  <2>1. LoopStep
    BY <1>0, <1>1, LoopSteps
  <2> QED
    BY <1>0, <2>1 DEF Phase, LoopStep
<1>2. CASE Reserve
  BY <1>0, <1>2, ReserveFacts DEF BridgeMoves, Phase, Outcomes, ReconciledOutcome
<1>3. CASE CommitSend /\ bridge.pc = "committed"
  BY SMTT(60), <1>0, <1>3, CommittedFacts DEF BridgeMoves, Phase, Outcomes, ReconciledOutcome
<1>4. CASE CommitSend /\ bridge.pc # "committed"
  BY <1>0, <1>4, RejectedFacts DEF BridgeMoves, Phase, Outcomes, ReconciledOutcome
<1>5. CASE Send(TRUE)
  BY <1>0, <1>5, SentFacts DEF BridgeMoves, Phase, Outcomes, ReconciledOutcome
<1>6. CASE Send(FALSE)
  BY <1>0, <1>6, UnsentFacts DEF BridgeMoves, Phase, Outcomes, ReconciledOutcome
<1>7. ASSUME NEW f \in Faults, NEW u \in 0 .. MaxUsage, Deliver(f, u) PROVE Phase'
  BY <1>0, <1>7, DeliverFacts DEF BridgeMoves, Phase, Outcomes, ReconciledOutcome
<1>8. ASSUME NEW f \in Faults, FlushStore(f) PROVE Phase'
  BY <1>0, <1>8, FlushStoreFacts DEF BridgeMoves, Phase, Outcomes, ReconciledOutcome
<1>9. CASE Decide
  BY <1>0, <1>9, DecideFacts DEF BridgeMoves, Phase, Outcomes, ReconciledOutcome
<1>10. CASE EnterTerminal
  BY <1>0, <1>10, EnterFacts DEF BridgeMoves, Phase, Outcomes, ReconciledOutcome
<1>11. ASSUME NEW f \in Faults, NEW u \in 0 .. MaxUsage, TerminalDelivery(f, u) PROVE Phase'
  BY <1>0, <1>11, TerminalDeliveryFacts DEF BridgeMoves, Phase, Outcomes, ReconciledOutcome
<1>12. ASSUME NEW f \in Faults, Finish(f) PROVE Phase'
  BY <1>0, <1>12, FinishFacts DEF BridgeMoves, Phase, Outcomes, ReconciledOutcome
<1>13. ASSUME NEW f \in Faults, FailRow(f) PROVE Phase'
  BY <1>0, <1>13, FailRowFacts DEF BridgeMoves, Phase, Outcomes, ReconciledOutcome
<1>14. CASE PublishTerminal
  BY <1>0, <1>14, PublishFacts DEF BridgeMoves, Phase, Outcomes, ReconciledOutcome
<1>15. CASE ReserveTerminal
  BY <1>0, <1>15, ReserveTerminalFacts DEF BridgeMoves, Phase, Outcomes, ReconciledOutcome
<1>16. CASE SendTerminal(TRUE)
  BY <1>0, <1>16, SentTerminalFacts DEF BridgeMoves, Phase, Outcomes, ReconciledOutcome
<1>17. CASE SendTerminal(FALSE)
  BY <1>0, <1>17, UnsentTerminalFacts DEF BridgeMoves, Phase, Outcomes, ReconciledOutcome
<1>18. CASE PublishReceipt
  BY <1>0, <1>18, ReceiptFacts DEF BridgeMoves, Phase, Outcomes, ReconciledOutcome
<1>19. CASE AbortTerminal
  BY <1>0, <1>19, AbortFacts DEF BridgeMoves, Phase, Outcomes, ReconciledOutcome
<1>20. CASE RecoverTerminal
  BY <1>0, <1>20, RecoverFacts DEF BridgeMoves, Phase, Outcomes, ReconciledOutcome
<1>21. CASE Retire
  BY <1>0, <1>21 DEF Retire, shared, store, Phase, Outcomes, ReconciledOutcome
<1> QED
  BY Zenon, <1>1, <1>2, <1>3, <1>4, <1>5, <1>6, <1>7, <1>8, <1>9, <1>10, <1>11, <1>12, <1>13, <1>14, <1>15, <1>16, <1>17, <1>18, <1>19, <1>20, <1>21 DEF Bridge

\* The watermarks, across a step of the bridge.
LEMMA BridgeWatermarks ==
  ASSUME BInv, Bridge PROVE Watermarks'
<1>0. TypeOK /\ Phase /\ Watermarks
  BY DEF BInv
<1>a. /\ machine.sent \in Nat /\ machine.durable \in Nat /\ machine.persistedAcked \in Nat
      /\ machine.acked \in Int /\ row.acked \in Nat /\ row.durable \in Nat
      /\ row.delivered \in Nat /\ buffer.delivered \in Nat /\ buffer.durable \in Nat
      /\ buffer.through \in Nat
  BY <1>0, Numbers
<1> USE DEF Looping, Waiting, Closing, Settled, Sending, InSend, Published, Alive, RowOrdered
<1>1. CASE \/ SelectFlushRequest \/ SelectFlushTimer \/ RunEnds \/ RefuseEvent
          \/ (\E k \in Ordinary : SelectEvent(k))
          \/ ReserveRefused \/ (\E big, more \in BOOLEAN : FlushCheck(big, more))
          \/ FlushPublish \/ BridgeError
  <2>1. LoopStep
    BY <1>0, <1>1, LoopSteps
  <2> QED
    BY <1>0, <1>a, <2>1 DEF Watermarks, LoopStep
<1>2. CASE Reserve
  BY <1>0, <1>a, <1>2, ReserveFacts DEF BridgeMoves, Watermarks, Phase, Closed
<1>3. CASE CommitSend /\ bridge.pc = "committed"
  BY SMTT(60), <1>0, <1>a, <1>3, CommittedFacts DEF BridgeMoves, Watermarks, Phase, Closed
<1>4. CASE CommitSend /\ bridge.pc # "committed"
  BY <1>0, <1>a, <1>4, RejectedFacts DEF BridgeMoves, Watermarks, Phase, Closed
<1>5. CASE Send(TRUE)
  BY Zenon, <1>0, <1>a, <1>5, SentFacts DEF BridgeMoves, Watermarks, Phase, Closed
<1>6. CASE Send(FALSE)
  BY <1>0, <1>a, <1>6, UnsentFacts DEF BridgeMoves, Watermarks, Phase, Closed
<1>7. ASSUME NEW f \in Faults, NEW u \in 0 .. MaxUsage, Deliver(f, u) PROVE Watermarks'
  BY SMTT(60), <1>0, <1>a, <1>7, DeliverFacts DEF BridgeMoves, Watermarks, Phase, Closed
<1>8. ASSUME NEW f \in Faults, FlushStore(f) PROVE Watermarks'
  <2>1. /\ bridge.pc = "flush" /\ bridge'.pc \in {"publish", "error"}
        /\ \/ row'.durable = row.durable
           \/ /\ row'.durable = buffer.through /\ buffer.through > row.durable
              /\ buffer.through <= row.delivered
        /\ buffer'.durable = buffer.durable
             \/ (buffer'.durable = buffer.through /\ row'.durable = buffer.through)
        /\ buffer'.through = buffer.through /\ buffer'.delivered = buffer.delivered
        /\ row'.delivered = row.delivered /\ row'.acked = row.acked /\ UNCHANGED machine
    BY <1>0, <1>8, FlushStoreFacts DEF BridgeMoves
  <2> QED
    BY SMTT(60), <1>0, <1>a, <2>1 DEF Watermarks
<1>9. CASE Decide
  BY <1>0, <1>a, <1>9, DecideFacts DEF BridgeMoves, Watermarks, Phase, Closed
<1>10. CASE EnterTerminal
  BY <1>0, <1>a, <1>10, EnterFacts DEF BridgeMoves, Watermarks, Phase, Closed
<1>11. ASSUME NEW f \in Faults, NEW u \in 0 .. MaxUsage, TerminalDelivery(f, u) PROVE Watermarks'
  BY SMTT(60), <1>0, <1>a, <1>11, TerminalDeliveryFacts DEF BridgeMoves, Watermarks, Phase, Closed
<1>12. ASSUME NEW f \in Faults, Finish(f) PROVE Watermarks'
  <2>1. /\ bridge.pc = "finish" /\ bridge'.pc \in {"publishTerminal", "finish", "fail"}
        /\ \/ row'.durable = row.durable
           \/ /\ row'.durable = machine.sent + 1 /\ row.durable < machine.sent + 1
              /\ machine.sent + 1 <= row.delivered
        /\ bridge'.pc # "publishTerminal" => buffer'.durable = buffer.durable
        /\ bridge'.pc = "publishTerminal" =>
             buffer'.durable = machine.sent + 1 /\ row'.durable = machine.sent + 1
        /\ buffer'.through = machine.sent + 1 /\ buffer'.delivered = buffer.delivered
        /\ row'.delivered = row.delivered /\ row'.acked = row.acked /\ UNCHANGED machine
    BY <1>0, <1>a, <1>12, FinishFacts DEF BridgeMoves, Closed
  <2> QED
    BY SMTT(60), <1>0, <1>a, <2>1 DEF Watermarks
<1>13. ASSUME NEW f \in Faults, FailRow(f) PROVE Watermarks'
  <2>1. /\ bridge.pc = "fail" /\ bridge'.pc \in {"publishTerminal", "fail", "abort"}
        /\ \/ row'.durable = row.durable
           \/ /\ row'.durable = machine.sent + 1 /\ row.durable < machine.sent + 1
              /\ machine.sent + 1 <= row.delivered
        /\ bridge'.pc # "publishTerminal" => UNCHANGED buffer
        /\ bridge'.pc = "publishTerminal" => buffer'.durable = row'.durable
        /\ buffer'.delivered = buffer.delivered
        /\ row'.delivered = row.delivered /\ row'.acked = row.acked /\ UNCHANGED machine
    BY <1>0, <1>a, <1>13, FailRowFacts DEF BridgeMoves, Closed
  <2> QED
    BY SMTT(60), <1>0, <1>a, <2>1 DEF Watermarks
<1>14. CASE PublishTerminal
  BY <1>0, <1>a, <1>14, PublishFacts DEF BridgeMoves, Watermarks, Phase, Closed
<1>15. CASE ReserveTerminal
  BY <1>0, <1>a, <1>15, ReserveTerminalFacts DEF BridgeMoves, Watermarks, Phase, Closed
<1>16. CASE SendTerminal(TRUE)
  BY Zenon, <1>0, <1>a, <1>16, SentTerminalFacts DEF BridgeMoves, Watermarks, Phase, Closed
<1>17. CASE SendTerminal(FALSE)
  BY <1>0, <1>a, <1>17, UnsentTerminalFacts DEF BridgeMoves, Watermarks, Phase, Closed
<1>18. CASE PublishReceipt
  BY SMTT(60), <1>0, <1>a, <1>18, ReceiptFacts DEF BridgeMoves, Watermarks, Phase, Closed
<1>19. CASE AbortTerminal
  BY <1>0, <1>a, <1>19, AbortFacts DEF BridgeMoves, Watermarks, Phase, Closed
<1>20. CASE RecoverTerminal
  BY <1>0, <1>a, <1>20, RecoverFacts DEF BridgeMoves, Watermarks, Phase, Closed
<1>21. CASE Retire
  BY <1>0, <1>21 DEF Retire, shared, store, Watermarks, Phase, Closed
<1> QED
  BY Zenon, <1>1, <1>2, <1>3, <1>4, <1>5, <1>6, <1>7, <1>8, <1>9, <1>10, <1>11, <1>12, <1>13, <1>14, <1>15, <1>16, <1>17, <1>18, <1>19, <1>20, <1>21 DEF Bridge

\* The watchdog, across a step of the bridge.
LEMMA BridgeWatchers ==
  ASSUME BInv, Bridge PROVE Watchers'
<1>0. TypeOK /\ Phase /\ Watchers
  BY DEF BInv
<1>a. machine.sent \in Nat /\ machine.acked \in Int
  BY <1>0, Numbers
<1> USE DEF Looping, Waiting, Closing, Settled, Sending, InSend, InFlight
<1>1. CASE \/ SelectFlushRequest \/ SelectFlushTimer \/ RunEnds \/ RefuseEvent
          \/ (\E k \in Ordinary : SelectEvent(k))
          \/ ReserveRefused \/ (\E big, more \in BOOLEAN : FlushCheck(big, more))
          \/ FlushPublish \/ BridgeError
  <2>1. LoopStep
    BY <1>0, <1>1, LoopSteps
  <2> QED
    BY <1>0, <1>a, <2>1 DEF Watchers, LoopStep
<1>2. CASE Reserve
  BY <1>0, <1>a, <1>2, ReserveFacts DEF BridgeMoves, Watchers
<1>3. CASE CommitSend /\ bridge.pc = "committed"
  BY <1>0, <1>a, <1>3, CommittedFacts DEF BridgeMoves, Watchers
<1>4. CASE CommitSend /\ bridge.pc # "committed"
  BY <1>0, <1>a, <1>4, RejectedFacts DEF BridgeMoves, Watchers
<1>5. CASE Send(TRUE)
  BY <1>0, <1>a, <1>5, SentFacts DEF BridgeMoves, Watchers
<1>6. CASE Send(FALSE)
  BY <1>0, <1>a, <1>6, UnsentFacts DEF BridgeMoves, Watchers
<1>7. ASSUME NEW f \in Faults, NEW u \in 0 .. MaxUsage, Deliver(f, u) PROVE Watchers'
  BY <1>0, <1>a, <1>7, DeliverFacts DEF BridgeMoves, Watchers
<1>8. ASSUME NEW f \in Faults, FlushStore(f) PROVE Watchers'
  BY <1>0, <1>a, <1>8, FlushStoreFacts DEF BridgeMoves, Watchers
<1>9. CASE Decide
  BY <1>0, <1>a, <1>9, DecideFacts DEF BridgeMoves, Watchers
<1>10. CASE EnterTerminal
  BY <1>0, <1>a, <1>10, EnterFacts DEF BridgeMoves, Watchers
<1>11. ASSUME NEW f \in Faults, NEW u \in 0 .. MaxUsage, TerminalDelivery(f, u) PROVE Watchers'
  BY Zenon, <1>0, <1>a, <1>11, TerminalDeliveryFacts DEF BridgeMoves, Watchers
<1>12. ASSUME NEW f \in Faults, Finish(f) PROVE Watchers'
  BY Zenon, <1>0, <1>a, <1>12, FinishFacts DEF BridgeMoves, Watchers
<1>13. ASSUME NEW f \in Faults, FailRow(f) PROVE Watchers'
  BY Zenon, <1>0, <1>a, <1>13, FailRowFacts DEF BridgeMoves, Watchers
<1>14. CASE PublishTerminal
  BY <1>0, <1>a, <1>14, PublishFacts DEF BridgeMoves, Watchers
<1>15. CASE ReserveTerminal
  BY <1>0, <1>a, <1>15, ReserveTerminalFacts DEF BridgeMoves, Watchers
<1>16. CASE SendTerminal(TRUE)
  BY <1>0, <1>a, <1>16, SentTerminalFacts DEF BridgeMoves, Watchers
<1>17. CASE SendTerminal(FALSE)
  BY <1>0, <1>a, <1>17, UnsentTerminalFacts DEF BridgeMoves, Watchers
<1>18. CASE PublishReceipt
  BY <1>0, <1>a, <1>18, ReceiptFacts DEF BridgeMoves, Watchers
<1>19. CASE AbortTerminal
  BY <1>0, <1>a, <1>19, AbortFacts DEF BridgeMoves, Watchers
<1>20. CASE RecoverTerminal
  BY <1>0, <1>a, <1>20, RecoverFacts DEF BridgeMoves, Watchers
<1>21. CASE Retire
  BY Zenon, <1>0, <1>21 DEF Retire, shared, store, Watchers
<1> QED
  BY Zenon, <1>1, <1>2, <1>3, <1>4, <1>5, <1>6, <1>7, <1>8, <1>9, <1>10, <1>11, <1>12, <1>13, <1>14, <1>15, <1>16, <1>17, <1>18, <1>19, <1>20, <1>21 DEF Bridge

\* What an acknowledgement has read still holds after a step of the bridge.
LEMMA BridgeAckers ==
  ASSUME BInv, Bridge PROVE \A a \in Acker : AckerHolds(a)'
<1>0. TypeOK /\ Phase
  BY DEF BInv
<1>a. /\ machine.sent \in Nat /\ machine.acked \in Int /\ machine.persistedAcked \in Nat
      /\ Len(wire) \in Nat /\ \A a \in Acker : ackers[a].seq \in Nat
  BY SMTT(60), <1>0, Numbers DEF TypeOK
<1>b. \A a \in Acker : a # "free" /\ a # "bridge" /\ AckerHolds(a)
  BY ConstantsAssumption DEF BInv
\* The bridge takes the gate only when it is free and never takes anything back.
<1>c. ASSUME UNCHANGED ackers, gate' = gate \/ gate \in {"free", "bridge"},
             machine'.acked = machine.acked, machine'.persistedAcked = machine.persistedAcked,
             machine'.sent \in {machine.sent, machine.sent + 1},
             Len(wire') \in {Len(wire), Len(wire) + 1}
      PROVE  \A a \in Acker : AckerHolds(a)'
  BY SMTT(60), <1>a, <1>b, <1>c DEF AckerHolds
<1> USE DEF Closing, Settled, Sending, InSend
<1>1. CASE \/ SelectFlushRequest \/ SelectFlushTimer \/ RunEnds \/ RefuseEvent
          \/ (\E k \in Ordinary : SelectEvent(k))
          \/ ReserveRefused \/ (\E big, more \in BOOLEAN : FlushCheck(big, more))
          \/ FlushPublish \/ BridgeError
  <2>1. LoopStep
    BY <1>0, <1>1, LoopSteps
  <2> QED
    BY <1>c, <2>1 DEF LoopStep
<1>2. CASE Reserve
  BY <1>0, <1>c, <1>2, ReserveFacts DEF BridgeMoves
<1>3. CASE CommitSend /\ bridge.pc = "committed"
  BY <1>0, <1>c, <1>3, CommittedFacts DEF BridgeMoves, Phase
<1>4. CASE CommitSend /\ bridge.pc # "committed"
  BY <1>0, <1>c, <1>4, RejectedFacts DEF BridgeMoves
<1>5. CASE Send(TRUE)
  <2>1. /\ UNCHANGED <<machine, gate, ackers>>
        /\ wire' = Append(wire, [seq |-> machine.pending, kind |-> bridge.kind])
    BY <1>0, <1>5, SentFacts
  <2>2. Len(wire') = Len(wire) + 1
    BY <1>0, <2>1 DEF TypeOK
  <2> QED
    BY <1>c, <2>1, <2>2
<1>6. CASE Send(FALSE)
  BY <1>0, <1>c, <1>6, UnsentFacts DEF BridgeMoves
<1>7. ASSUME NEW f \in Faults, NEW u \in 0 .. MaxUsage, Deliver(f, u) PROVE \A a \in Acker : AckerHolds(a)'
  BY <1>0, <1>c, <1>7, DeliverFacts DEF BridgeMoves
<1>8. ASSUME NEW f \in Faults, FlushStore(f) PROVE \A a \in Acker : AckerHolds(a)'
  BY <1>0, <1>c, <1>8, FlushStoreFacts DEF BridgeMoves
<1>9. CASE Decide
  BY Zenon, <1>0, <1>c, <1>9, DecideFacts DEF BridgeMoves
<1>10. CASE EnterTerminal
  BY Zenon, <1>0, <1>c, <1>10, EnterFacts DEF BridgeMoves
<1>11. ASSUME NEW f \in Faults, NEW u \in 0 .. MaxUsage, TerminalDelivery(f, u) PROVE \A a \in Acker : AckerHolds(a)'
  BY <1>0, <1>c, <1>11, TerminalDeliveryFacts DEF BridgeMoves
<1>12. ASSUME NEW f \in Faults, Finish(f) PROVE \A a \in Acker : AckerHolds(a)'
  BY <1>0, <1>c, <1>12, FinishFacts DEF BridgeMoves
<1>13. ASSUME NEW f \in Faults, FailRow(f) PROVE \A a \in Acker : AckerHolds(a)'
  BY <1>0, <1>c, <1>13, FailRowFacts DEF BridgeMoves
<1>14. CASE PublishTerminal
  BY <1>0, <1>c, <1>14, PublishFacts DEF BridgeMoves
<1>15. CASE ReserveTerminal
  BY <1>0, <1>c, <1>15, ReserveTerminalFacts DEF BridgeMoves, Phase
<1>16. CASE SendTerminal(TRUE)
  <2>1. /\ UNCHANGED <<machine, gate, ackers>>
        /\ wire' = Append(wire, [seq |-> machine.pending, kind |-> bridge.outcome])
    BY <1>0, <1>16, SentTerminalFacts
  <2>2. Len(wire') = Len(wire) + 1
    BY <1>0, <2>1 DEF TypeOK
  <2> QED
    BY <1>c, <2>1, <2>2
<1>17. CASE SendTerminal(FALSE)
  BY <1>0, <1>c, <1>17, UnsentTerminalFacts DEF BridgeMoves
<1>18. CASE PublishReceipt
  BY <1>0, <1>c, <1>18, ReceiptFacts DEF BridgeMoves, Phase
<1>19. CASE AbortTerminal
  BY <1>0, <1>c, <1>19, AbortFacts DEF BridgeMoves, Phase
<1>20. CASE RecoverTerminal
  BY <1>0, <1>c, <1>20, RecoverFacts DEF BridgeMoves
<1>21. CASE Retire
  BY <1>c, <1>21 DEF Retire, shared
<1> QED
  BY Zenon, <1>1, <1>2, <1>3, <1>4, <1>5, <1>6, <1>7, <1>8, <1>9, <1>10, <1>11, <1>12, <1>13, <1>14, <1>15, <1>16, <1>17, <1>18, <1>19, <1>20, <1>21 DEF Bridge

\* The channel and its window, across a step of the bridge.
LEMMA BridgeChannel ==
  ASSUME BInv, Bridge PROVE Channel'
<1>0. TypeOK /\ Phase /\ Channel
  BY DEF BInv
<1>a. /\ machine.sent \in Nat /\ machine.acked \in Int /\ MaxInFlight \in Nat
      /\ Len(wire) \in Nat
  BY SMTT(60), <1>0, Numbers, ConstantsAssumption DEF TypeOK
<1> USE DEF Looping, Waiting, Closing, Settled, Sending, InSend, Alive
<1>1. CASE \/ SelectFlushRequest \/ SelectFlushTimer \/ RunEnds \/ RefuseEvent
          \/ (\E k \in Ordinary : SelectEvent(k))
          \/ ReserveRefused \/ (\E big, more \in BOOLEAN : FlushCheck(big, more))
          \/ FlushPublish \/ BridgeError
  <2>1. LoopStep
    BY <1>0, <1>1, LoopSteps
  <2> QED
    BY Zenon, <1>0, <1>a, <2>1 DEF Channel, LoopStep
<1>2. CASE Reserve
  <2>1. machine.sent + 1 - machine.acked <= MaxInFlight
    BY SMTT(60), <1>0, <1>a, <1>2, ReserveFacts DEF InFlight
  <2> QED
    BY Zenon, <1>0, <1>a, <1>2, <2>1, ReserveFacts DEF BridgeMoves, Channel, Phase
<1>3. CASE CommitSend /\ bridge.pc = "committed"
  <2>1. /\ bridge.pc = "committed" /\ bridge'.pc = "deliver" /\ bridge'.kind = bridge.kind
        /\ machine'.sent = machine.pending /\ machine'.acked = machine.acked /\ wire' = wire
    BY <1>0, <1>3, CommittedFacts DEF BridgeMoves
  <2>2. machine'.sent = machine.sent + 1
    BY <1>0, <2>1 DEF Phase
  <2>3. /\ \A i \in 1 .. Len(wire) : wire[i].seq = i
        /\ \A i \in 1 .. Len(wire) : wire[i].kind \in Ordinary
        /\ Len(wire) = machine.sent + 1 /\ wire[Len(wire)].kind = bridge.kind
        /\ machine.acked <= machine.sent /\ machine.sent + 1 - machine.acked <= MaxInFlight
    BY Zenon, <1>0, <2>1 DEF Channel
  <2> QED
    BY <1>a, <2>1, <2>2, <2>3 DEF Channel
<1>4. CASE CommitSend /\ bridge.pc # "committed"
  BY Zenon, <1>0, <1>a, <1>4, RejectedFacts DEF BridgeMoves, Channel, Phase, InFlight
<1>5. CASE Send(TRUE)
  <2>1. /\ BridgeMoves("send", "committed") /\ UNCHANGED machine
        /\ wire' = Append(wire, [seq |-> machine.pending, kind |-> bridge.kind])
    BY <1>0, <1>5, SentFacts
  <2>2. wire \in Seq(Event) /\ machine.pending = machine.sent + 1 /\ Len(wire) = machine.sent
    BY Zenon, <1>0, <2>1 DEF TypeOK, Phase, Channel, BridgeMoves
  <2>3. /\ Len(wire') = machine.sent + 1
        /\ wire'[machine.sent + 1] = [seq |-> machine.sent + 1, kind |-> bridge.kind]
        /\ \A i \in 1 .. machine.sent : wire'[i] = wire[i]
    BY SMTT(60), <1>a, <2>1, <2>2
  <2>4. \A i \in 1 .. machine.sent : wire[i].seq = i /\ wire[i].kind \in Ordinary
    BY Zenon, <1>0, <2>1, <2>2 DEF Channel, BridgeMoves
  <2>5. wire'[machine.sent + 1].seq = machine.sent + 1 /\ wire'[machine.sent + 1].kind = bridge.kind
    BY <2>3
  <2>6. \A i \in 1 .. Len(wire') : i \in 1 .. machine.sent \/ i = machine.sent + 1
    BY <1>a, <2>3
  <2>7. /\ \A i \in 1 .. Len(wire') : wire'[i].seq = i
        /\ \A i \in 1 .. machine.sent : wire'[i].kind \in Ordinary
        /\ Len(wire') - 1 = machine.sent
        /\ \A i \in 1 .. Len(wire') :
             wire'[i].kind \in (IF i <= machine.sent THEN Ordinary ELSE {bridge.kind})
    <3>1. \A i \in 1 .. machine.sent : wire'[i].seq = i /\ wire'[i].kind \in Ordinary /\ i <= machine.sent
      BY SMTT(60), <2>3, <2>4, <1>a
    <3>2. ~(machine.sent + 1 <= machine.sent) /\ Len(wire') - 1 = machine.sent
      BY SMTT(60), <1>a, <2>3
    <3> QED
      BY <2>5, <2>6, <3>1, <3>2
  <2>8. bridge.kind \in Ordinary
    BY <1>0 DEF TypeOK, BridgeType
  <2> QED
    BY SMTT(60), <1>0, <1>a, <2>1, <2>3, <2>7, <2>8 DEF Channel, BridgeMoves
<1>6. CASE Send(FALSE)
  BY Zenon, <1>0, <1>a, <1>6, UnsentFacts DEF BridgeMoves, Channel, Phase, InFlight
<1>7. ASSUME NEW f \in Faults, NEW u \in 0 .. MaxUsage, Deliver(f, u) PROVE Channel'
  BY Zenon, <1>0, <1>a, <1>7, DeliverFacts DEF BridgeMoves, Channel, Phase, InFlight
<1>8. ASSUME NEW f \in Faults, FlushStore(f) PROVE Channel'
  BY Zenon, <1>0, <1>a, <1>8, FlushStoreFacts DEF BridgeMoves, Channel, Phase, InFlight
<1>9. CASE Decide
  BY Zenon, <1>0, <1>a, <1>9, DecideFacts DEF BridgeMoves, Channel, Phase, InFlight
<1>10. CASE EnterTerminal
  BY Zenon, <1>0, <1>a, <1>10, EnterFacts DEF BridgeMoves, Channel, Phase, InFlight
<1>11. ASSUME NEW f \in Faults, NEW u \in 0 .. MaxUsage, TerminalDelivery(f, u) PROVE Channel'
  BY Zenon, <1>0, <1>a, <1>11, TerminalDeliveryFacts DEF BridgeMoves, Channel, Phase, InFlight
<1>12. ASSUME NEW f \in Faults, Finish(f) PROVE Channel'
  BY Zenon, <1>0, <1>a, <1>12, FinishFacts DEF BridgeMoves, Channel, Phase, InFlight
<1>13. ASSUME NEW f \in Faults, FailRow(f) PROVE Channel'
  BY Zenon, <1>0, <1>a, <1>13, FailRowFacts DEF BridgeMoves, Channel, Phase, InFlight
<1>14. CASE PublishTerminal
  BY Zenon, <1>0, <1>a, <1>14, PublishFacts DEF BridgeMoves, Channel, Phase, InFlight
<1>15. CASE ReserveTerminal
  BY Zenon, <1>0, <1>a, <1>15, ReserveTerminalFacts DEF BridgeMoves, Channel, Phase, InFlight
<1>16. CASE SendTerminal(TRUE)
  <2>1. /\ BridgeMoves("sendTerminal", "receipt") /\ UNCHANGED machine
        /\ wire' = Append(wire, [seq |-> machine.pending, kind |-> bridge.outcome])
    BY <1>0, <1>16, SentTerminalFacts
  <2>2. wire \in Seq(Event) /\ machine.pending = machine.sent + 1 /\ Len(wire) = machine.sent
    BY Zenon, <1>0, <2>1 DEF TypeOK, Phase, Channel, BridgeMoves
  <2>3. /\ Len(wire') = machine.sent + 1
        /\ wire'[machine.sent + 1] = [seq |-> machine.sent + 1, kind |-> bridge.outcome]
        /\ \A i \in 1 .. machine.sent : wire'[i] = wire[i]
    BY SMTT(60), <1>a, <2>1, <2>2
  <2>4. \A i \in 1 .. machine.sent : wire[i].seq = i /\ wire[i].kind \in Ordinary
    BY <1>0, <2>1, <2>2 DEF Channel, BridgeMoves
  <2>5. wire'[machine.sent + 1].seq = machine.sent + 1 /\ wire'[machine.sent + 1].kind = bridge.outcome
    BY SMTT(60), <2>3
  <2>6. \A i \in 1 .. Len(wire') : i \in 1 .. machine.sent \/ i = machine.sent + 1
    BY SMTT(60), <1>a, <2>3
  <2>7. /\ \A i \in 1 .. Len(wire') : wire'[i].seq = i
        /\ \A i \in 1 .. machine.sent : wire'[i].kind \in Ordinary
        /\ Len(wire') - 1 = machine.sent
        /\ \A i \in 1 .. Len(wire') :
             wire'[i].kind \in (IF i <= machine.sent THEN Ordinary ELSE {bridge.outcome})
    <3>1. \A i \in 1 .. machine.sent : wire'[i].seq = i /\ wire'[i].kind \in Ordinary /\ i <= machine.sent
      BY SMTT(60), <2>3, <2>4, <1>a
    <3>2. ~(machine.sent + 1 <= machine.sent) /\ Len(wire') - 1 = machine.sent
      BY SMTT(60), <1>a, <2>3
    <3> QED
      BY <2>5, <2>6, <3>1, <3>2
  <2>8. bridge.kind \in Ordinary
    BY <1>0 DEF TypeOK, BridgeType
  <2> QED
    BY Zenon, <1>0, <1>a, <2>1, <2>3, <2>7, <2>8 DEF Channel, BridgeMoves
<1>17. CASE SendTerminal(FALSE)
  BY SMTT(60), <1>0, <1>a, <1>17, UnsentTerminalFacts DEF BridgeMoves, Channel, Phase, InFlight
<1>18. CASE PublishReceipt
  <2>1. /\ bridge.pc = "receipt" /\ bridge'.pc = "done" /\ UNCHANGED wire
        /\ machine'.sent = machine.pending /\ machine'.terminal = bridge.outcome
        /\ machine'.acked = machine.acked /\ machine.pending = machine.sent + 1
    BY <1>0, <1>18, ReceiptFacts DEF BridgeMoves, Phase
  <2>2. /\ Len(wire) \in {machine'.sent - 1, machine'.sent}
        /\ \A i \in 1 .. Len(wire) :
             wire[i].kind \in (IF i < machine'.sent THEN Ordinary ELSE {machine'.terminal})
    BY SMTT(60), <1>0, <1>a, <2>1 DEF Channel
  <2> QED
    BY SMTT(60), <1>0, <1>a, <2>1, <2>2 DEF Channel
<1>19. CASE AbortTerminal
  BY Zenon, <1>0, <1>a, <1>19, AbortFacts DEF BridgeMoves, Channel, Phase, InFlight
<1>20. CASE RecoverTerminal
  BY Zenon, <1>0, <1>a, <1>20, RecoverFacts DEF BridgeMoves, Channel, Phase, InFlight
<1>21. CASE Retire
  BY Zenon, <1>0, <1>21 DEF Retire, shared, store, Channel, Phase, InFlight
<1> QED
  BY Zenon, <1>1, <1>2, <1>3, <1>4, <1>5, <1>6, <1>7, <1>8, <1>9, <1>10, <1>11, <1>12, <1>13, <1>14, <1>15, <1>16, <1>17, <1>18, <1>19, <1>20, <1>21 DEF Bridge
-----------------------------------------------------------------------------
(* The stored text.                                                        *)
-----------------------------------------------------------------------------
(* The types, across a command.                                           *)

\* An acknowledgement that goes on, begins or ends keeps its type.
LEMMA AckerMoved ==
  \A as \in AckersType, a \in Acker, pc \in AckerPc : [as EXCEPT ![a].pc = pc] \in AckersType
  BY Zenon DEF AckersType, AckerType

LEMMA AckerSet ==
  \A as \in AckersType, a \in Acker, k \in AckerType : [as EXCEPT ![a] = k] \in AckersType
  BY Zenon DEF AckersType

LEMMA IdleTyped == Idle \in AckerType
  BY DEF Idle, AckerType, AckerPc

\* note_ack_activity with request_flush_through, and record_ack_progress.
LEMMA RequestTyped == \A m \in MachineType, n \in Nat : RequestFlush(m, n) \in MachineType
<1> TAKE m \in MachineType, n \in Nat
<1> DEFINE t == m.armed \/ n > m.acked
           q == IF n > m.durable /\ n > m.flushRequested THEN n ELSE m.flushRequested
<1>1. t \in BOOLEAN /\ q \in Nat
  BY DEF MachineType
<1> HIDE DEF t, q
<1>2. [m EXCEPT !.armed = t, !.flushRequested = q] \in MachineType
  BY Zenon, <1>1, MachineRequested
<1> QED
  BY <1>2 DEF RequestFlush, t, q

\* record_ack_progress keeps the type of the machine.
LEMMA ProgressTyped == \A m \in MachineType, n \in Nat : RecordAckProgress(m, n) \in MachineType
<1> TAKE m \in MachineType, n \in Nat
<1> DEFINE t == m.sent > n /\ (m.armed \/ n > m.acked)
<1>1. t \in BOOLEAN
  OBVIOUS
<1> HIDE DEF t
<1>2. [m EXCEPT !.acked = n, !.armed = t] \in MachineType
  BY Zenon, <1>1, MachineAcked
<1> QED
  BY <1>2 DEF RecordAckProgress, t

\* The types, across a command.
LEMMA TypeCommand ==
  ASSUME TypeOK, Command PROVE TypeOK'
<1>0. /\ machine \in MachineType /\ ackers \in AckersType /\ flags \in FlagsType
      /\ row \in RowType /\ faults \in Nat
  BY DEF TypeOK, FlagsType, AckersType, AckerType
<1>1. ASSUME NEW a \in Acker, NEW seq \in Nat, Ack(a, seq) PROVE TypeOK'
  <2>1. ackers' \in AckersType
    <3>1. [pc |-> "gate", seq |-> seq, known |-> seq <= Len(wire)] \in AckerType
      BY DEF AckerType, AckerPc
    <3> QED
      BY Zenon, <1>0, <1>1, <3>1, AckerSet DEF Ack
  <2>2. UNCHANGED <<machine, flags, permit, gate, bridge, buffer, row, text, faults, wire,
                   watchdog, owner, reset, snapshot, accepted, registered>>
    BY <1>1 DEF Ack, shared, store, AckRest, AckReturn, AckGoTo
  <2> QED
    BY <2>1, <2>2 DEF TypeOK, AckersType, AckerType
<1>2. ASSUME NEW a \in Acker, AckGate(a) PROVE TypeOK'
  <2>1. ackers' \in AckersType
    BY Zenon, <1>0, <1>2, AckerMoved DEF AckGate, AckGoTo, AckerPc
  <2>2. gate' \in Acker \cup {"free", "bridge"}
    BY <1>2 DEF AckGate, AckReturn, TypeOK
  <2>3. UNCHANGED <<machine, flags, permit, bridge, buffer, row, text, faults, wire, watchdog,
                   owner, reset, snapshot, accepted, registered>>
    BY <1>2 DEF AckGate, shared, store, AckRest, AckReturn, AckGoTo
  <2> QED
    BY <2>1, <2>2, <2>3 DEF TypeOK, AckersType, AckerType
<1>3. ASSUME NEW a \in Acker, AckPending(a) PROVE TypeOK'
  <2>1. ackers' \in AckersType
    BY Zenon, <1>0, <1>3, AckerMoved DEF AckPending, AckGoTo, AckerPc
  <2>2. UNCHANGED <<machine, flags, permit, gate, bridge, buffer, row, text, faults, wire,
                   watchdog, owner, reset, snapshot, accepted, registered>>
    BY <1>3 DEF AckPending, shared, store, AckRest, AckReturn, AckGoTo
  <2> QED
    BY <2>1, <2>2 DEF TypeOK, AckersType, AckerType
<1>4. ASSUME NEW a \in Acker, AckPendingWake(a) PROVE TypeOK'
  <2>1. ackers' \in AckersType
    BY Zenon, <1>0, <1>4, AckerMoved DEF AckPendingWake, AckGoTo, AckerPc
  <2>2. UNCHANGED <<machine, flags, permit, gate, bridge, buffer, row, text, faults, wire,
                   watchdog, owner, reset, snapshot, accepted, registered>>
    BY <1>4 DEF AckPendingWake, shared, store, AckRest, AckReturn, AckGoTo
  <2> QED
    BY <2>1, <2>2 DEF TypeOK, AckersType, AckerType
<1>5. ASSUME NEW a \in Acker, AckPendingGiveUp(a) PROVE TypeOK'
  <2>1. ackers' \in AckersType
    BY Zenon, <1>0, <1>5, AckerSet, IdleTyped DEF AckPendingGiveUp, AckReturn
  <2>2. gate' \in Acker \cup {"free", "bridge"}
    BY <1>5 DEF AckPendingGiveUp, AckReturn, TypeOK
  <2>3. UNCHANGED <<machine, flags, permit, bridge, buffer, row, text, faults, wire, watchdog,
                   owner, reset, snapshot, accepted, registered>>
    BY <1>5 DEF AckPendingGiveUp, shared, store, AckRest, AckReturn, AckGoTo
  <2> QED
    BY SMTT(60), <2>1, <2>2, <2>3 DEF TypeOK, AckersType, AckerType
<1>6. ASSUME NEW a \in Acker, AckValidate(a) PROVE TypeOK'
  <2>1. ackers' \in AckersType
    <3>1. AckReturn(a) => ackers' \in AckersType
      BY Zenon, <1>0, AckerSet, IdleTyped DEF AckReturn
    <3>2. \A pc \in AckerPc : AckGoTo(a, pc) => ackers' \in AckersType
      BY ZenonT(60), <1>0, AckerMoved DEF AckGoTo
    <3> QED
      BY <1>6, <3>1, <3>2 DEF AckValidate, AckerPc
  <2>2. machine' \in MachineType
    <3>1. ackers[a].seq \in Nat
      BY <1>0 DEF AckersType, AckerType
    <3> QED
      BY <1>0, <1>6, <3>1, RequestTyped DEF AckValidate
  <2>3. gate' \in Acker \cup {"free", "bridge"}
    BY <1>6 DEF AckValidate, AckReturn, TypeOK
  <2>4. permit' \in BOOLEAN
    BY Zenon, <1>6 DEF AckValidate, TypeOK
  <2>5. registered' \in BOOLEAN
    BY Zenon, <1>6 DEF AckValidate, TypeOK
  <2>6. UNCHANGED <<flags, bridge, buffer, row, text, faults, wire, watchdog, owner, reset,
                   snapshot, accepted>>
    BY <1>6 DEF AckValidate, shared, store, AckRest, AckReturn, AckGoTo
  <2> QED
    BY SMTT(60), <2>1, <2>2, <2>3, <2>4, <2>5, <2>6 DEF TypeOK, AckersType, AckerType
<1>7. ASSUME NEW a \in Acker, AckBarrier(a) PROVE TypeOK'
  <2>1. ackers' \in AckersType
    <3>1. AckReturn(a) => ackers' \in AckersType
      BY Zenon, <1>0, AckerSet, IdleTyped DEF AckReturn
    <3>2. \A pc \in AckerPc : AckGoTo(a, pc) => ackers' \in AckersType
      BY ZenonT(60), <1>0, AckerMoved DEF AckGoTo
    <3> QED
      BY <1>7, <3>1, <3>2 DEF AckBarrier, AckerPc
  <2>2. gate' \in Acker \cup {"free", "bridge"}
    BY <1>7 DEF AckBarrier, AckReturn, TypeOK
  <2>3. UNCHANGED <<machine, flags, permit, bridge, buffer, row, text, faults, wire, watchdog,
                   owner, reset, snapshot, accepted, registered>>
    BY <1>7 DEF AckBarrier, shared, store, AckRest, AckReturn, AckGoTo
  <2> QED
    BY <2>1, <2>2, <2>3 DEF TypeOK, AckersType, AckerType
<1>8. ASSUME NEW a \in Acker, AckBarrierWake(a) PROVE TypeOK'
  <2>1. ackers' \in AckersType
    BY Zenon, <1>0, <1>8, AckerMoved DEF AckBarrierWake, AckGoTo, AckerPc
  <2>2. UNCHANGED <<machine, flags, permit, gate, bridge, buffer, row, text, faults, wire,
                   watchdog, owner, reset, snapshot, accepted, registered>>
    BY <1>8 DEF AckBarrierWake, shared, store, AckRest, AckReturn, AckGoTo
  <2> QED
    BY SMTT(60), <2>1, <2>2 DEF TypeOK, AckersType, AckerType
<1>9. ASSUME NEW a \in Acker, AckBarrierCancelled(a) PROVE TypeOK'
  <2>1. ackers' \in AckersType
    BY Zenon, <1>0, <1>9, AckerSet, IdleTyped DEF AckBarrierCancelled, AckReturn
  <2>2. gate' \in Acker \cup {"free", "bridge"}
    BY <1>9 DEF AckBarrierCancelled, AckReturn, TypeOK
  <2>3. UNCHANGED <<machine, flags, permit, bridge, buffer, row, text, faults, wire, watchdog,
                   owner, reset, snapshot, accepted, registered>>
    BY <1>9 DEF AckBarrierCancelled, shared, store, AckRest, AckReturn, AckGoTo
  <2> QED
    BY SMTT(60), <2>1, <2>2, <2>3 DEF TypeOK, AckersType, AckerType
<1>10. ASSUME NEW a \in Acker, AckBarrierTimeout(a) PROVE TypeOK'
  <2>1. ackers' \in AckersType
    BY Zenon, <1>0, <1>10, AckerMoved DEF AckBarrierTimeout, AckGoTo, AckerPc
  <2>2. UNCHANGED <<machine, flags, permit, gate, bridge, buffer, row, text, faults, wire,
                   watchdog, owner, reset, snapshot, accepted, registered>>
    BY <1>10 DEF AckBarrierTimeout, shared, store, AckRest, AckReturn, AckGoTo
  <2> QED
    BY <2>1, <2>2 DEF TypeOK, AckersType, AckerType
<1>11. ASSUME NEW a \in Acker, NEW f \in Faults, AckPersist(a, f) PROVE TypeOK'
  <2>1. ackers' \in AckersType
    BY ZenonT(60), <1>0, <1>11, AckerMoved DEF AckPersist, AckGoTo, AckerPc
  <2>2. machine' \in MachineType /\ row' \in RowType
    <3>1. ackers[a].seq \in Nat
      BY <1>0 DEF AckersType, AckerType
    <3>2. AckedRow(row, ackers[a].seq) \in RowType
      BY <1>0, <3>1 DEF AckedRow, RowType
    <3> QED
      BY <1>0, <1>11, <3>1, <3>2, MachinePersisted DEF AckPersist
  <2>3. faults' \in Nat
    BY <1>0, <1>11 DEF AckPersist, Outcome
  <2>4. UNCHANGED <<flags, permit, gate, bridge, buffer, text, wire, watchdog, owner, reset,
                   snapshot, accepted, registered>>
    BY <1>11 DEF AckPersist, shared, store, AckRest, AckReturn, AckGoTo
  <2> QED
    BY SMTT(60), <2>1, <2>2, <2>3, <2>4 DEF TypeOK, AckersType, AckerType
<1>12. ASSUME NEW a \in Acker, AckRecord(a) PROVE TypeOK'
  <2>1. ackers' \in AckersType
    BY Zenon, <1>0, <1>12, AckerSet, IdleTyped DEF AckRecord, AckReturn
  <2>2. gate' \in Acker \cup {"free", "bridge"}
    BY <1>12 DEF AckRecord, AckReturn, TypeOK
  <2>3. machine' \in MachineType
    <3>1. ackers[a].seq \in Nat
      BY <1>0 DEF AckersType, AckerType
    <3> QED
      BY <1>0, <1>12, <3>1, ProgressTyped DEF AckRecord
  <2>4. registered' \in BOOLEAN
    BY <1>12 DEF AckRecord, TypeOK
  <2>5. UNCHANGED <<flags, permit, bridge, buffer, row, text, faults, wire, watchdog, owner,
                   reset, snapshot, accepted>>
    BY <1>12 DEF AckRecord, shared, store, AckRest, AckReturn, AckGoTo
  <2> QED
    BY <2>1, <2>2, <2>3, <2>4, <2>5 DEF TypeOK, AckersType, AckerType
<1>13. ASSUME NEW a \in Acker, ForceFailure(a) PROVE TypeOK'
  <2>1. ackers' \in AckersType
    BY Zenon, <1>0, <1>13, AckerMoved DEF ForceFailure, AckGoTo, AckerPc
  <2>2. machine' \in MachineType
    BY Zenon, <1>0, <1>13, MachineLease DEF ForceFailure, MachineType
  <2>3. flags' \in FlagsType
    BY Zenon, <1>0, <1>13 DEF ForceFailure, FlagsType
  <2>4. UNCHANGED <<permit, gate, bridge, buffer, row, text, faults, wire, watchdog, owner,
                   reset, snapshot, accepted, registered>>
    BY <1>13 DEF ForceFailure, shared, store, AckRest, AckReturn, AckGoTo
  <2> QED
    BY <2>1, <2>2, <2>3, <2>4 DEF TypeOK, AckersType, AckerType, FlagsType
<1>14. ASSUME NEW a \in Acker, NEW waiting \in BOOLEAN, ForceCancel(a, waiting) PROVE TypeOK'
  <2>1. ackers' \in AckersType
    BY Zenon, <1>0, <1>14, AckerSet, IdleTyped DEF ForceCancel, AckReturn
  <2>2. gate' \in Acker \cup {"free", "bridge"}
    BY <1>14 DEF ForceCancel, AckReturn, TypeOK
  <2>3. flags' \in FlagsType
    BY Zenon, <1>0, <1>14 DEF ForceCancel, FlagsType
  <2>4. permit' \in BOOLEAN
    BY <1>14 DEF ForceCancel, TypeOK
  <2>5. UNCHANGED <<machine, bridge, buffer, row, text, faults, wire, watchdog, owner, reset,
                   snapshot, accepted, registered>>
    BY <1>14 DEF ForceCancel, shared, store, AckRest, AckReturn, AckGoTo
  <2> QED
    BY SMTT(60), <2>1, <2>2, <2>3, <2>4, <2>5 DEF TypeOK, AckersType, AckerType, FlagsType
<1>15. CASE WatchdogFire
  <2>1. machine' \in MachineType
    BY Zenon, <1>0, <1>15, MachineLease DEF WatchdogFire
  <2>2. flags' \in FlagsType
    BY Zenon, <1>0, <1>15 DEF WatchdogFire, FlagsType
  <2>3. watchdog' \in {"watching", "fired", "gone"}
    BY <1>15 DEF WatchdogFire
  <2>4. UNCHANGED <<permit, gate, bridge, buffer, row, text, faults, wire, ackers, owner, reset,
                   snapshot, accepted, registered>>
    BY <1>15 DEF WatchdogFire, shared, store
  <2> QED
    BY SMTT(60), <2>1, <2>2, <2>3, <2>4 DEF TypeOK, FlagsType
<1>16. CASE WatchdogCancel
  <2>1. flags' \in FlagsType
    BY Zenon, <1>0, <1>16 DEF WatchdogCancel, FlagsType
  <2>2. watchdog' \in {"watching", "fired", "gone"}
    BY <1>16 DEF WatchdogCancel
  <2>3. UNCHANGED <<machine, permit, gate, bridge, buffer, row, text, faults, wire, ackers,
                   owner, reset, snapshot, accepted, registered>>
    BY <1>16 DEF WatchdogCancel, shared, store
  <2> QED
    BY <2>1, <2>2, <2>3 DEF TypeOK, FlagsType
<1>17. CASE WatchdogExit
  <2>1. watchdog' \in {"watching", "fired", "gone"}
    BY <1>17 DEF WatchdogExit
  <2>2. UNCHANGED <<machine, flags, permit, gate, bridge, buffer, row, text, faults, wire,
                   ackers, owner, reset, snapshot, accepted, registered>>
    BY <1>17 DEF WatchdogExit, shared, store
  <2> QED
    BY <2>1, <2>2 DEF TypeOK
<1>18. CASE Cancel
  <2>1. flags' \in FlagsType
    BY Zenon, <1>0, <1>18 DEF Cancel, FlagsType, LockedCancel
  <2>2. accepted' \in BOOLEAN
    BY <1>18 DEF Cancel, TypeOK, LockedCancel
  <2>3. UNCHANGED <<machine, permit, gate, bridge, buffer, row, text, faults, wire, ackers,
                   watchdog, owner, reset, snapshot, registered>>
    BY <1>18 DEF Cancel, shared, store
  <2> QED
    BY SMTT(60), <2>1, <2>2, <2>3 DEF TypeOK, FlagsType
<1>19. CASE ResetCancel
  <2>1. flags' \in FlagsType
    BY Zenon, <1>0, <1>19 DEF ResetCancel, FlagsType, LockedCancel
  <2>2. accepted' \in BOOLEAN
    BY <1>19 DEF ResetCancel, TypeOK, LockedCancel
  <2>3. reset' \in {"idle", "waiting"}
    BY <1>19 DEF ResetCancel
  <2>4. UNCHANGED <<machine, permit, gate, bridge, buffer, row, text, faults, wire, ackers,
                   watchdog, owner, snapshot, registered>>
    BY <1>19 DEF ResetCancel, shared, store
  <2> QED
    BY <2>1, <2>2, <2>3, <2>4 DEF TypeOK, FlagsType
<1>20. ASSUME NEW timeout \in BOOLEAN, ResetEnd(timeout) PROVE TypeOK'
  <2>1. registered' \in BOOLEAN
    BY <1>20 DEF ResetEnd, TypeOK
  <2>2. reset' \in {"idle", "waiting"}
    BY <1>20 DEF ResetEnd
  <2>3. UNCHANGED <<machine, flags, permit, gate, bridge, buffer, row, text, faults, wire,
                   ackers, watchdog, owner, snapshot, accepted>>
    BY <1>20 DEF ResetEnd, shared, store
  <2> QED
    BY SMTT(60), <2>1, <2>2, <2>3 DEF TypeOK
<1>21. CASE OwnerLoadForced
  <2>1. owner' \in {"idle", "swap", "cancel", "done"}
    BY <1>21 DEF OwnerLoadForced
  <2>2. UNCHANGED <<machine, flags, permit, gate, bridge, buffer, row, text, faults, wire,
                   ackers, watchdog, reset, snapshot, accepted, registered>>
    BY <1>21 DEF OwnerLoadForced, store, OwnerRest
  <2> QED
    BY <2>1, <2>2 DEF TypeOK
<1>22. CASE OwnerSwap
  <2>1. flags' \in FlagsType
    BY Zenon, <1>0, <1>22 DEF OwnerSwap, FlagsType
  <2>2. owner' \in {"idle", "swap", "cancel", "done"}
    BY <1>22 DEF OwnerSwap
  <2>3. UNCHANGED <<machine, permit, gate, bridge, buffer, row, text, faults, wire, ackers,
                   watchdog, reset, snapshot, accepted, registered>>
    BY <1>22 DEF OwnerSwap, store, OwnerRest
  <2> QED
    BY SMTT(60), <2>1, <2>2, <2>3 DEF TypeOK, FlagsType
<1>23. CASE OwnerCancelToken
  <2>1. flags' \in FlagsType
    BY Zenon, <1>0, <1>23 DEF OwnerCancelToken, FlagsType
  <2>2. owner' \in {"idle", "swap", "cancel", "done"}
    BY <1>23 DEF OwnerCancelToken
  <2>3. UNCHANGED <<machine, permit, gate, bridge, buffer, row, text, faults, wire, ackers,
                   watchdog, reset, snapshot, accepted, registered>>
    BY <1>23 DEF OwnerCancelToken, store, OwnerRest
  <2> QED
    BY SMTT(60), <2>1, <2>2, <2>3 DEF TypeOK, FlagsType
<1>24. CASE SnapshotAsk
  <2>1. snapshot' \in [pc : {"idle", "waiting", "reading"}, saw : BOOLEAN]
    BY <1>24 DEF SnapshotAsk, TerminalOnWire
  <2>2. UNCHANGED <<machine, flags, permit, gate, bridge, buffer, row, text, faults, wire,
                   ackers, watchdog, owner, reset, accepted, registered>>
    BY <1>24 DEF SnapshotAsk, store, SnapshotRest
  <2> QED
    BY SMTT(60), <2>1, <2>2 DEF TypeOK
<1>25. CASE SnapshotRead
  <2>1. snapshot' \in [pc : {"idle", "waiting", "reading"}, saw : BOOLEAN]
    BY <1>25 DEF SnapshotRead
  <2>2. machine' \in MachineType
    BY Zenon, <1>0, <1>25, MachineReturned DEF SnapshotRead, MachineType
  <2>3. registered' \in BOOLEAN
    BY <1>25 DEF SnapshotRead, TypeOK
  <2>4. UNCHANGED <<flags, permit, gate, bridge, buffer, row, text, faults, wire, ackers,
                   watchdog, owner, reset, accepted>>
    BY <1>25 DEF SnapshotRead, store, SnapshotRest
  <2> QED
    BY SMTT(60), <2>1, <2>2, <2>3, <2>4 DEF TypeOK
<1>26. ASSUME NEW timeout \in BOOLEAN, SnapshotWaited(timeout) PROVE TypeOK'
  <2>1. snapshot' \in [pc : {"idle", "waiting", "reading"}, saw : BOOLEAN]
    BY Zenon, <1>26 DEF SnapshotWaited, TypeOK
  <2>2. UNCHANGED <<machine, flags, permit, gate, bridge, buffer, row, text, faults, wire,
                   ackers, watchdog, owner, reset, accepted, registered>>
    BY <1>26 DEF SnapshotWaited, store, SnapshotRest
  <2> QED
    BY SMTT(60), <2>1, <2>2 DEF TypeOK
<1> QED
  BY SMTT(60), <1>1, <1>2, <1>3, <1>4, <1>5, <1>6, <1>7, <1>8, <1>9, <1>10, <1>11, <1>12, <1>13, <1>14, <1>15, <1>16, <1>17, <1>18, <1>19, <1>20, <1>21, <1>22, <1>23, <1>24, <1>25, <1>26
  DEF Command, AckStep, Watchdog, Owner, Snapshot
=============================================================================
