------------------------ MODULE StreamBridgeRulings ------------------------
(***************************************************************************)
(* Every step of the bridge keeps the outcome and the text of the          *)
(* invariant of StreamBridgeInv.                                           *)
(***************************************************************************)
EXTENDS StreamBridgeFacts
-----------------------------------------------------------------------------
(* The outcome.                                                            *)

\* No step of the bridge puts out a terminal that the row does not back.
LEMMA BridgeVerdict ==
  ASSUME BInv, Bridge PROVE Verdict'
<1>0. TypeOK /\ Phase /\ Verdict /\ Channel
  BY DEF BInv
<1>a. /\ faults \in Nat /\ faults' \in Nat /\ MaxFaults \in Nat
      /\ machine.sent \in Nat /\ row.durable \in Nat /\ row.delivered \in Nat
      /\ row.status \in RowStatus /\ bridge.outcome \in Outcomes \cup {"none"}
  BY <1>0, Numbers, TypeBridge, ConstantsAssumption DEF TypeOK, RowType, BridgeType
\* Before the terminal event there is nothing to back.
<1>b. ASSUME machine'.terminal = "none", \A i \in 1 .. Len(wire') : wire'[i].kind \in Ordinary
      PROVE  TerminalBackedByRow'
  BY <1>b DEF TerminalBackedByRow, Ordinary, Outcomes
<1>c. bridge.pc \in Looping \cup Waiting \cup Closing =>
        machine.terminal = "none" /\ \A i \in 1 .. Len(wire) : wire[i].kind \in Ordinary
  BY <1>0 DEF Phase, Channel, Looping, Waiting, Closing
<1> USE DEF Looping, Waiting, Closing, Settled, Sending, InSend, Published, Alive
<1>1. CASE \/ SelectFlushRequest \/ SelectFlushTimer \/ RunEnds \/ RefuseEvent
          \/ (\E k \in Ordinary : SelectEvent(k))
          \/ ReserveRefused \/ (\E big, more \in BOOLEAN : FlushCheck(big, more))
          \/ FlushPublish \/ BridgeError
  <2>1. LoopStep
    BY <1>0, <1>1, LoopSteps
  <2> QED
    BY ZenonT(60), <1>0, <1>a, <2>1 DEF Verdict, Ruling, LoopStep, TerminalBackedByRow, CancelWins, IsTerminal
<1>2. CASE Reserve
  <2>1. TerminalBackedByRow'
    BY <1>0, <1>b, <1>c, <1>2, ReserveFacts DEF BridgeMoves
  <2>2. Ruling'
    BY SMTT(60), <1>0, <1>a, <1>2, ReserveFacts DEF BridgeMoves, Verdict, Ruling, CancelWins, IsTerminal, Outcomes, RowStatus
  <2> QED
    BY <2>1, <2>2 DEF Verdict
<1>3. CASE CommitSend /\ bridge.pc = "committed"
  <2>1. TerminalBackedByRow'
    BY <1>0, <1>b, <1>c, <1>3, CommittedFacts DEF BridgeMoves
  <2>2. Ruling'
    BY SMTT(60), <1>0, <1>a, <1>3, CommittedFacts DEF BridgeMoves, Verdict, Ruling, CancelWins, IsTerminal, Outcomes, RowStatus
  <2> QED
    BY <2>1, <2>2 DEF Verdict
<1>4. CASE CommitSend /\ bridge.pc # "committed"
  <2>1. TerminalBackedByRow'
    BY <1>0, <1>b, <1>c, <1>4, RejectedFacts DEF BridgeMoves
  <2>2. Ruling'
    BY SMTT(60), <1>0, <1>a, <1>4, RejectedFacts DEF BridgeMoves, Verdict, Ruling, CancelWins, IsTerminal, Outcomes, RowStatus
  <2> QED
    BY <2>1, <2>2 DEF Verdict
<1>5. CASE Send(TRUE)
  <2>1. /\ BridgeMoves("send", "committed")
        /\ wire' = Append(wire, [seq |-> machine.pending, kind |-> bridge.kind])
        /\ UNCHANGED <<machine, flags, buffer, row, faults, accepted>>
    BY <1>0, <1>5, SentFacts
  <2>2. bridge.kind \in Ordinary /\ wire \in Seq(Event)
    BY <1>0 DEF TypeOK, BridgeType
  <2>3. \A i \in 1 .. Len(wire') : wire'[i].kind \in Ordinary
    BY SMTT(60), <1>c, <2>1, <2>2 DEF BridgeMoves
  <2>4. TerminalBackedByRow'
    BY <1>b, <1>c, <2>1, <2>3 DEF BridgeMoves
  <2>5. Ruling'
    BY Zenon, <1>0, <1>a, <2>1 DEF BridgeMoves, Verdict, Ruling, CancelWins, IsTerminal
  <2> QED
    BY <2>4, <2>5 DEF Verdict
<1>6. CASE Send(FALSE)
  <2>1. /\ BridgeMoves("send", "rejected")
        /\ UNCHANGED <<machine, flags, buffer, row, faults, wire, accepted>>
    BY <1>0, <1>6, UnsentFacts
  <2>2. TerminalBackedByRow'
    BY <1>b, <1>c, <2>1 DEF BridgeMoves
  <2>3. Ruling'
    BY Zenon, <1>0, <1>a, <2>1 DEF BridgeMoves, Verdict, Ruling, CancelWins, IsTerminal
  <2> QED
    BY <2>2, <2>3 DEF Verdict
<1>7. ASSUME NEW f \in Faults, NEW u \in 0 .. MaxUsage, Deliver(f, u) PROVE Verdict'
  <2>1. TerminalBackedByRow'
    BY <1>0, <1>b, <1>c, <1>7, DeliverFacts DEF BridgeMoves
  <2>2. Ruling'
    BY SMTT(60), <1>0, <1>a, <1>7, DeliverFacts DEF BridgeMoves, Verdict, Ruling, CancelWins, IsTerminal, Outcomes, RowStatus
  <2> QED
    BY <2>1, <2>2 DEF Verdict
<1>8. ASSUME NEW f \in Faults, FlushStore(f) PROVE Verdict'
  <2>1. TerminalBackedByRow'
    BY <1>0, <1>b, <1>c, <1>8, FlushStoreFacts DEF BridgeMoves
  <2>2. Ruling'
    BY SMTT(60), <1>0, <1>a, <1>8, FlushStoreFacts DEF BridgeMoves, Verdict, Ruling, CancelWins, IsTerminal, Outcomes, RowStatus
  <2> QED
    BY <2>1, <2>2 DEF Verdict
<1>9. CASE Decide
  <2>1. /\ bridge.pc = "decide" /\ bridge'.pc = "gate"
        /\ UNCHANGED <<machine, flags, buffer, row, faults, wire, accepted>>
    BY <1>0, <1>9, DecideFacts
  <2>2. TerminalBackedByRow'
    BY <1>b, <1>c, <2>1
  <2>3. Ruling'
    BY Zenon, <1>0, <1>a, <2>1 DEF Verdict, Ruling, CancelWins, IsTerminal
  <2> QED
    BY <2>2, <2>3 DEF Verdict
<1>10. CASE EnterTerminal
  <2>1. TerminalBackedByRow'
    BY <1>0, <1>b, <1>c, <1>10, EnterFacts DEF BridgeMoves
  <2>2. Ruling'
    BY SMTT(60), <1>0, <1>a, <1>10, EnterFacts DEF BridgeMoves, Verdict, Ruling, CancelWins, IsTerminal, Outcomes, RowStatus
  <2> QED
    BY <2>1, <2>2 DEF Verdict
<1>11. ASSUME NEW f \in Faults, NEW u \in 0 .. MaxUsage, TerminalDelivery(f, u) PROVE Verdict'
  <2>1. TerminalBackedByRow'
    BY <1>0, <1>b, <1>c, <1>11, TerminalDeliveryFacts DEF BridgeMoves
  <2>2. Ruling'
    BY SMTT(60), <1>0, <1>a, <1>11, TerminalDeliveryFacts DEF BridgeMoves, Verdict, Ruling, CancelWins, IsTerminal, Outcomes, RowStatus
  <2> QED
    BY <2>1, <2>2 DEF Verdict
<1>12. ASSUME NEW f \in Faults, Finish(f) PROVE Verdict'
  <2>1. /\ bridge.pc = "finish" /\ UNCHANGED <<machine, flags, wire, accepted>>
        /\ faults' <= faults
    BY Zenon, <1>0, <1>12, FinishFacts DEF BridgeMoves
  <2>2. TerminalBackedByRow'
    BY <1>b, <1>c, <2>1
  <2>3. buffer.delivered = machine.sent + 1 /\ row.delivered <= machine.sent + 1
    BY <2>1 DEF BInv, Watermarks
  <2>4. ASSUME BridgeMoves("finish", "publishTerminal"), Closed(bridge.outcome) PROVE Ruling'
    BY SMTT(60), <1>0, <1>a, <2>1, <2>3, <2>4 DEF BridgeMoves, Closed, Verdict, Ruling, CancelWins, IsTerminal,
       Phase, Outcomes
  <2>5. ASSUME BridgeMoves("finish", "finish") \/ BridgeMoves("finish", "fail"),
             Closed(bridge.outcome), faults' < faults
        PROVE Ruling'
    BY SMTT(60), <1>0, <1>a, <2>1, <2>3, <2>5 DEF BridgeMoves, Closed, Verdict, Ruling, CancelWins, IsTerminal,
       Phase, Outcomes
  <2>6. ASSUME BridgeMoves("finish", "finish") \/ BridgeMoves("finish", "fail"), UNCHANGED row,
             \/ faults' < faults
             \/ ~CanCheckpoint(row, buffer.durable, TerminalSeq, buffer.usage),
             buffer'.durable = buffer.durable, buffer'.usage = buffer.usage
        PROVE Ruling'
    BY SMTT(60), <1>0, <1>a, <2>1, <2>6 DEF BridgeMoves, Verdict, Ruling, CancelWins, IsTerminal, TerminalSeq
  <2>7. Ruling'
    BY Zenon, <1>0, <1>12, <2>4, <2>5, <2>6, FinishFacts
  <2> QED
    BY <2>2, <2>7 DEF Verdict
<1>13. ASSUME NEW f \in Faults, FailRow(f) PROVE Verdict'
  <2>1. /\ bridge.pc = "fail" /\ UNCHANGED <<machine, flags, wire, accepted>>
        /\ faults' <= faults
    BY <1>0, <1>13, FailRowFacts DEF BridgeMoves
  <2>2. TerminalBackedByRow'
    BY <1>b, <1>c, <2>1
  <2>3. buffer.delivered = machine.sent + 1 /\ row.delivered <= machine.sent + 1
    BY <2>1 DEF BInv, Watermarks
  <2>c. /\ faults <= MaxFaults /\ machine.terminal = "none" /\ (accepted => flags.cancel)
        /\ faults = MaxFaults => ~CanCheckpoint(row, buffer.durable, TerminalSeq, buffer.usage)
        /\ accepted => bridge.outcome = "cancelled"
    BY Zenon, <1>0, <2>1 DEF Verdict, Ruling, Phase
  <2>4. ASSUME bridge'.pc = "publishTerminal", Closed("failed"), bridge'.outcome = "failed",
               CanCheckpoint(row, buffer.durable, TerminalSeq, buffer.usage)
        PROVE  Ruling'
    <3>1. /\ row'.status = "failed" /\ row.status = "running"
          /\ row'.durable = row'.delivered
      BY <1>a, <2>3, <2>4 DEF Closed
    <3>2. faults <= MaxFaults /\ faults # MaxFaults
      BY Zenon, <2>c, <2>4
    <3>3. faults' <= MaxFaults /\ faults' < MaxFaults
      BY <1>a, <2>1, <3>2
    <3>4. faults' # MaxFaults
      BY <1>a, <3>3
    <3> QED
      BY Zenon, <2>1, <2>c, <2>4, <3>1, <3>3, <3>4 DEF Ruling, CancelWins, IsTerminal, Outcomes
  <2>5. ASSUME bridge'.pc = "publishTerminal", UNCHANGED row, row.status # "running",
               bridge'.outcome = ReconciledOutcome(row.status)
        PROVE  Ruling'
    BY SMTT(60), <1>0, <1>a, <2>1, <2>5 DEF Verdict, Ruling, CancelWins, IsTerminal, Phase, Outcomes,
       RowStatus, ReconciledOutcome
  <2>6. ASSUME BridgeMoves("fail", "fail") \/ BridgeMoves("fail", "abort"), Closed("failed"),
               faults' < faults
        PROVE  Ruling'
    <3>1. /\ row'.status = "failed" /\ row'.durable = row'.delivered
      BY <1>a, <2>3, <2>6 DEF Closed
    <3>2. faults' <= MaxFaults /\ faults' < MaxFaults
      BY <1>a, <2>c, <2>6
    <3>3. faults' # MaxFaults
      BY <1>a, <3>2
    <3>4. bridge'.pc \in {"fail", "abort"} /\ bridge'.outcome = bridge.outcome
      BY <2>6 DEF BridgeMoves
    <3> QED
      BY Zenon, <2>1, <2>c, <3>1, <3>2, <3>3, <3>4 DEF Ruling, CancelWins, IsTerminal, Outcomes
  <2>7. ASSUME BridgeMoves("fail", "fail") \/ BridgeMoves("fail", "abort"), UNCHANGED <<row, buffer>>
        PROVE  Ruling'
    BY SMTT(60), <1>0, <1>a, <2>1, <2>7 DEF BridgeMoves, Verdict, Ruling, CancelWins, IsTerminal, TerminalSeq
  <2>8. Ruling'
    BY Zenon, <1>0, <1>13, <2>4, <2>5, <2>6, <2>7, FailRowFacts
  <2> QED
    BY <2>2, <2>8 DEF Verdict
<1>14. CASE PublishTerminal
  <2>1. TerminalBackedByRow'
    BY <1>0, <1>14, PublishFacts DEF BridgeMoves, Verdict, TerminalBackedByRow
  <2>2. Ruling'
    BY SMTT(60), <1>0, <1>a, <1>14, PublishFacts DEF BridgeMoves, Verdict, Ruling, CancelWins, IsTerminal, Outcomes, RowStatus
  <2> QED
    BY <2>1, <2>2 DEF Verdict
<1>15. CASE ReserveTerminal
  <2>1. TerminalBackedByRow'
    BY <1>0, <1>15, ReserveTerminalFacts DEF BridgeMoves, Verdict, TerminalBackedByRow
  <2>2. Ruling'
    BY SMTT(60), <1>0, <1>a, <1>15, ReserveTerminalFacts DEF BridgeMoves, Verdict, Ruling, CancelWins, IsTerminal, Outcomes, RowStatus
  <2> QED
    BY <2>1, <2>2 DEF Verdict
<1>16. CASE SendTerminal(TRUE)
  <2>1. /\ BridgeMoves("sendTerminal", "receipt")
        /\ wire' = Append(wire, [seq |-> machine.pending, kind |-> bridge.outcome])
        /\ UNCHANGED <<machine, flags, buffer, row, faults, accepted>>
    BY <1>0, <1>16, SentTerminalFacts
  <2>2. wire \in Seq(Event) /\ machine.terminal = "none" /\ row.status \in Outcomes
        /\ row.durable = row.delivered /\ (bridge.outcome # "failed" => row.status = bridge.outcome)
        /\ \A i \in 1 .. Len(wire) : wire[i].kind \in Ordinary
    BY Zenon, <1>0, <2>1 DEF TypeOK, BridgeMoves, Phase, Channel, Verdict, Ruling
  <2>3. \A i \in 1 .. Len(wire') : wire'[i].kind \in Ordinary \cup {bridge.outcome}
    BY SMTT(60), <2>1, <2>2
  <2>4. TerminalBackedByRow'
    BY <2>1, <2>2, <2>3 DEF TerminalBackedByRow, Outcomes, Ordinary
  <2>5. Ruling'
    BY <1>0, <1>a, <2>1 DEF BridgeMoves, Verdict, Ruling, CancelWins, IsTerminal
  <2> QED
    BY <2>4, <2>5 DEF Verdict
<1>17. CASE SendTerminal(FALSE)
  <2>1. TerminalBackedByRow'
    BY <1>0, <1>17, UnsentTerminalFacts DEF BridgeMoves, Verdict, TerminalBackedByRow
  <2>2. Ruling'
    BY SMTT(60), <1>0, <1>a, <1>17, UnsentTerminalFacts DEF BridgeMoves, Verdict, Ruling, CancelWins, IsTerminal, Outcomes, RowStatus
  <2> QED
    BY <2>1, <2>2 DEF Verdict
<1>18. CASE PublishReceipt
  <2>a. bridge.pc = "receipt" /\ machine'.terminal = bridge.outcome /\ UNCHANGED <<row, wire>>
    BY <1>0, <1>18, ReceiptFacts DEF BridgeMoves
  <2>b. /\ row.status \in Outcomes /\ row.durable = row.delivered
        /\ bridge.outcome # "failed" => row.status = bridge.outcome
    BY Zenon, <1>0, <2>a DEF Verdict, Ruling
  <2>1. TerminalBackedByRow'
    BY Zenon, <1>0, <2>a, <2>b DEF Verdict, TerminalBackedByRow
  <2>2. Ruling'
    BY SMTT(60), <1>0, <1>a, <1>18, ReceiptFacts DEF BridgeMoves, Verdict, Ruling, CancelWins, IsTerminal, Outcomes, RowStatus
  <2> QED
    BY <2>1, <2>2 DEF Verdict
<1>19. CASE AbortTerminal
  <2>1. TerminalBackedByRow'
    BY <1>0, <1>19, AbortFacts DEF BridgeMoves, Verdict, TerminalBackedByRow
  <2>2. Ruling'
    BY SMTT(60), <1>0, <1>a, <1>19, AbortFacts DEF BridgeMoves, Verdict, Ruling, CancelWins, IsTerminal, Outcomes, RowStatus
  <2> QED
    BY <2>1, <2>2 DEF Verdict
<1>20. CASE RecoverTerminal
  <2>1. TerminalBackedByRow'
    BY <1>0, <1>20, RecoverFacts DEF BridgeMoves, Verdict, TerminalBackedByRow
  <2>2. Ruling'
    BY SMTT(60), <1>0, <1>a, <1>20, RecoverFacts DEF BridgeMoves, Verdict, Ruling, CancelWins, IsTerminal, Outcomes, RowStatus
  <2> QED
    BY <2>1, <2>2 DEF Verdict
<1>21. CASE Retire
  BY Zenon, <1>0, <1>21 DEF Retire, shared, store, Verdict, Ruling, TerminalBackedByRow, CancelWins, IsTerminal, Outcomes, RowStatus
<1> QED
  BY Zenon, <1>1, <1>2, <1>3, <1>4, <1>5, <1>6, <1>7, <1>8, <1>9, <1>10, <1>11, <1>12, <1>13, <1>14, <1>15, <1>16, <1>17, <1>18, <1>19, <1>20, <1>21 DEF Bridge

\* Text that continues where the stored text ends.
LEMMA Joined ==
  ASSUME NEW s \in Seq(Nat), NEW t \in Seq(Nat), NEW d \in Nat, Increasing(s), Increasing(t),
         \A x \in Range(s) : x <= d, \A x \in Range(t) : d < x
  PROVE  Increasing(s \o t) /\ Range(s \o t) = Range(s) \cup Range(t)
<1>1. /\ s \o t \in Seq(Nat) /\ Len(s \o t) = Len(s) + Len(t)
      /\ \A i \in 1 .. Len(s) : (s \o t)[i] = s[i]
      /\ \A i \in 1 .. Len(t) : (s \o t)[Len(s) + i] = t[i]
  OBVIOUS
<1>2. Len(s) \in Nat /\ Len(t) \in Nat /\ DOMAIN s = 1 .. Len(s) /\ DOMAIN t = 1 .. Len(t)
      /\ DOMAIN (s \o t) = 1 .. Len(s) + Len(t)
  BY <1>1
<1>3. \A i \in 1 .. Len(s) + Len(t) :
        \/ i \in 1 .. Len(s)
        \/ i > Len(s) /\ i - Len(s) \in 1 .. Len(t) /\ i = Len(s) + (i - Len(s))
  BY <1>2
<1>4. /\ \A i \in 1 .. Len(s) : s[i] \in Nat /\ s[i] <= d /\ s[i] \in Range(s)
      /\ \A i \in 1 .. Len(t) : t[i] \in Nat /\ d < t[i] /\ t[i] \in Range(t)
  <2>1. (\A i \in 1 .. Len(s) : s[i] \in Range(s)) /\ (\A i \in 1 .. Len(t) : t[i] \in Range(t))
    BY Zenon, <1>2 DEF Range
  <2>2. (\A i \in 1 .. Len(s) : s[i] \in Nat) /\ (\A i \in 1 .. Len(t) : t[i] \in Nat)
    BY SMTT(60), <1>2
  <2> QED
    BY <2>1, <2>2
<1>5. Increasing(s \o t)
  <2> SUFFICES ASSUME NEW i \in 1 .. Len(s) + Len(t), NEW j \in 1 .. Len(s) + Len(t), i < j
               PROVE  (s \o t)[i] < (s \o t)[j]
    BY <1>2 DEF Increasing
  <2>1. CASE j \in 1 .. Len(s)
    <3>1. i \in 1 .. Len(s)
      BY <1>2, <2>1
    <3> QED
      BY Zenon, <1>1, <1>2, <2>1, <3>1 DEF Increasing
  <2>2. CASE i \notin 1 .. Len(s)
    <3>1. j \notin 1 .. Len(s)
      BY <1>2, <1>3, <2>2
    <3>2. i - Len(s) \in 1 .. Len(t) /\ j - Len(s) \in 1 .. Len(t) /\ i - Len(s) < j - Len(s)
          /\ i = Len(s) + (i - Len(s)) /\ j = Len(s) + (j - Len(s))
      BY <1>2, <1>3, <2>2, <3>1
    <3>3. (s \o t)[i] = t[i - Len(s)] /\ (s \o t)[j] = t[j - Len(s)]
      BY <1>1, <3>2
    <3> QED
      BY Zenon, <1>2, <3>2, <3>3 DEF Increasing
  <2>3. CASE i \in 1 .. Len(s) /\ j \notin 1 .. Len(s)
    <3>1. (s \o t)[i] = s[i] /\ s[i] \in Nat /\ s[i] <= d
      BY <1>1, <1>4, <2>3
    <3>2. j - Len(s) \in 1 .. Len(t) /\ j = Len(s) + (j - Len(s))
      BY <1>3, <2>3
    <3>3. (s \o t)[j] = t[j - Len(s)] /\ t[j - Len(s)] \in Nat /\ d < t[j - Len(s)]
      BY <1>1, <1>4, <3>2
    <3> QED
      BY SMTT(60), <3>1, <3>3
  <2> QED
    BY <2>1, <2>2, <2>3
<1>6. Range(s \o t) \subseteq Range(s) \cup Range(t)
  <2> SUFFICES ASSUME NEW i \in 1 .. Len(s) + Len(t)
               PROVE  (s \o t)[i] \in Range(s) \cup Range(t)
    BY <1>2 DEF Range
  <2> QED
    BY <1>1, <1>3, <1>4
<1>7. Range(s) \subseteq Range(s \o t)
  <2>1. \A i \in 1 .. Len(s) : i \in DOMAIN (s \o t) /\ (s \o t)[i] = s[i]
    BY SMTT(60), <1>1, <1>2
  <2> QED
    BY <1>2, <2>1 DEF Range
<1>8. Range(t) \subseteq Range(s \o t)
  <2>1. \A i \in 1 .. Len(t) : Len(s) + i \in DOMAIN (s \o t) /\ (s \o t)[Len(s) + i] = t[i]
    BY <1>1, <1>2
  <2> QED
    BY Zenon, <1>2, <2>1 DEF Range
<1> QED
  BY <1>5, <1>6, <1>7, <1>8

\* Appending a larger number keeps a sequence increasing.
LEMMA Extended ==
  ASSUME NEW s \in Seq(Nat), NEW n \in Nat, Increasing(s), \A x \in Range(s) : x < n
  PROVE  Increasing(Append(s, n)) /\ Range(Append(s, n)) = Range(s) \cup {n}
<1>1. /\ Append(s, n) \in Seq(Nat) /\ Len(Append(s, n)) = Len(s) + 1
      /\ Append(s, n)[Len(s) + 1] = n
      /\ \A i \in 1 .. Len(s) : Append(s, n)[i] = s[i]
  OBVIOUS
<1>2. Len(s) \in Nat /\ DOMAIN s = 1 .. Len(s) /\ DOMAIN Append(s, n) = 1 .. Len(s) + 1
  BY <1>1
<1>3. \A i \in 1 .. Len(s) : s[i] \in Nat /\ s[i] < n
  BY <1>2 DEF Range
<1>4. \A i \in 1 .. Len(s) + 1 : i \in 1 .. Len(s) \/ i = Len(s) + 1
  BY <1>2
<1>5. Increasing(Append(s, n))
  <2> SUFFICES ASSUME NEW i \in 1 .. Len(s) + 1, NEW j \in 1 .. Len(s) + 1, i < j
               PROVE  Append(s, n)[i] < Append(s, n)[j]
    BY <1>2 DEF Increasing
  <2>1. i \in 1 .. Len(s)
    BY <1>2
  <2> QED
    BY <1>1, <1>2, <1>3, <1>4, <2>1 DEF Increasing
<1>6. Range(Append(s, n)) = Range(s) \cup {n}
  <2>1. Range(Append(s, n)) \subseteq Range(s) \cup {n}
    BY <1>1, <1>2, <1>4 DEF Range
  <2>2. Range(s) \subseteq Range(Append(s, n))
    <3>1. \A i \in 1 .. Len(s) : i \in DOMAIN Append(s, n) /\ Append(s, n)[i] = s[i]
      BY <1>1, <1>2
    <3> QED
      BY <1>2, <3>1 DEF Range
  <2>3. n \in Range(Append(s, n))
    <3>1. Len(s) + 1 \in DOMAIN Append(s, n)
      BY <1>2
    <3> QED
      BY <1>1, <3>1 DEF Range
  <2> QED
    BY <2>1, <2>2, <2>3
<1> QED
  BY <1>5, <1>6

\* Storing the buffered text extends the stored text to the durable sequence through.
LEMMA TextStored ==
  ASSUME TypeOK, Texts, NEW through \in Nat, UNCHANGED wire, bridge.pc \notin Published,
         row.durable = buffer.durable, row.durable <= through,
         TextEvents(buffer.durable, buffer.through) = TextEvents(buffer.durable, through),
         row'.durable = through, text' = text \o buffer.text
  PROVE  StoredTextExact'
<1>1. text \in Seq(Nat) /\ buffer.text \in Seq(Nat) /\ row.durable \in Nat
  BY DEF TypeOK, BufferType, RowType
<1>2. /\ Increasing(text) /\ Increasing(buffer.text)
      /\ Range(text) = TextEvents(0, row.durable)
      /\ Range(buffer.text) = TextEvents(row.durable, through)
  BY DEF Texts, StoredTextExact
<1>3. (\A x \in Range(text) : x <= row.durable) /\ (\A x \in Range(buffer.text) : row.durable < x)
  BY <1>2 DEF TextEvents
<1>4. Increasing(text \o buffer.text)
      /\ Range(text \o buffer.text) = Range(text) \cup Range(buffer.text)
  BY Zenon, <1>1, <1>2, <1>3, Joined
<1>5. TextEvents(0, row.durable) \cup TextEvents(row.durable, through) = TextEvents(0, through)
  BY SMTT(60), <1>1 DEF TextEvents
<1>6. TextEvents(0, through)' = TextEvents(0, through)
  BY DEF TextEvents
<1> QED
  BY <1>2, <1>4, <1>5, <1>6 DEF StoredTextExact, Increasing, TextEvents

\* Stored and buffered text are the delivered events after every step of the bridge.
LEMMA BridgeTexts ==
  ASSUME BInv, Bridge PROVE Texts'
<1>0. TypeOK /\ Phase /\ Channel /\ Watermarks /\ Texts
  BY DEF BInv
<1>a. /\ machine.sent \in Nat /\ row.durable \in Nat /\ row.delivered \in Nat
      /\ buffer.durable \in Nat /\ buffer.through \in Nat /\ buffer.delivered \in Nat
      /\ wire \in Seq(Event) /\ Len(wire) \in Nat /\ text \in Seq(Nat)
      /\ buffer.text \in Seq(Nat)
  BY SMTT(60), <1>0, Numbers DEF TypeOK, BufferType
<1> USE DEF Looping, Waiting, Closing, Settled, Sending, InSend, Published
\* Nothing the texts speak of changes.
<1>b. ASSUME UNCHANGED <<text, wire>>, row'.durable = row.durable,
             \/ bridge'.pc \in Published
             \/ /\ bridge.pc \notin Published
                /\ buffer'.text = buffer.text /\ buffer'.durable = buffer.durable
                /\ buffer'.through = buffer.through
      PROVE  Texts'
  BY <1>0, <1>b DEF Texts, StoredTextExact, TextEvents, Increasing
<1>1. CASE \/ SelectFlushRequest \/ SelectFlushTimer \/ RunEnds \/ RefuseEvent
          \/ (\E k \in Ordinary : SelectEvent(k))
          \/ ReserveRefused \/ (\E big, more \in BOOLEAN : FlushCheck(big, more))
          \/ FlushPublish \/ BridgeError
  <2>1. LoopStep
    BY <1>0, <1>1, LoopSteps
  <2> QED
    BY <1>b, <2>1 DEF LoopStep
<1>2. CASE Reserve
  BY <1>0, <1>b, <1>2, ReserveFacts DEF BridgeMoves
<1>3. CASE CommitSend /\ bridge.pc = "committed"
  BY <1>0, <1>b, <1>3, CommittedFacts DEF BridgeMoves
<1>4. CASE CommitSend /\ bridge.pc # "committed"
  BY <1>0, <1>b, <1>4, RejectedFacts DEF BridgeMoves
<1>5. CASE Send(TRUE)
  <2>1. /\ BridgeMoves("send", "committed") /\ UNCHANGED <<machine, row, buffer, text>>
        /\ wire' = Append(wire, [seq |-> machine.pending, kind |-> bridge.kind])
    BY <1>0, <1>5, SentFacts
  <2>2. Len(wire) = machine.sent
    BY <1>0, <2>1 DEF Channel, BridgeMoves
  <2>3. /\ Len(wire') = machine.sent + 1 /\ wire'[machine.sent + 1].kind = bridge.kind
        /\ \A i \in 1 .. machine.sent : wire'[i] = wire[i]
    BY SMTT(60), <1>a, <2>1, <2>2
  <2>4. \A a, b \in Nat : b <= machine.sent => TextEvents(a, b)' = TextEvents(a, b)
    BY SMTT(60), <1>a, <2>2, <2>3 DEF TextEvents
  <2>5. row.durable <= machine.sent /\ buffer.through <= machine.sent
    BY SMTT(60), <1>0, <1>a, <2>1 DEF Watermarks, RowOrdered, BridgeMoves, Alive
  <2>6. /\ TextEvents(0, row.durable)' = TextEvents(0, row.durable)
        /\ TextEvents(buffer.durable, buffer.through)' = TextEvents(buffer.durable, buffer.through)
    BY <1>a, <2>1, <2>4, <2>5
  <2> QED
    BY <1>0, <2>1, <2>6 DEF Texts, StoredTextExact, Increasing, BridgeMoves
<1>6. CASE Send(FALSE)
  BY <1>0, <1>b, <1>6, UnsentFacts DEF BridgeMoves
<1>7. ASSUME NEW f \in Faults, NEW u \in 0 .. MaxUsage, Deliver(f, u) PROVE Texts'
  <2>1. CASE BridgeMoves("deliver", "error") /\ buffer' = buffer
    BY <1>0, <1>b, <1>7, <2>1, DeliverFacts DEF BridgeMoves
  <2>2. CASE ~(BridgeMoves("deliver", "error") /\ buffer' = buffer)
    <3>1. /\ bridge.pc = "deliver" /\ bridge'.pc \in {"check", "recheck"}
          /\ buffer.delivered + 1 = machine.sent /\ row'.durable = row.durable
          /\ buffer'.through = machine.sent /\ buffer'.durable = buffer.durable
          /\ buffer'.text = IF bridge.kind = "text" THEN Append(buffer.text, machine.sent)
                            ELSE buffer.text
          /\ UNCHANGED <<text, wire, machine>>
      BY Zenon, <1>0, <1>7, <2>2, DeliverFacts
    <3>a. /\ buffer.durable <= buffer.through
          /\ IF buffer.delivered <= machine.sent THEN buffer.through = buffer.delivered
             ELSE buffer.through \in {machine.sent, machine.sent + 1}
      BY Zenon, <1>0, <3>1 DEF Watermarks
    <3>2. buffer.through = machine.sent - 1 /\ buffer.durable < machine.sent
      BY SMTT(60), <1>a, <3>1, <3>a
    <3>3. machine.sent > 0 /\ Len(wire) = machine.sent /\ wire[machine.sent].kind = bridge.kind
      BY Zenon, <1>0, <3>1 DEF Channel
    <3>4. Increasing(buffer.text) /\ Range(buffer.text) = TextEvents(buffer.durable, machine.sent - 1)
      BY <1>0, <3>1, <3>2 DEF Texts
    <3>5. TextEvents(buffer.durable, machine.sent) =
            TextEvents(buffer.durable, machine.sent - 1)
              \cup (IF bridge.kind = "text" THEN {machine.sent} ELSE {})
      BY SMTT(60), <1>a, <3>2, <3>3 DEF TextEvents
    <3>6. \A x \in Range(buffer.text) : x < machine.sent
      BY SMTT(60), <1>a, <3>4 DEF TextEvents
    <3>7. Increasing(buffer'.text) /\ Range(buffer'.text) = TextEvents(buffer.durable, machine.sent)
      <4>1. CASE bridge.kind = "text"
        BY Zenon, <1>a, <3>1, <3>4, <3>5, <3>6, <4>1, Extended
      <4>2. CASE bridge.kind # "text"
        BY <3>1, <3>4, <3>5, <4>2
      <4> QED
        BY <4>1, <4>2
    <3>8. StoredTextExact'
      BY Zenon, <1>0, <3>1 DEF Texts, StoredTextExact, TextEvents, Increasing
    <3>9. TextEvents(buffer.durable, buffer.through)' = TextEvents(buffer.durable, machine.sent)
      BY Zenon, <3>1 DEF TextEvents
    <3> QED
      BY <3>7, <3>8, <3>9 DEF Texts, Increasing
  <2> QED
    BY <2>1, <2>2
<1>8. ASSUME NEW f \in Faults, FlushStore(f) PROVE Texts'
  <2>1. bridge.pc = "flush" /\ bridge'.pc \in {"publish", "error"} /\ UNCHANGED wire
    BY Zenon, <1>0, <1>8, FlushStoreFacts DEF BridgeMoves
  <2>2. CASE row'.durable = row.durable /\ text' = text /\ buffer' = buffer
    BY <1>b, <2>1, <2>2
  <2>3. CASE ~(row'.durable = row.durable /\ text' = text /\ buffer' = buffer)
    <3>1. /\ row.durable = buffer.durable /\ buffer.durable < buffer.through
          /\ row'.durable = buffer.through /\ text' = text \o buffer.text
          /\ \/ UNCHANGED buffer
             \/ /\ buffer'.through = buffer.through /\ buffer'.durable = buffer.through
                /\ buffer'.text = <<>>
      BY Zenon, <1>0, <1>a, <1>8, <2>3, FlushStoreFacts
    <3>2. StoredTextExact'
      BY SMTT(60), <1>0, <1>a, <2>1, <3>1, TextStored
    <3>3. CASE UNCHANGED buffer
      BY <1>0, <2>1, <3>2, <3>3 DEF Texts, TextEvents, Increasing
    <3>4. CASE buffer'.through = buffer'.durable /\ buffer'.text = <<>>
      <4>1. Increasing(<<>>) /\ Range(<<>>) = {}
        BY DEF Increasing, Range
      <4>2. TextEvents(buffer.durable, buffer.through)' = {}
        BY SMTT(60), <1>a, <3>1, <3>4 DEF TextEvents
      <4> QED
        BY <3>2, <3>4, <4>1, <4>2 DEF Texts, Increasing
    <3> QED
      BY <3>1, <3>3, <3>4
  <2> QED
    BY Zenon, <2>2, <2>3
<1>9. CASE Decide
  BY <1>0, <1>b, <1>9, DecideFacts DEF BridgeMoves
<1>10. CASE EnterTerminal
  BY <1>0, <1>b, <1>10, EnterFacts DEF BridgeMoves
<1>11. ASSUME NEW f \in Faults, NEW u \in 0 .. MaxUsage, TerminalDelivery(f, u) PROVE Texts'
  BY Zenon, <1>0, <1>b, <1>11, TerminalDeliveryFacts DEF BridgeMoves
<1>12. ASSUME NEW f \in Faults, Finish(f) PROVE Texts'
  <2>1. /\ bridge.pc = "finish" /\ bridge'.pc \in {"publishTerminal", "finish", "fail"}
        /\ UNCHANGED <<wire, machine>> /\ buffer'.through = machine.sent + 1
        /\ bridge'.pc # "publishTerminal" =>
             buffer'.durable = buffer.durable /\ buffer'.text = buffer.text
        /\ Closed(bridge.outcome) \/ UNCHANGED <<row, text>>
    BY Zenon, <1>0, <1>12, FinishFacts DEF BridgeMoves
  <2>2. Len(wire) = machine.sent /\ buffer.through \in {machine.sent, machine.sent + 1}
    BY Zenon, <1>0, <1>a, <2>1 DEF Channel, Watermarks
  <2>3. TextEvents(buffer.durable, buffer.through) = TextEvents(buffer.durable, machine.sent + 1)
    BY SMTT(60), <1>a, <2>2 DEF TextEvents
  <2>4. StoredTextExact'
    <3>1. CASE Closed(bridge.outcome)
      BY SMTT(60), <1>0, <1>a, <2>1, <2>3, <3>1, TextStored DEF Closed
    <3>2. CASE UNCHANGED <<row, text>>
      BY Zenon, <1>0, <2>1, <3>2 DEF Texts, StoredTextExact, TextEvents, Increasing
    <3> QED
      BY <2>1, <3>1, <3>2
  <2>5. CASE bridge'.pc = "publishTerminal"
    BY <2>4, <2>5 DEF Texts
  <2>6. CASE bridge'.pc # "publishTerminal"
    <3>1. /\ Increasing(buffer.text)
          /\ Range(buffer.text) = TextEvents(buffer.durable, machine.sent + 1)
      BY Zenon, <1>0, <2>1, <2>3 DEF Texts
    <3>2. TextEvents(buffer.durable, buffer.through)' = TextEvents(buffer.durable, machine.sent + 1)
      BY <2>1, <2>6 DEF TextEvents
    <3> QED
      BY <2>1, <2>4, <2>6, <3>1, <3>2 DEF Texts, Increasing
  <2> QED
    BY <2>5, <2>6
<1>13. ASSUME NEW f \in Faults, FailRow(f) PROVE Texts'
  <2>1. /\ bridge.pc = "fail" /\ bridge'.pc \in {"publishTerminal", "fail", "abort"}
        /\ UNCHANGED <<wire, machine>>
        /\ bridge'.pc # "publishTerminal" => UNCHANGED buffer
        /\ Closed("failed") \/ UNCHANGED <<row, text>>
    BY Zenon, <1>0, <1>13, FailRowFacts DEF BridgeMoves
  <2>2. buffer.through = machine.sent + 1
    BY <1>0, <2>1 DEF Watermarks
  <2>3. StoredTextExact'
    <3>1. CASE Closed("failed")
      BY SMTT(60), <1>0, <1>a, <2>1, <2>2, <3>1, TextStored DEF Closed
    <3>2. CASE UNCHANGED <<row, text>>
      BY <1>0, <2>1, <3>2 DEF Texts, StoredTextExact, TextEvents, Increasing
    <3> QED
      BY <2>1, <3>1, <3>2
  <2> QED
    BY Zenon, <1>0, <2>1, <2>3 DEF Texts, TextEvents, Increasing
<1>14. CASE PublishTerminal
  BY <1>0, <1>b, <1>14, PublishFacts DEF BridgeMoves
<1>15. CASE ReserveTerminal
  BY <1>0, <1>b, <1>15, ReserveTerminalFacts DEF BridgeMoves
<1>16. CASE SendTerminal(TRUE)
  <2>1. /\ BridgeMoves("sendTerminal", "receipt") /\ UNCHANGED <<machine, row, buffer, text>>
        /\ wire' = Append(wire, [seq |-> machine.pending, kind |-> bridge.outcome])
    BY <1>0, <1>16, SentTerminalFacts
  <2>2. Len(wire) = machine.sent
    BY Zenon, <1>0, <2>1 DEF Channel, BridgeMoves
  <2>3. /\ Len(wire') = machine.sent + 1 /\ wire'[machine.sent + 1].kind = bridge.outcome
        /\ \A i \in 1 .. machine.sent : wire'[i] = wire[i]
    BY SMTT(60), <1>a, <2>1, <2>2
  <2>4. bridge.outcome # "text"
    BY <1>0, <2>1 DEF Phase, BridgeMoves, Outcomes
  <2>a. machine.sent \in Nat /\ Len(wire) = machine.sent /\ Len(wire') = machine.sent + 1
    BY <1>a, <2>2, <2>3
  <2>b. \A i \in 1 .. machine.sent : i \in 1 .. machine.sent + 1 /\ wire'[i].kind = wire[i].kind
    BY <2>a, <2>3
  <2>c. \A i \in 1 .. machine.sent + 1 : i \in 1 .. machine.sent \/ wire'[i].kind # "text"
    BY <2>a, <2>3, <2>4
  <2>5. \A b \in Nat : TextEvents(0, b)' = TextEvents(0, b)
    BY Zenon, <2>a, <2>b, <2>c DEF TextEvents
  <2>6. TextEvents(0, row.durable)' = TextEvents(0, row.durable)
    BY <1>a, <2>1, <2>5
  <2> QED
    BY Zenon, <1>0, <2>1, <2>6 DEF Texts, StoredTextExact, Increasing, BridgeMoves
<1>17. CASE SendTerminal(FALSE)
  BY <1>0, <1>b, <1>17, UnsentTerminalFacts DEF BridgeMoves
<1>18. CASE PublishReceipt
  BY <1>0, <1>b, <1>18, ReceiptFacts DEF BridgeMoves
<1>19. CASE AbortTerminal
  BY <1>0, <1>b, <1>19, AbortFacts DEF BridgeMoves
<1>20. CASE RecoverTerminal
  BY <1>0, <1>b, <1>20, RecoverFacts DEF BridgeMoves
<1>21. CASE Retire
  BY <1>b, <1>21 DEF Retire, store
<1> QED
  BY Zenon, <1>1, <1>2, <1>3, <1>4, <1>5, <1>6, <1>7, <1>8, <1>9, <1>10, <1>11, <1>12, <1>13, <1>14, <1>15, <1>16, <1>17, <1>18, <1>19, <1>20, <1>21 DEF Bridge
=============================================================================
