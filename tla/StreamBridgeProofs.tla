------------------------- MODULE StreamBridgeProofs -------------------------
(***************************************************************************)
(* The bridge of one provider stream, for any number of concurrent         *)
(* acknowledgements, any window, any retry count and any storage faults:   *)
(* journal, machine and buffer agree, the stored text is exact, a terminal *)
(* is backed by its row, the client is told the truth, and a client that   *)
(* stops acknowledging is noticed.  The steps of the bridge are in         *)
(* StreamBridgeSteps and StreamBridgeRulings, the commands and the crash   *)
(* are here.                                                               *)
(***************************************************************************)
EXTENDS StreamBridgeSteps, StreamBridgeRulings
-----------------------------------------------------------------------------
(* What a command leaves alone.                                            *)

\* Commands never touch what the bridge owns: the sequence numbers, the commit state and the
\* outcome of the row; the atomics and the lease only ever go up.
Quiet ==
  /\ UNCHANGED <<bridge, buffer, wire, text>>
  /\ machine'.sent = machine.sent /\ machine'.durable = machine.durable
  /\ machine'.pending = machine.pending /\ machine'.terminal = machine.terminal
  /\ machine'.committing = machine.committing
  /\ row'.status = row.status /\ row'.delivered = row.delivered
  /\ row'.durable = row.durable /\ row'.usage = row.usage
  /\ gate' = "bridge" <=> gate = "bridge"
  /\ faults' <= faults
  /\ flags.cancel => flags'.cancel
  /\ flags.token => flags'.token
  /\ machine.lease => machine'.lease

\* A command leaves the bridge task, the channel and the stored text alone.
LEMMA CommandQuiet ==
  ASSUME TypeOK, \A a \in Acker : AckerHolds(a), Command PROVE Quiet
<1>0. /\ machine \in MachineType /\ ackers \in AckersType /\ flags \in FlagsType
      /\ row \in RowType /\ faults \in Nat
  BY DEF TypeOK, FlagsType, AckersType, AckerType
<1>a. \A a \in Acker : a # "free" /\ a # "bridge"
  BY ConstantsAssumption
<1>b. \A a \in Acker : ackers[a].pc \notin {"idle", "gate"} => gate = a
  BY DEF AckerHolds
<1> USE DEF Quiet
<1>1. ASSUME NEW a \in Acker, NEW seq \in Nat, Ack(a, seq) PROVE Quiet
  BY SMTT(60), <1>0, <1>1 DEF Ack, shared, store, AckRest
<1>2. ASSUME NEW a \in Acker, AckGate(a) PROVE Quiet
  BY SMTT(60), <1>0, <1>a, <1>b, <1>2 DEF AckGate, shared, store, AckRest
<1>3. ASSUME NEW a \in Acker, AckPending(a) PROVE Quiet
  BY SMTT(60), <1>0, <1>3 DEF AckPending, shared, store, AckRest
<1>4. ASSUME NEW a \in Acker, AckPendingWake(a) PROVE Quiet
  BY SMTT(60), <1>0, <1>4 DEF AckPendingWake, shared, store, AckRest
<1>5. ASSUME NEW a \in Acker, AckPendingGiveUp(a) PROVE Quiet
  BY SMTT(60), <1>0, <1>a, <1>b, <1>5 DEF AckPendingGiveUp, AckReturn, shared, store, AckRest
<1>6. ASSUME NEW a \in Acker, AckValidate(a) PROVE Quiet
  <2>1. machine' \in {machine, RequestFlush(machine, ackers[a].seq)}
    BY <1>6 DEF AckValidate
  <2>2. /\ machine'.sent = machine.sent /\ machine'.durable = machine.durable
        /\ machine'.pending = machine.pending /\ machine'.terminal = machine.terminal
        /\ machine'.committing = machine.committing /\ machine'.lease = machine.lease
    BY Zenon, <1>0, <2>1 DEF RequestFlush, MachineType
  <2>3. UNCHANGED <<flags, row, text, faults, bridge, buffer, wire>> /\ gate' \in {gate, "free"}
    BY <1>6 DEF AckValidate, AckReturn, store, AckRest
  <2> QED
    BY SMTT(60), <1>0, <1>a, <1>b, <1>6, <2>2, <2>3 DEF AckValidate
<1>7. ASSUME NEW a \in Acker, AckBarrier(a) PROVE Quiet
  BY <1>0, <1>a, <1>b, <1>7 DEF AckBarrier, AckReturn, AckGoTo, shared, store, AckRest
<1>8. ASSUME NEW a \in Acker, AckBarrierWake(a) PROVE Quiet
  BY SMTT(60), <1>0, <1>8 DEF AckBarrierWake, shared, store, AckRest
<1>9. ASSUME NEW a \in Acker, AckBarrierCancelled(a) PROVE Quiet
  BY SMTT(60), <1>0, <1>a, <1>b, <1>9 DEF AckBarrierCancelled, AckReturn, shared, store, AckRest
<1>10. ASSUME NEW a \in Acker, AckBarrierTimeout(a) PROVE Quiet
  BY SMTT(60), <1>0, <1>10 DEF AckBarrierTimeout, shared, store, AckRest
<1>11. ASSUME NEW a \in Acker, NEW f \in Faults, AckPersist(a, f) PROVE Quiet
  BY <1>0, <1>11 DEF AckPersist, AckGoTo, Outcome, AckedRow, RowType, MachineType, shared, store, AckRest
<1>12. ASSUME NEW a \in Acker, AckRecord(a) PROVE Quiet
  BY <1>0, <1>a, <1>b, <1>12 DEF AckRecord, AckReturn, RecordAckProgress, MachineType, shared, store, AckRest
<1>13. ASSUME NEW a \in Acker, ForceFailure(a) PROVE Quiet
  BY <1>0, <1>13 DEF ForceFailure, AckGoTo, MachineType, FlagsType, shared, store, AckRest
<1>14. ASSUME NEW a \in Acker, NEW waiting \in BOOLEAN, ForceCancel(a, waiting) PROVE Quiet
  BY <1>0, <1>a, <1>b, <1>14 DEF ForceCancel, AckReturn, FlagsType, shared, store, AckRest
<1>15. CASE WatchdogFire
  BY <1>0, <1>15 DEF WatchdogFire, MachineType, FlagsType, shared, store
<1>16. CASE WatchdogCancel
  BY <1>0, <1>16 DEF WatchdogCancel, FlagsType, shared, store
<1>17. CASE WatchdogExit
  BY SMTT(60), <1>0, <1>17 DEF WatchdogExit, shared, store
<1>18. CASE Cancel
  BY <1>0, <1>18 DEF Cancel, LockedCancel, FlagsType, shared, store
<1>19. CASE ResetCancel
  BY <1>0, <1>19 DEF ResetCancel, LockedCancel, FlagsType, shared, store
<1>20. ASSUME NEW timeout \in BOOLEAN, ResetEnd(timeout) PROVE Quiet
  BY <1>0, <1>20 DEF ResetEnd, shared, store
<1>21. CASE OwnerLoadForced
  BY SMTT(60), <1>0, <1>21 DEF OwnerLoadForced, store, OwnerRest
<1>22. CASE OwnerSwap
  BY <1>0, <1>22 DEF OwnerSwap, FlagsType, store, OwnerRest
<1>23. CASE OwnerCancelToken
  BY <1>0, <1>23 DEF OwnerCancelToken, FlagsType, store, OwnerRest
<1>24. CASE SnapshotAsk
  BY SMTT(60), <1>0, <1>24 DEF SnapshotAsk, store, SnapshotRest
<1>25. CASE SnapshotRead
  BY <1>0, <1>25 DEF SnapshotRead, MachineType, store, SnapshotRest
<1>26. ASSUME NEW timeout \in BOOLEAN, SnapshotWaited(timeout) PROVE Quiet
  BY <1>0, <1>26 DEF SnapshotWaited, store, SnapshotRest
<1> HIDE DEF Quiet
<1> QED
  BY SMTT(60), <1>1, <1>2, <1>3, <1>4, <1>5, <1>6, <1>7, <1>8, <1>9, <1>10, <1>11, <1>12, <1>13, <1>14, <1>15, <1>16, <1>17, <1>18, <1>19, <1>20, <1>21, <1>22, <1>23, <1>24, <1>25, <1>26
  DEF Command, AckStep, Watchdog, Owner, Snapshot

\* What a command does to the acknowledgements: they advance, within what was sent, the
\* journal first; and what is in flight keeps the deadline armed.
Acks ==
  /\ row'.acked <= row.durable
  /\ Alive => /\ machine.acked <= machine'.acked /\ machine'.acked <= machine.sent
              /\ machine'.acked <= machine'.persistedAcked
              /\ machine'.persistedAcked <= row'.acked
  /\ bridge.pc \notin {"done", "crashed"} /\ machine.sent > machine'.acked => machine'.armed

\* A command moves the acknowledged watermarks forward only, and within what is durable.
LEMMA CommandAcks ==
  ASSUME BInv, Command PROVE Acks
<1>0. /\ machine \in MachineType /\ ackers \in AckersType /\ flags \in FlagsType
      /\ row \in RowType
  BY DEF BInv, TypeOK, FlagsType, AckersType, AckerType
<1>a. /\ row.acked <= row.durable
      /\ Alive => /\ machine.acked <= machine.sent /\ machine.acked <= machine.persistedAcked
                  /\ machine.persistedAcked <= row.acked
  BY DEF BInv, Channel, Watermarks, RowOrdered
<1>b. bridge.pc \notin {"done", "crashed"} /\ machine.sent > machine.acked => machine.armed
  BY SMTT(60), <1>0 DEF BInv, Watchers, InFlight, MachineType, None
<1>c. /\ machine.sent \in Nat /\ machine.acked \in Int /\ machine.persistedAcked \in Nat
      /\ row.acked \in Nat /\ row.durable \in Nat
  BY <1>0 DEF MachineType, RowType, None
<1>d. ASSUME machine'.acked = machine.acked, machine'.persistedAcked = machine.persistedAcked,
             machine'.armed = machine.armed, row' = row
      PROVE  Acks
  BY SMTT(60), <1>a, <1>b, <1>c, <1>d DEF Acks
<1>1. ASSUME NEW a \in Acker, NEW seq \in Nat, Ack(a, seq) PROVE Acks
  BY <1>0, <1>d, <1>1 DEF Ack, shared, store, AckRest
<1>2. ASSUME NEW a \in Acker, AckGate(a) PROVE Acks
  BY <1>0, <1>d, <1>2 DEF AckGate, shared, store, AckRest
<1>3. ASSUME NEW a \in Acker, AckPending(a) PROVE Acks
  BY <1>0, <1>d, <1>3 DEF AckPending, shared, store, AckRest
<1>4. ASSUME NEW a \in Acker, AckPendingWake(a) PROVE Acks
  BY <1>0, <1>d, <1>4 DEF AckPendingWake, shared, store, AckRest
<1>5. ASSUME NEW a \in Acker, AckPendingGiveUp(a) PROVE Acks
  BY <1>0, <1>d, <1>5 DEF AckPendingGiveUp, shared, store, AckRest
<1>6. ASSUME NEW a \in Acker, AckValidate(a) PROVE Acks
  <2>1. machine' \in {machine, RequestFlush(machine, ackers[a].seq)} /\ row' = row
    BY <1>6 DEF AckValidate, store
  <2>2. /\ machine'.acked = machine.acked /\ machine'.persistedAcked = machine.persistedAcked
        /\ machine.armed => machine'.armed
    BY Zenon, <1>0, <2>1 DEF RequestFlush, MachineType
  <2> QED
    BY SMTT(60), <1>a, <1>b, <1>c, <2>1, <2>2 DEF Acks
<1>7. ASSUME NEW a \in Acker, AckBarrier(a) PROVE Acks
  BY <1>0, <1>d, <1>7 DEF AckBarrier, shared, store, AckRest
<1>8. ASSUME NEW a \in Acker, AckBarrierWake(a) PROVE Acks
  BY <1>0, <1>d, <1>8 DEF AckBarrierWake, shared, store, AckRest
<1>9. ASSUME NEW a \in Acker, AckBarrierCancelled(a) PROVE Acks
  BY <1>0, <1>d, <1>9 DEF AckBarrierCancelled, shared, store, AckRest
<1>10. ASSUME NEW a \in Acker, AckBarrierTimeout(a) PROVE Acks
  BY <1>0, <1>d, <1>10 DEF AckBarrierTimeout, shared, store, AckRest
<1>11. ASSUME NEW a \in Acker, NEW f \in Faults, AckPersist(a, f) PROVE Acks
  <2>1. ackers[a].seq \in Nat
    BY <1>0 DEF AckersType, AckerType
  <2>2. CASE machine' = machine /\ row' = row
    BY <1>d, <2>2
  <2>3. CASE CanAck(row, machine.persistedAcked, ackers[a].seq) /\ row' = AckedRow(row, ackers[a].seq)
    <3>1. row'.acked = ackers[a].seq /\ ackers[a].seq <= row.durable
          /\ ackers[a].seq > machine.persistedAcked
      BY <1>0, <2>3 DEF CanAck, AckedRow, RowType
    <3>2. /\ machine'.acked = machine.acked /\ machine'.armed = machine.armed
          /\ machine'.persistedAcked \in {machine.persistedAcked, ackers[a].seq}
      BY <1>0, <1>11 DEF AckPersist, MachineType
    <3> QED
      BY SMTT(60), <1>a, <1>b, <1>c, <2>1, <3>1, <3>2 DEF Acks
  <2> QED
    BY <1>11, <2>2, <2>3 DEF AckPersist
<1>12. ASSUME NEW a \in Acker, AckRecord(a) PROVE Acks
  <2>1. /\ ackers[a].seq \in Nat /\ machine.acked < ackers[a].seq
        /\ ackers[a].seq <= machine.sent /\ ackers[a].seq <= machine.persistedAcked
    BY <1>0, <1>12 DEF AckRecord, BInv, AckerHolds, AckersType, AckerType
  <2>2. /\ machine'.acked = ackers[a].seq /\ machine'.persistedAcked = machine.persistedAcked
        /\ machine.sent > ackers[a].seq => machine'.armed
    BY Zenon, <1>0, <1>12, <2>1 DEF AckRecord, RecordAckProgress, MachineType
  <2>3. row' = row
    BY <1>12 DEF AckRecord, store
  <2> QED
    BY SMTT(60), <1>a, <1>b, <1>c, <2>1, <2>2, <2>3 DEF Acks
<1>13. ASSUME NEW a \in Acker, ForceFailure(a) PROVE Acks
  BY <1>0, <1>d, <1>13 DEF ForceFailure, MachineType, shared, store, AckRest
<1>14. ASSUME NEW a \in Acker, NEW waiting \in BOOLEAN, ForceCancel(a, waiting) PROVE Acks
  BY <1>0, <1>d, <1>14 DEF ForceCancel, shared, store, AckRest
<1>15. CASE WatchdogFire
  BY Zenon, <1>0, <1>d, <1>15 DEF WatchdogFire, MachineType, shared, store
<1>16. CASE WatchdogCancel
  BY <1>0, <1>d, <1>16 DEF WatchdogCancel, shared, store
<1>17. CASE WatchdogExit
  BY <1>0, <1>d, <1>17 DEF WatchdogExit, shared, store
<1>18. CASE Cancel
  BY <1>0, <1>d, <1>18 DEF Cancel, shared, store
<1>19. CASE ResetCancel
  BY <1>0, <1>d, <1>19 DEF ResetCancel, shared, store
<1>20. ASSUME NEW timeout \in BOOLEAN, ResetEnd(timeout) PROVE Acks
  BY <1>0, <1>d, <1>20 DEF ResetEnd, shared, store
<1>21. CASE OwnerLoadForced
  BY <1>0, <1>d, <1>21 DEF OwnerLoadForced, store, OwnerRest
<1>22. CASE OwnerSwap
  BY <1>0, <1>d, <1>22 DEF OwnerSwap, store, OwnerRest
<1>23. CASE OwnerCancelToken
  BY <1>0, <1>d, <1>23 DEF OwnerCancelToken, store, OwnerRest
<1>24. CASE SnapshotAsk
  BY <1>0, <1>d, <1>24 DEF SnapshotAsk, store, SnapshotRest
<1>25. CASE SnapshotRead
  BY <1>0, <1>d, <1>25 DEF SnapshotRead, MachineType, store, SnapshotRest
<1>26. ASSUME NEW timeout \in BOOLEAN, SnapshotWaited(timeout) PROVE Acks
  BY <1>0, <1>d, <1>26 DEF SnapshotWaited, store, SnapshotRest
<1> QED
  BY SMTT(60), <1>1, <1>2, <1>3, <1>4, <1>5, <1>6, <1>7, <1>8, <1>9, <1>10, <1>11, <1>12, <1>13, <1>14, <1>15, <1>16, <1>17, <1>18, <1>19, <1>20, <1>21, <1>22, <1>23, <1>24, <1>25, <1>26
  DEF Command, AckStep, Watchdog, Owner, Snapshot
-----------------------------------------------------------------------------
(* A command keeps the invariant.                                          *)

\* The position of the bridge keeps its meaning across a command.
LEMMA CommandPhase ==
  ASSUME BInv, Command PROVE Phase'
<1>1. Quiet
  BY CommandQuiet DEF BInv
<1> QED
  BY <1>1 DEF BInv, Phase, Quiet

\* The channel and its window, across a command.
LEMMA CommandChannel ==
  ASSUME BInv, Command PROVE Channel'
<1>1. Quiet /\ Acks
  BY CommandQuiet, CommandAcks DEF BInv
<1>0. machine \in MachineType /\ machine' \in MachineType
  BY TypeCommand DEF BInv, TypeOK
<1>2. machine.sent \in Nat /\ machine.acked \in Int /\ machine'.acked \in Int
  BY <1>0 DEF MachineType, None
<1>3. MaxInFlight \in Nat
  BY ConstantsAssumption
<1>4. Alive' =>
       /\ machine'.acked <= machine'.sent
       /\ machine'.sent - machine'.acked <= MaxInFlight + (IF bridge'.pc = "done" THEN 1 ELSE 0)
  BY SMTT(60), <1>1, <1>2, <1>3 DEF BInv, Channel, Quiet, Acks, Alive
<1>a. /\ bridge'.pc = bridge.pc /\ machine'.sent = machine.sent
      /\ bridge.pc \in InSend => Alive /\ machine.sent + 1 - machine.acked <= MaxInFlight
  BY <1>1 DEF BInv, Channel, Quiet, Alive, InSend
<1>b. bridge.pc \in InSend => machine.acked <= machine'.acked
  BY <1>1, <1>a DEF Acks
<1>5. bridge'.pc \in InSend => machine'.sent + 1 - machine'.acked <= MaxInFlight
  BY <1>2, <1>3, <1>a, <1>b
<1> QED
  BY <1>1, <1>4, <1>5 DEF BInv, Channel, Quiet, Alive

\* The watermarks, across a command.
LEMMA CommandWatermarks ==
  ASSUME BInv, Command PROVE Watermarks'
<1>1. Quiet /\ Acks
  BY CommandQuiet, CommandAcks DEF BInv
<1> QED
  BY <1>1 DEF BInv, Watermarks, Quiet, Acks, RowOrdered, Alive

\* The outcome and its ruling, across a command: a cancel is accepted before the commit only.
LEMMA CommandVerdict ==
  ASSUME BInv, Command PROVE Verdict'
<1>1. Quiet
  BY CommandQuiet DEF BInv
<1>2. accepted' => \/ accepted
                   \/ machine.terminal = "none" /\ ~machine.committing /\ flags'.cancel
  <2>1. CASE UNCHANGED accepted
    BY <2>1
  <2>2. CASE LockedCancel
    <3>1. flags \in FlagsType
      BY DEF BInv, TypeOK, FlagsType
    <3> QED
      BY Zenon, <2>2, <3>1 DEF LockedCancel, IsTerminal, FlagsType
  <2>3. (Cancel \/ ResetCancel => LockedCancel) /\ (~(Cancel \/ ResetCancel) => UNCHANGED accepted)
    BY Zenon DEF Cancel, ResetCancel, Command, AckStep, Watchdog, Owner, Snapshot, Ack, AckGate, AckPending,
       AckPendingWake, AckPendingGiveUp, AckValidate, AckBarrier, AckBarrierWake,
       AckBarrierCancelled, AckBarrierTimeout, AckPersist, AckRecord, ForceFailure, ForceCancel,
       WatchdogFire, WatchdogCancel, WatchdogExit, ResetEnd, OwnerLoadForced, OwnerSwap,
       OwnerCancelToken, SnapshotAsk, SnapshotRead, SnapshotWaited, AckRest, OwnerRest, SnapshotRest
  <2> QED
    BY Zenon, <2>1, <2>2, <2>3
<1>3. TerminalBackedByRow'
  BY <1>1 DEF BInv, Verdict, Ruling, TerminalBackedByRow, Quiet
<1>4. /\ row'.status \in Outcomes => row'.durable = row'.delivered
      /\ Alive' => row'.status # "interrupted"
      /\ bridge'.pc \in Looping => row'.status = "running"
      /\ bridge'.pc \in Settled \cup Sending =>
           row'.status \in Outcomes /\ (bridge'.outcome # "failed" => row'.status = bridge'.outcome)
  BY <1>1 DEF BInv, Verdict, Ruling, Quiet, Alive
<1>5. faults \in Nat /\ faults' \in Nat /\ MaxFaults \in Nat
  BY TypeCommand, ConstantsAssumption DEF BInv, TypeOK
<1>6. /\ faults' <= MaxFaults
      /\ faults' = MaxFaults =>
       /\ bridge'.pc \notin Published => row'.status = "running"
       /\ bridge'.pc = "fail" =>
            ~CanCheckpoint(row', buffer'.durable, machine'.sent + 1, buffer'.usage)
  BY SMTT(60), <1>1, <1>5 DEF BInv, Verdict, Ruling, Quiet, CanCheckpoint, TerminalSeq
<1>7. /\ accepted' /\ Alive' => flags'.cancel
      /\ accepted' /\ bridge'.pc \in Closing => bridge'.outcome = "cancelled"
      /\ accepted' /\ bridge'.pc \in Settled \cup Sending =>
          bridge'.outcome = "cancelled" \/ (bridge'.outcome = "failed" /\ faults' < MaxFaults)
  BY SMTT(60), <1>1, <1>2, <1>5 DEF BInv, Verdict, Ruling, Phase, Quiet, Alive
<1>8. CancelWins'
  BY SMTT(60), <1>1, <1>2, <1>5 DEF BInv, Verdict, Ruling, Quiet, CancelWins, IsTerminal
<1> QED
  BY <1>3, <1>4, <1>6, <1>7, <1>8 DEF Verdict, Ruling, TerminalSeq

\* The stored text, across a command.
LEMMA CommandTexts ==
  ASSUME BInv, Command PROVE Texts'
<1>1. Quiet
  BY CommandQuiet DEF BInv
<1> QED
  BY <1>1 DEF BInv, Texts, Quiet, StoredTextExact, TextEvents, Increasing

\* The acknowledgements: only the one that holds the gate moves past its queue.
LEMMA CommandAckers ==
  ASSUME BInv, Command PROVE \A a \in Acker : AckerHolds(a)'
<1>0. /\ machine \in MachineType /\ ackers \in AckersType /\ wire \in Seq(Event)
  BY DEF BInv, TypeOK, AckersType, AckerType
<1>a. \A a \in Acker : a # "free" /\ a # "bridge"
  BY ConstantsAssumption
<1>b. \A a \in Acker : AckerHolds(a)
  BY DEF BInv
<1>c. /\ machine.sent \in Nat /\ machine.acked \in Int /\ machine.persistedAcked \in Nat
      /\ Len(wire) \in Nat
      /\ \A a \in Acker : ackers[a].seq \in Nat
  BY <1>0 DEF MachineType, None, AckersType, AckerType
<1>d. UNCHANGED wire /\ machine'.sent = machine.sent
  BY CommandQuiet DEF BInv, Quiet
<1>f. \A a \in Acker : ackers[a].pc # "idle" => Alive
  BY DEF BInv, Watchers, Alive
\* A step of one acknowledgement that leaves the machine's sequences and the gate to it.
<1>e. ASSUME NEW a \in Acker, \A b \in Acker \ {a} : ackers'[b] = ackers[b],
             \A b \in Acker \ {a} : ackers[b].pc \in {"idle", "gate"}, AckerHolds(a)'
      PROVE  \A b \in Acker : AckerHolds(b)'
  BY <1>b, <1>d, <1>e DEF AckerHolds
\* The others are queued while this one holds the gate.
<1>g. \A a \in Acker : ackers[a].pc \notin {"idle", "gate"} =>
        gate = a /\ \A b \in Acker \ {a} : ackers[b].pc \in {"idle", "gate"}
  BY <1>b DEF AckerHolds
\* Nothing that an acknowledgement relies on moves.
<1>h. ASSUME UNCHANGED <<ackers, gate>>, machine'.acked = machine.acked,
             machine'.persistedAcked = machine.persistedAcked
      PROVE  \A b \in Acker : AckerHolds(b)'
  BY <1>b, <1>d, <1>h DEF AckerHolds
<1>1. ASSUME NEW a \in Acker, NEW seq \in Nat, Ack(a, seq) PROVE \A b \in Acker : AckerHolds(b)'
  <2> DEFINE k == seq <= Len(wire)
  <2>1. /\ ackers'[a] = [pc |-> "gate", seq |-> seq, known |-> k]
        /\ \A b \in Acker \ {a} : ackers'[b] = ackers[b]
        /\ UNCHANGED <<machine, gate>>
    BY <1>0, <1>1 DEF Ack, shared, AckersType
  <2> HIDE DEF k
  <2>2. ackers'[a].pc = "gate" /\ ackers'[a].seq = seq /\ ackers'[a].known = k
    BY SMTT(60), <2>1
  <2>3. AckerHolds(a)'
    BY Zenon, <1>d, <2>2 DEF AckerHolds, k
  <2>4. \A b \in Acker \ {a} : AckerHolds(b)'
    BY <1>b, <1>d, <2>1 DEF AckerHolds
  <2> QED
    BY <2>3, <2>4
<1>2. ASSUME NEW a \in Acker, AckGate(a) PROVE \A b \in Acker : AckerHolds(b)'
  <2>1. /\ ackers'[a] = [ackers[a] EXCEPT !.pc = "pending"] /\ ackers[a].pc = "gate"
        /\ \A b \in Acker \ {a} : ackers'[b] = ackers[b]
        /\ gate = "free" /\ gate' = a
    BY <1>0, <1>2 DEF AckGate, AckGoTo, AckersType
  <2>2. \A b \in Acker \ {a} : ackers[b].pc \in {"idle", "gate"}
    BY <1>a, <1>b, <2>1 DEF AckerHolds
  <2>3. /\ ackers'[a].pc = "pending" /\ ackers'[a].seq = ackers[a].seq
        /\ ackers'[a].known = ackers[a].known
    BY <1>0, <2>1 DEF AckersType, AckerType
  <2>4. AckerHolds(a)'
    BY <1>b, <1>d, <2>1, <2>3 DEF AckerHolds
  <2> QED
    BY <1>e, <2>1, <2>2, <2>4
<1>3. ASSUME NEW a \in Acker, AckPending(a) PROVE \A b \in Acker : AckerHolds(b)'
  <2> DEFINE pc == IF ackers[a].seq > 0 /\ machine.pending = ackers[a].seq
                   THEN "pendingWait" ELSE "validate"
  <2>1. /\ ackers'[a] = [ackers[a] EXCEPT !.pc = pc] /\ ackers[a].pc = "pending"
        /\ \A b \in Acker \ {a} : ackers'[b] = ackers[b]
        /\ UNCHANGED <<machine, gate>>
    BY <1>0, <1>3 DEF AckPending, AckGoTo, AckersType, shared
  <2>2. /\ ackers'[a].pc = pc /\ ackers'[a].seq = ackers[a].seq
        /\ ackers'[a].known = ackers[a].known
    BY <1>0, <2>1 DEF AckersType, AckerType
  <2>3. ackers[a].known => ackers[a].seq <= Len(wire)
    BY <1>b, <2>1 DEF AckerHolds
  <2>4. ackers[a].known /\ pc = "validate" => ackers[a].seq <= machine.sent
    <3>1. CASE bridge.pc \in {"committed", "receipt"}
      BY SMTT(60), <1>c, <2>3, <3>1 DEF BInv, Phase, Channel, InSend, Sending
    <3>2. CASE bridge.pc \notin {"committed", "receipt"}
      BY SMTT(60), <1>c, <1>f, <2>1, <2>3, <3>2 DEF BInv, Channel, Alive
    <3> QED
      BY <3>1, <3>2
  <2>5. AckerHolds(a)'
    BY <1>b, <1>d, <2>1, <2>2, <2>3, <2>4 DEF AckerHolds
  <2> QED
    BY <1>e, <1>g, <2>1, <2>5
<1>4. ASSUME NEW a \in Acker, AckPendingWake(a) PROVE \A b \in Acker : AckerHolds(b)'
  <2>1. /\ ackers[a].pc = "pendingWait" /\ AckGoTo(a, "pending") /\ UNCHANGED gate
        /\ machine'.acked = machine.acked
    BY <1>0, <1>4 DEF AckPendingWake, shared
  <2>2. /\ ackers'[a].pc = "pending" /\ ackers'[a].seq = ackers[a].seq
        /\ ackers'[a].known = ackers[a].known
        /\ \A b \in Acker \ {a} : ackers'[b] = ackers[b]
    BY <1>0, <2>1 DEF AckGoTo, AckersType, AckerType
  <2>3. AckerHolds(a)'
    BY <1>b, <1>d, <2>1, <2>2 DEF AckerHolds
  <2> QED
    BY <1>e, <1>g, <2>1, <2>2, <2>3
<1>5. ASSUME NEW a \in Acker, AckPendingGiveUp(a) PROVE \A b \in Acker : AckerHolds(b)'
  <2>1. ackers[a].pc \notin {"idle", "gate"} /\ AckReturn(a)
    BY <1>5 DEF AckPendingGiveUp
  <2>2. ackers'[a] = Idle /\ \A b \in Acker \ {a} : ackers'[b] = ackers[b]
    BY <1>0, <2>1 DEF AckReturn, AckersType
  <2>3. AckerHolds(a)'
    BY SMTT(60), <2>2 DEF AckerHolds, Idle
  <2> QED
    BY <1>e, <1>g, <2>1, <2>2, <2>3
<1>6. ASSUME NEW a \in Acker, AckValidate(a) PROVE \A b \in Acker : AckerHolds(b)'
  <2>0. ackers[a].pc = "validate" /\ gate = a
    BY <1>6, <1>g DEF AckValidate
  <2>1. CASE AckReturn(a)
    <3>1. ackers'[a] = Idle /\ \A b \in Acker \ {a} : ackers'[b] = ackers[b]
      BY <1>0, <2>1 DEF AckReturn, AckersType
    <3>2. AckerHolds(a)'
      BY SMTT(60), <3>1 DEF AckerHolds, Idle
    <3> QED
      BY <1>e, <1>g, <2>0, <3>1, <3>2
  <2>2. CASE ~AckReturn(a)
    <3>1. /\ ackers[a].seq <= machine.sent /\ ackers[a].seq > machine.acked /\ gate' = a
          /\ machine' \in {machine, RequestFlush(machine, ackers[a].seq)}
          /\ AckGoTo(a, IF ackers[a].seq = 0 THEN "record"
                        ELSE IF IsTerminal THEN "persist" ELSE "barrier")
      BY <1>6, <2>0, <2>2 DEF AckValidate
    <3>2. /\ ackers'[a].pc \in {"record", "persist", "barrier"}
          /\ ackers'[a].pc = "record" => ackers[a].seq = 0
          /\ ackers'[a].seq = ackers[a].seq
          /\ \A b \in Acker \ {a} : ackers'[b] = ackers[b]
      BY <1>0, <3>1 DEF AckGoTo, AckersType, AckerType
    <3>3. machine'.acked = machine.acked /\ machine'.persistedAcked = machine.persistedAcked
      BY Zenon, <1>0, <3>1 DEF RequestFlush, MachineType
    <3>4. AckerHolds(a)'
      BY SMTT(60), <1>c, <1>d, <3>1, <3>2, <3>3 DEF AckerHolds
    <3> QED
      BY <1>e, <1>g, <2>0, <3>2, <3>4
  <2> QED
    BY <2>1, <2>2
<1>7. ASSUME NEW a \in Acker, AckBarrier(a) PROVE \A b \in Acker : AckerHolds(b)'
  <2>0. ackers[a].pc = "barrier" /\ gate = a /\ UNCHANGED machine
    BY <1>7, <1>g DEF AckBarrier
  <2>1. CASE AckReturn(a)
    <3>1. ackers'[a] = Idle /\ \A b \in Acker \ {a} : ackers'[b] = ackers[b]
      BY <1>0, <2>1 DEF AckReturn, AckersType
    <3>2. AckerHolds(a)'
      BY SMTT(60), <3>1 DEF AckerHolds, Idle
    <3> QED
      BY <1>e, <1>g, <2>0, <3>1, <3>2
  <2>2. CASE ~AckReturn(a)
    <3>1. gate' = gate /\ (AckGoTo(a, "persist") \/ AckGoTo(a, "barrierWait"))
      BY <1>7, <2>2 DEF AckBarrier
    <3>2. /\ ackers'[a].pc \in {"persist", "barrierWait"} /\ ackers'[a].seq = ackers[a].seq
          /\ \A b \in Acker \ {a} : ackers'[b] = ackers[b]
      BY <1>0, <3>1 DEF AckGoTo, AckersType, AckerType
    <3>4. AckerHolds(a)'
      BY <1>b, <1>d, <2>0, <3>1, <3>2 DEF AckerHolds
    <3> QED
      BY <1>e, <1>g, <2>0, <3>2, <3>4
  <2> QED
    BY <2>1, <2>2
<1>8. ASSUME NEW a \in Acker, AckBarrierWake(a) PROVE \A b \in Acker : AckerHolds(b)'
  <2>1. /\ ackers[a].pc = "barrierWait" /\ AckGoTo(a, "barrier") /\ UNCHANGED gate
        /\ machine'.acked = machine.acked
    BY <1>0, <1>8 DEF AckBarrierWake, shared
  <2>2. /\ ackers'[a].pc = "barrier" /\ ackers'[a].seq = ackers[a].seq
        /\ ackers'[a].known = ackers[a].known
        /\ \A b \in Acker \ {a} : ackers'[b] = ackers[b]
    BY <1>0, <2>1 DEF AckGoTo, AckersType, AckerType
  <2>3. AckerHolds(a)'
    BY <1>b, <1>d, <2>1, <2>2 DEF AckerHolds
  <2> QED
    BY <1>e, <1>g, <2>1, <2>2, <2>3
<1>9. ASSUME NEW a \in Acker, AckBarrierCancelled(a) PROVE \A b \in Acker : AckerHolds(b)'
  <2>1. ackers[a].pc \notin {"idle", "gate"} /\ AckReturn(a)
    BY <1>9 DEF AckBarrierCancelled
  <2>2. ackers'[a] = Idle /\ \A b \in Acker \ {a} : ackers'[b] = ackers[b]
    BY <1>0, <2>1 DEF AckReturn, AckersType
  <2>3. AckerHolds(a)'
    BY SMTT(60), <2>2 DEF AckerHolds, Idle
  <2> QED
    BY <1>e, <1>g, <2>1, <2>2, <2>3
<1>10. ASSUME NEW a \in Acker, AckBarrierTimeout(a) PROVE \A b \in Acker : AckerHolds(b)'
  <2>1. /\ ackers[a].pc = "barrierWait" /\ AckGoTo(a, "force") /\ UNCHANGED gate
        /\ machine'.acked = machine.acked
    BY <1>0, <1>10 DEF AckBarrierTimeout, shared
  <2>2. /\ ackers'[a].pc = "force" /\ ackers'[a].seq = ackers[a].seq
        /\ ackers'[a].known = ackers[a].known
        /\ \A b \in Acker \ {a} : ackers'[b] = ackers[b]
    BY <1>0, <2>1 DEF AckGoTo, AckersType, AckerType
  <2>3. AckerHolds(a)'
    BY <1>b, <1>d, <2>1, <2>2 DEF AckerHolds
  <2> QED
    BY <1>e, <1>g, <2>1, <2>2, <2>3
<1>11. ASSUME NEW a \in Acker, NEW f \in Faults, AckPersist(a, f) PROVE \A b \in Acker : AckerHolds(b)'
  <2>1. /\ ackers[a].pc = "persist" /\ UNCHANGED gate
        /\ machine'.acked = machine.acked
        /\ \/ AckGoTo(a, "record") /\ machine'.persistedAcked = ackers[a].seq
           \/ AckGoTo(a, "force")
    BY <1>0, <1>11 DEF AckPersist, MachineType
  <2>2. /\ ackers'[a].pc \in {"record", "force"} /\ ackers'[a].seq = ackers[a].seq
        /\ ackers'[a].pc = "record" => machine'.persistedAcked = ackers[a].seq
        /\ \A b \in Acker \ {a} : ackers'[b] = ackers[b]
    BY <1>0, <2>1 DEF AckGoTo, AckersType, AckerType
  <2>3. AckerHolds(a)'
    BY SMTT(60), <1>b, <1>c, <1>d, <2>1, <2>2 DEF AckerHolds
  <2> QED
    BY <1>e, <1>g, <2>1, <2>2, <2>3
<1>12. ASSUME NEW a \in Acker, AckRecord(a) PROVE \A b \in Acker : AckerHolds(b)'
  <2>1. ackers[a].pc \notin {"idle", "gate"} /\ AckReturn(a)
    BY <1>12 DEF AckRecord
  <2>2. ackers'[a] = Idle /\ \A b \in Acker \ {a} : ackers'[b] = ackers[b]
    BY <1>0, <2>1 DEF AckReturn, AckersType
  <2>3. AckerHolds(a)'
    BY SMTT(60), <2>2 DEF AckerHolds, Idle
  <2> QED
    BY <1>e, <1>g, <2>1, <2>2, <2>3
<1>13. ASSUME NEW a \in Acker, ForceFailure(a) PROVE \A b \in Acker : AckerHolds(b)'
  <2>1. /\ ackers[a].pc = "force" /\ AckGoTo(a, "forceCancel") /\ UNCHANGED gate
        /\ machine'.acked = machine.acked
    BY <1>0, <1>13 DEF ForceFailure, shared, MachineType
  <2>2. /\ ackers'[a].pc = "forceCancel" /\ ackers'[a].seq = ackers[a].seq
        /\ ackers'[a].known = ackers[a].known
        /\ \A b \in Acker \ {a} : ackers'[b] = ackers[b]
    BY <1>0, <2>1 DEF AckGoTo, AckersType, AckerType
  <2>3. AckerHolds(a)'
    BY <1>b, <1>d, <2>1, <2>2 DEF AckerHolds
  <2> QED
    BY <1>e, <1>g, <2>1, <2>2, <2>3
<1>14. ASSUME NEW a \in Acker, NEW waiting \in BOOLEAN, ForceCancel(a, waiting) PROVE \A b \in Acker : AckerHolds(b)'
  <2>1. ackers[a].pc \notin {"idle", "gate"} /\ AckReturn(a)
    BY <1>14 DEF ForceCancel
  <2>2. ackers'[a] = Idle /\ \A b \in Acker \ {a} : ackers'[b] = ackers[b]
    BY <1>0, <2>1 DEF AckReturn, AckersType
  <2>3. AckerHolds(a)'
    BY SMTT(60), <2>2 DEF AckerHolds, Idle
  <2> QED
    BY <1>e, <1>g, <2>1, <2>2, <2>3
<1>15. CASE WatchdogFire
  BY <1>0, <1>h, <1>15 DEF WatchdogFire, shared, store, MachineType
<1>16. CASE WatchdogCancel
  BY <1>0, <1>h, <1>16 DEF WatchdogCancel, shared, store
<1>17. CASE WatchdogExit
  BY <1>0, <1>h, <1>17 DEF WatchdogExit, shared, store
<1>18. CASE Cancel
  BY <1>0, <1>h, <1>18 DEF Cancel, shared, store
<1>19. CASE ResetCancel
  BY <1>0, <1>h, <1>19 DEF ResetCancel, shared, store
<1>20. ASSUME NEW timeout \in BOOLEAN, ResetEnd(timeout) PROVE \A b \in Acker : AckerHolds(b)'
  BY <1>0, <1>h, <1>20 DEF ResetEnd, shared, store
<1>21. CASE OwnerLoadForced
  BY <1>0, <1>h, <1>21 DEF OwnerLoadForced, store, OwnerRest
<1>22. CASE OwnerSwap
  BY <1>0, <1>h, <1>22 DEF OwnerSwap, store, OwnerRest
<1>23. CASE OwnerCancelToken
  BY <1>0, <1>h, <1>23 DEF OwnerCancelToken, store, OwnerRest
<1>24. CASE SnapshotAsk
  BY <1>0, <1>h, <1>24 DEF SnapshotAsk, store, SnapshotRest
<1>25. CASE SnapshotRead
  BY <1>0, <1>h, <1>25 DEF SnapshotRead, store, SnapshotRest, MachineType
<1>26. ASSUME NEW timeout \in BOOLEAN, SnapshotWaited(timeout) PROVE \A b \in Acker : AckerHolds(b)'
  BY <1>0, <1>h, <1>26 DEF SnapshotWaited, store, SnapshotRest
<1> QED
  BY SMTT(60), <1>1, <1>2, <1>3, <1>4, <1>5, <1>6, <1>7, <1>8, <1>9, <1>10, <1>11, <1>12, <1>13, <1>14, <1>15, <1>16, <1>17, <1>18, <1>19, <1>20, <1>21, <1>22, <1>23, <1>24, <1>25, <1>26
  DEF Command, AckStep, Watchdog, Owner, Snapshot

\* The watchdog, across a command: nothing in flight is left without a deadline.
LEMMA CommandWatchers ==
  ASSUME BInv, Command PROVE Watchers'
<1>0. /\ machine \in MachineType /\ ackers \in AckersType /\ flags \in FlagsType
      /\ snapshot \in [pc : {"idle", "waiting", "reading"}, saw : BOOLEAN]
      /\ registered \in BOOLEAN
  BY DEF BInv, TypeOK, AckersType, AckerType, FlagsType
<1>a. Quiet /\ Acks
  BY CommandQuiet, CommandAcks DEF BInv
<1>b. bridge'.pc \notin {"done", "crashed"} /\ InFlight(machine') > 0 => machine'.armed
  <2>1. machine' \in MachineType
    BY TypeCommand DEF BInv, TypeOK
  <2> QED
    BY SMTT(60), <1>0, <1>a, <2>1 DEF Quiet, Acks, InFlight, MachineType, None
<1>c. /\ bridge' = bridge
      /\ flags.token => flags'.token
      /\ machine.lease => machine'.lease
  BY <1>a DEF Quiet
<1>d. /\ snapshot.saw /\ snapshot.pc = "waiting" => bridge.pc \in {"receipt", "done"}
      /\ snapshot.saw /\ snapshot.pc = "reading" => bridge.pc = "done"
      /\ watchdog = "gone" /\ bridge.pc \in Looping => machine.lease \/ flags.token
      /\ bridge.pc = "crashed" => ~registered /\ \A a \in Acker : ackers[a].pc = "idle"
  BY DEF BInv, Watchers
\* Neither the snapshot nor the watchdog moves, and nothing starts on a stream that is gone.
<1>e. ASSUME UNCHANGED <<snapshot, watchdog>>, registered' => registered,
             \/ ackers' = ackers
             \/ \E a \in Acker : registered \/ ackers[a].pc # "idle"
      PROVE  Watchers'
  BY <1>b, <1>c, <1>d, <1>e DEF Watchers
\* A step of the watchdog, or of the snapshot.
<1>f. ASSUME UNCHANGED <<snapshot, ackers, registered>>,
             watchdog' = "gone" /\ bridge.pc \in Looping => machine'.lease \/ flags'.token
      PROVE  Watchers'
  BY <1>b, <1>c, <1>d, <1>f DEF Watchers
<1>g. ASSUME UNCHANGED <<watchdog, ackers>>, registered' => registered,
             snapshot'.saw /\ snapshot'.pc = "waiting" => bridge.pc \in {"receipt", "done"},
             snapshot'.saw /\ snapshot'.pc = "reading" => bridge.pc = "done"
      PROVE  Watchers'
  BY <1>b, <1>c, <1>d, <1>g DEF Watchers
<1>1. ASSUME NEW a \in Acker, NEW seq \in Nat, Ack(a, seq) PROVE Watchers'
  BY <1>0, <1>e, <1>1 DEF Ack, shared, store, AckRest
<1>2. ASSUME NEW a \in Acker, AckGate(a) PROVE Watchers'
  BY <1>0, <1>e, <1>2 DEF AckGate, shared, store, AckRest
<1>3. ASSUME NEW a \in Acker, AckPending(a) PROVE Watchers'
  BY <1>0, <1>e, <1>3 DEF AckPending, shared, store, AckRest
<1>4. ASSUME NEW a \in Acker, AckPendingWake(a) PROVE Watchers'
  BY <1>0, <1>e, <1>4 DEF AckPendingWake, shared, store, AckRest
<1>5. ASSUME NEW a \in Acker, AckPendingGiveUp(a) PROVE Watchers'
  BY <1>0, <1>e, <1>5 DEF AckPendingGiveUp, shared, store, AckRest
<1>6. ASSUME NEW a \in Acker, AckValidate(a) PROVE Watchers'
  BY Zenon, <1>0, <1>e, <1>6 DEF AckValidate, shared, store, AckRest
<1>7. ASSUME NEW a \in Acker, AckBarrier(a) PROVE Watchers'
  BY <1>0, <1>e, <1>7 DEF AckBarrier, shared, store, AckRest
<1>8. ASSUME NEW a \in Acker, AckBarrierWake(a) PROVE Watchers'
  BY <1>0, <1>e, <1>8 DEF AckBarrierWake, shared, store, AckRest
<1>9. ASSUME NEW a \in Acker, AckBarrierCancelled(a) PROVE Watchers'
  BY <1>0, <1>e, <1>9 DEF AckBarrierCancelled, shared, store, AckRest
<1>10. ASSUME NEW a \in Acker, AckBarrierTimeout(a) PROVE Watchers'
  BY <1>0, <1>e, <1>10 DEF AckBarrierTimeout, shared, store, AckRest
<1>11. ASSUME NEW a \in Acker, NEW f \in Faults, AckPersist(a, f) PROVE Watchers'
  BY <1>0, <1>e, <1>11 DEF AckPersist, shared, store, AckRest
<1>12. ASSUME NEW a \in Acker, AckRecord(a) PROVE Watchers'
  BY <1>0, <1>e, <1>12 DEF AckRecord, shared, store, AckRest
<1>13. ASSUME NEW a \in Acker, ForceFailure(a) PROVE Watchers'
  BY <1>0, <1>e, <1>13 DEF ForceFailure, shared, store, AckRest
<1>14. ASSUME NEW a \in Acker, NEW waiting \in BOOLEAN, ForceCancel(a, waiting) PROVE Watchers'
  BY <1>0, <1>e, <1>14 DEF ForceCancel, shared, store, AckRest
<1>15. CASE WatchdogFire
  BY <1>0, <1>f, <1>15 DEF WatchdogFire
<1>16. CASE WatchdogCancel
  BY <1>0, <1>f, <1>16 DEF WatchdogCancel, FlagsType
<1>17. CASE WatchdogExit
  BY <1>0, <1>f, <1>17 DEF WatchdogExit, IsTerminal, BInv, Phase, Looping, Closing, Settled, Sending, shared
<1>18. CASE Cancel
  BY <1>0, <1>e, <1>18 DEF Cancel, shared, store
<1>19. CASE ResetCancel
  BY <1>0, <1>e, <1>19 DEF ResetCancel, shared, store
<1>20. ASSUME NEW timeout \in BOOLEAN, ResetEnd(timeout) PROVE Watchers'
  BY <1>0, <1>e, <1>20 DEF ResetEnd, shared, store
<1>21. CASE OwnerLoadForced
  BY <1>0, <1>e, <1>21 DEF OwnerLoadForced, store, OwnerRest
<1>22. CASE OwnerSwap
  BY <1>0, <1>e, <1>22 DEF OwnerSwap, store, OwnerRest
<1>23. CASE OwnerCancelToken
  BY <1>0, <1>e, <1>23 DEF OwnerCancelToken, store, OwnerRest
<1>24. CASE SnapshotAsk
  <2>1. TerminalOnWire => bridge.pc \in {"receipt", "done", "crashed"}
    BY DEF TerminalOnWire, BInv, Channel, Ordinary, Outcomes
  <2>2. /\ snapshot'.pc = "waiting" /\ snapshot'.saw = TerminalOnWire /\ registered
        /\ UNCHANGED <<watchdog, ackers, registered>>
    BY <1>24 DEF SnapshotAsk, SnapshotRest
  <2> QED
    BY <1>d, <1>g, <2>1, <2>2
<1>25. CASE SnapshotRead
  BY Zenon, <1>g, <1>25 DEF SnapshotRead, SnapshotRest
<1>26. ASSUME NEW timeout \in BOOLEAN, SnapshotWaited(timeout) PROVE Watchers'
  <2>1. machine.pending = 0 => bridge.pc # "receipt"
    BY SMTT(60), <1>0 DEF BInv, Phase, Sending, MachineType
  <2>2. /\ UNCHANGED <<watchdog, ackers, registered>> /\ snapshot.pc = "waiting"
        /\ ~snapshot'.saw \/ (snapshot'.pc = "reading" /\ snapshot.saw /\ machine.pending = 0)
    BY <1>0, <1>26 DEF SnapshotWaited, SnapshotRest
  <2> QED
    BY <1>d, <1>g, <2>1, <2>2
<1> QED
  BY SMTT(60), <1>1, <1>2, <1>3, <1>4, <1>5, <1>6, <1>7, <1>8, <1>9, <1>10, <1>11, <1>12, <1>13, <1>14, <1>15, <1>16, <1>17, <1>18, <1>19, <1>20, <1>21, <1>22, <1>23, <1>24, <1>25, <1>26
  DEF Command, AckStep, Watchdog, Owner, Snapshot
-----------------------------------------------------------------------------
(* The invariant holds, and with it the properties of the bridge.          *)

\* A new stream satisfies the invariant.
LEMMA BridgeInit == Init => BInv
<1> SUFFICES ASSUME Init PROVE BInv
  OBVIOUS
<1> USE DEF Looping, Waiting, Closing, Settled, Sending, InSend, Published, Alive
<1>1. TypeOK
  BY TypeInit
<1>a. /\ bridge.pc = "select" /\ bridge.return = "select" /\ ~bridge.draining
      /\ gate = "free" /\ wire = << >> /\ text = << >> /\ ~accepted /\ faults = MaxFaults
      /\ ~snapshot.saw /\ watchdog = "watching"
  BY DEF Init, NewBridge
<1>b. /\ machine.terminal = "none" /\ ~machine.committing /\ machine.pending = 0
      /\ machine.sent = 0 /\ machine.acked = -1 /\ machine.durable = 0
      /\ machine.persistedAcked = 0 /\ machine.armed
  BY DEF Init, NewMachine, None
<1>c. /\ row.status = "running" /\ row.delivered = 0 /\ row.durable = 0 /\ row.acked = 0
      /\ buffer.text = << >> /\ buffer.durable = 0 /\ buffer.delivered = 0 /\ buffer.through = 0
  BY DEF Init, NewRow, NewBuffer, None
<1>d. MaxWire \in Nat /\ MaxWire >= 1 /\ MaxInFlight \in Nat /\ MaxInFlight >= 1
      /\ MaxFaults \in Nat
  BY ConstantsAssumption
<1>2. Phase
  BY <1>a, <1>b, <1>d DEF Phase
<1>w. Watchers
  BY <1>a, <1>b DEF Watchers, InFlight
<1>3. Channel
  BY <1>a, <1>b, <1>d DEF Channel
<1>4. Watermarks
  BY <1>a, <1>b, <1>c DEF Watermarks, RowOrdered
<1>5. Verdict
  <2>1. TerminalBackedByRow
    BY <1>a, <1>b DEF TerminalBackedByRow, Outcomes
  <2>2. Ruling
    BY <1>a, <1>b, <1>c, <1>d DEF Ruling, CancelWins, IsTerminal, Outcomes
  <2> QED
    BY <2>1, <2>2 DEF Verdict
<1>6. Texts
  BY <1>a, <1>c DEF Texts, StoredTextExact, TextEvents, Increasing, Range
<1>7. \A a \in Acker : AckerHolds(a)
  BY DEF Init, AckerHolds, Idle
<1> QED
  BY <1>1, <1>2, <1>w, <1>3, <1>4, <1>5, <1>6, <1>7 DEF BInv

\* A crash keeps what the journal has; the next start finds it in order.
LEMMA BridgeCrash ==
  ASSUME BInv, Crash PROVE BInv'
<1>0. row \in RowType /\ text \in Seq(Nat) /\ wire \in Seq(Event) /\ accepted \in BOOLEAN
  BY DEF BInv, TypeOK
<1>a. bridge'.pc = "crashed" /\ bridge'.return = "select" /\ ~bridge'.draining
      /\ machine' = NewMachine
  BY DEF Crash, NewBridge
<1>b. /\ row'.delivered = row.delivered /\ row'.durable = row.durable /\ row'.acked = row.acked
      /\ row.status \in Outcomes => row'.status = row.status
      /\ row'.status \in Outcomes => row.status = row'.status
      /\ row' \in RowType
  BY Zenon, <1>0 DEF Crash, RecoveredRow, RowType, RowStatus, Outcomes
<1> USE DEF Looping, Waiting, Closing, Settled, Sending, InSend, Published, Alive
<1>1. TypeOK'
  <2>1. machine' \in MachineType /\ flags' \in [cancel : BOOLEAN, forced : BOOLEAN, token : BOOLEAN]
    BY DEF Crash, NewMachine, NewFlags, MachineType, None
  <2>2. bridge' \in BridgeType /\ buffer' \in BufferType
    <3>1. NewBridge \in BridgeType /\ NewBuffer \in BufferType
      <4>1. "select" \in BridgePc
        BY DEF BridgePc
      <4>2. NewBridge \in BridgeType
        BY Zenon, <4>1 DEF NewBridge, BridgeType, Ordinary
      <4>3. NewBuffer \in BufferType
        BY DEF NewBuffer, BufferType
      <4> QED
        BY <4>2, <4>3
    <3>2. [NewBridge EXCEPT !.pc = "crashed"] \in BridgeType
      BY <3>1 DEF BridgeType, BridgePc
    <3> QED
      BY <3>1, <3>2 DEF Crash
  <2>3. ackers' \in [Acker -> [pc : AckerPc, seq : Nat, known : BOOLEAN]]
    BY DEF Crash, Idle, AckerPc
  <2>4. /\ text' \in Seq(Nat) /\ wire' \in Seq(Event) /\ accepted' \in BOOLEAN
        /\ permit' = FALSE /\ registered' = FALSE
    BY <1>0 DEF Crash
  <2>5. /\ gate' \in Acker \cup {"free", "bridge"} /\ watchdog' \in {"watching", "fired", "gone"}
        /\ owner' \in {"idle", "swap", "cancel", "done"} /\ reset' \in {"idle", "waiting"}
        /\ snapshot' \in [pc : {"idle", "waiting", "reading"}, saw : BOOLEAN]
        /\ faults' \in Nat
    BY DEF Crash
  <2> QED
    BY Zenon, <1>b, <2>1, <2>2, <2>3, <2>4, <2>5 DEF TypeOK
<1>2. Phase'
  <2>1. gate' = "free" /\ MaxWire \in Nat \ {0}
    BY ConstantsAssumption DEF Crash
  <2> QED
    BY SMTT(60), <1>a, <2>1 DEF Phase, NewMachine
<1>3. Channel'
  BY <1>a DEF Crash, BInv, Channel
<1>4. Watermarks'
  BY <1>a, <1>b DEF BInv, Watermarks, RowOrdered
<1>5. Verdict'
  <2>1. TerminalBackedByRow'
    <3>1. machine'.terminal = "none" /\ UNCHANGED wire
      BY <1>a DEF Crash, NewMachine
    <3> QED
      BY <1>b, <3>1 DEF BInv, Verdict, TerminalBackedByRow, Outcomes
  <2>2. faults' = 0 /\ machine'.terminal = "none" /\ MaxFaults \in Nat
    BY ConstantsAssumption DEF Crash, NewMachine
  <2>3. Ruling'
    BY SMTT(60), <1>a, <1>b, <2>2 DEF BInv, Verdict, Ruling, CancelWins, IsTerminal
  <2> QED
    BY <2>1, <2>3 DEF Verdict
<1>6. Texts'
  BY <1>a, <1>b DEF Crash, BInv, Texts, StoredTextExact, TextEvents, Increasing
<1>7. \A a \in Acker : AckerHolds(a)'
  BY DEF Crash, AckerHolds, Idle
<1>8. Watchers'
  BY <1>a DEF Crash, Watchers, Idle
<1> QED
  BY <1>1, <1>2, <1>3, <1>4, <1>5, <1>6, <1>7, <1>8 DEF BInv

\* Every step keeps the invariant: of the bridge, a command or a crash.
LEMMA BridgeNext == BInv /\ [Next]_vars => BInv'
<1> SUFFICES ASSUME BInv, [Next]_vars PROVE BInv'
  OBVIOUS
<1>1. CASE Bridge
  <2>1. TypeOK'
    BY <1>1, TypeBridge DEF BInv
  <2> QED
    BY <1>1, <2>1, BridgePhase, BridgeChannel, BridgeWatermarks, BridgeVerdict, BridgeTexts,
       BridgeAckers, BridgeWatchers DEF BInv
<1>2. CASE Command
  <2>1. TypeOK'
    BY <1>2, TypeCommand DEF BInv
  <2> QED
    BY <1>2, <2>1, CommandPhase, CommandChannel, CommandWatermarks, CommandVerdict, CommandTexts,
       CommandAckers, CommandWatchers DEF BInv
<1>3. CASE Crash
  BY <1>3, BridgeCrash
<1>4. CASE UNCHANGED vars
  <2>1. UNCHANGED <<machine, flags, permit, gate, bridge, buffer, row, text, faults, wire, ackers,
                    watchdog, owner, reset, snapshot, accepted, registered>>
    BY <1>4 DEF vars, shared, store, clients
  <2>2. TypeOK'
    BY <2>1 DEF BInv, TypeOK
  <2>c. Phase'
    BY Zenon, <2>1 DEF BInv, Phase
  <2>a. Channel'
    BY Zenon, <2>1 DEF BInv, Channel, Alive
  <2>b. Watermarks'
    BY Zenon, <2>1 DEF BInv, Watermarks, RowOrdered, Alive
  <2>3. Verdict' /\ Texts'
    BY ZenonT(60), <2>1 DEF BInv, Verdict, Ruling, TerminalBackedByRow, CancelWins, IsTerminal, TerminalSeq,
       Alive, Texts, StoredTextExact, TextEvents, Increasing
  <2>4. Watchers' /\ \A a \in Acker : AckerHolds(a)'
    BY Zenon, <2>1 DEF BInv, Watchers, AckerHolds
  <2> QED
    BY <2>2, <2>a, <2>b, <2>c, <2>3, <2>4 DEF BInv
<1>5. machine.sent \in Nat
  BY Numbers DEF BInv
<1> QED
  BY <1>1, <1>2, <1>3, <1>4, <1>5 DEF Next, Command

\* The inductive invariant holds in every reachable state.
LEMMA BridgeInvariant == Spec => []BInv
  BY BridgeInit, BridgeNext, PTL DEF Spec

\* Journal row, machine and buffer agree at every step, crashes included, so that nothing
\* acknowledged is lost and no internal error of send_terminal, record or
\* enter_terminal_sequence can happen.
THEOREM BridgeRecordsAgree == Spec => []RecordsAgree
<1>1. BInv => RecordsAgree
  <2> SUFFICES ASSUME BInv PROVE RecordsAgree
    OBVIOUS
  <2> USE DEF Looping, Waiting, Closing, Settled, Sending, InSend, Published, Alive
  <2>0. TypeOK /\ Phase /\ Channel /\ Watermarks
    BY DEF BInv
  <2>a. /\ machine.sent \in Nat /\ machine.durable \in Nat /\ machine.persistedAcked \in Nat
        /\ machine.acked \in Int /\ row.acked \in Nat /\ row.durable \in Nat
        /\ row.delivered \in Nat /\ buffer.delivered \in Nat /\ buffer.durable \in Nat
        /\ buffer.through \in Nat
    BY <2>0, Numbers
  <2>1. JournalBacksMachine
    BY SMTT(60), <2>0, <2>a DEF JournalBacksMachine, Watermarks
  <2>2. InternalChecksHold
    BY SMTT(60), <2>0, <2>a DEF InternalChecksHold, IsTerminal, TerminalSeq, Phase, Watermarks
  <2> QED
    BY <2>0, <2>1, <2>2 DEF RecordsAgree
<1> QED
  BY <1>1, BridgeInvariant, PTL

\* The stored message is exactly the visible text of the durable events, whatever checkpoints
\* fail, are retried or are lost.
THEOREM BridgeStoresText == Spec => []StoredTextExact
<1>1. BInv => StoredTextExact
  BY DEF BInv, Texts
<1> QED
  BY <1>1, BridgeInvariant, PTL

\* No terminal event or receipt is seen before its row has an outcome, and a completed or
\* cancelled one is the row's own.
THEOREM BridgeBacksTerminal == Spec => []TerminalBackedByRow
<1>1. BInv => TerminalBackedByRow
  BY DEF BInv, Verdict
<1> QED
  BY <1>1, BridgeInvariant, PTL

\* The channel is gapless and ends with the terminal, the window is kept, a snapshot asked for
\* after the terminal event has the receipt, and an accepted cancel is honoured.
THEOREM BridgeTellsTruth == Spec => []ClientSeesTruth
<1>1. BInv => ClientSeesTruth
  <2> SUFFICES ASSUME BInv PROVE ClientSeesTruth
    OBVIOUS
  <2>0. TypeOK /\ Phase /\ Channel
    BY DEF BInv
  <2>a. machine.sent \in Nat /\ machine.acked \in Int /\ MaxInFlight \in Nat /\ Len(wire) \in Nat
    BY SMTT(60), <2>0, Numbers, ConstantsAssumption DEF TypeOK
  <2>1. Alive => Len(wire) - machine.acked <= MaxInFlight + IF TerminalOnWire THEN 1 ELSE 0
    <3> SUFFICES ASSUME Alive
                 PROVE  Len(wire) - machine.acked <= MaxInFlight + IF TerminalOnWire THEN 1 ELSE 0
      OBVIOUS
    <3>1. CASE bridge.pc \notin {"committed", "receipt", "done"}
      BY SMTT(60), <2>0, <2>a, <3>1 DEF Channel, Alive
    <3>2. CASE bridge.pc = "committed"
      BY SMTT(60), <2>0, <2>a, <3>2 DEF Channel, InSend
    <3>3. CASE bridge.pc = "receipt"
      <4>1. Len(wire) = machine.sent + 1 => TerminalOnWire
        <5>1. bridge.outcome \in Outcomes
          BY <2>0, <3>3 DEF Phase, Sending
        <5>2. Len(wire) = machine.sent + 1 => Len(wire) \in 1 .. Len(wire) /\ ~(Len(wire) <= machine.sent)
          BY <2>a
        <5> QED
          BY <2>0, <3>3, <5>1, <5>2 DEF Channel, TerminalOnWire
      <4> QED
        BY SMTT(60), <2>0, <2>a, <3>3, <4>1 DEF Channel, Alive
    <3>4. CASE bridge.pc = "done"
      <4>1. Len(wire) = machine.sent /\ machine.sent > 0 => TerminalOnWire
        <5>1. machine.terminal \in Outcomes
          BY <2>0, <3>4 DEF Phase, TypeOK, MachineType
        <5>2. machine.sent > 0 => machine.sent \in 1 .. machine.sent /\ ~(machine.sent < machine.sent)
          BY <2>a
        <5> QED
          BY <2>0, <3>4, <5>1, <5>2 DEF Channel, TerminalOnWire
      <4>2. machine.sent = 0 => Len(wire) - machine.acked <= MaxInFlight
        <5>1. machine.acked >= -1 /\ MaxInFlight >= 1
          BY SMTT(60), <2>0, <2>a, ConstantsAssumption DEF TypeOK, MachineType, None
        <5> QED
          BY SMTT(60), <2>0, <2>a, <3>4, <5>1 DEF Channel
      <4> QED
        BY SMTT(60), <2>0, <2>a, <3>4, <4>1, <4>2 DEF Channel, Alive
    <3> QED
      BY <3>1, <3>2, <3>3, <3>4
  <2>2. WireWellFormed
    BY <2>0, <2>1 DEF WireWellFormed, Channel
  <2>3. SnapshotShowsReceipt
    BY DEF BInv, SnapshotShowsReceipt, Watchers, Phase, IsTerminal
  <2>4. CancelWins
    BY DEF BInv, Verdict, Ruling
  <2> QED
    BY <2>2, <2>3, <2>4 DEF ClientSeesTruth
<1> QED
  BY <1>1, BridgeInvariant, PTL

\* A client that stops acknowledging is noticed: what is in flight keeps the deadline armed and
\* the watchdog leaves only after a failure or a cancel.
THEOREM BridgeWatchesStall == Spec => []StallIsWatched
<1>1. BInv => StallIsWatched
  BY DEF BInv, Watchers, StallIsWatched, Looping
<1> QED
  BY <1>1, BridgeInvariant, PTL

\* An event that was received can be acknowledged, although its sender may not have committed
\* it yet.
THEOREM BridgeTakesAcks == Spec => []ReceivedEventIsAckable
<1>1. BInv => ReceivedEventIsAckable
  BY DEF BInv, AckerHolds, ReceivedEventIsAckable
<1> QED
  BY <1>1, BridgeInvariant, PTL
=============================================================================
