--------------------------- MODULE RecoveryProofs ---------------------------
(***************************************************************************)
(* Two operations on files that a crash may cut short anywhere, an import  *)
(* and a restore, for any number of instances, files and faults: an        *)
(* answered import is whole or gone, and a restore never loses the data it *)
(* replaces.                                                               *)
(***************************************************************************)
EXTENDS Restore, ImportSession, TLAPS
-----------------------------------------------------------------------------
(* Restore                                                                 *)

\* The arrangements of the three trees.  Untouched: before a new tree exists.
\* Waiting: the new tree is complete in staging.  Aside: and the old one is
\* moved aside.  InPlace: the new tree is published.
Original == IF hadData THEN "old" ELSE "absent"

\* What the old directory may hold: the old data, or what a removal left of it.
Leftover == IF hadData THEN {"old", "torn"} ELSE {}

Untouched ==
  dest = Original /\ staging \in {"absent", "empty", "part"} /\ old = "absent"

Waiting ==
  dest \in Leftover \cup {"absent"} /\ staging = "new" /\ old = "absent"

Aside == dest = "absent" /\ staging = "new" /\ old \in Leftover

InPlace ==
  dest = "new" /\ staging = "absent" /\ old \in Leftover \cup {"absent"}

\* What the journal says of the trees.
JournalTruthful ==
  /\ journal.phase = "none" => journal = NoJournal
  /\ journal.phase = "none" /\ pc # "done" => Untouched /\ staging # "part"
  /\ journal.phase = "prepared" => Waiting \/ (Untouched /\ staging # "absent")
  /\ journal.phase = "copied" => Waiting
  /\ journal.phase = "verified" => Waiting \/ Aside
  /\ journal.phase \in {"oldMoved", "newPublished", "complete"} =>
       Waiting \/ Aside \/ InPlace
  /\ journal.phase # "none" => journal.replaced = hadData

\* What the running call knows of the journal.
CallAgrees ==
  /\ pc = "idle" => progress = NoJournal
  /\ pc = "fresh" => journal = NoJournal /\ progress = NoJournal
  /\ pc = "load" =>
       progress = journal /\ (journal = NoJournal => staging = "absent")
  /\ pc \in {"fresh", "undo", "undone", "rewind", "load"} =>
       (resumed <=> journal # NoJournal)
  /\ pc = "create" =>
       /\ journal = NoJournal /\ staging = "absent"
       /\ progress = [phase |-> "prepared", replaced |-> hadData]
  /\ pc = "begin" =>
       \/ progress = journal /\ journal # NoJournal
       \/ /\ journal = NoJournal /\ staging = "empty"
          /\ progress = [phase |-> "prepared", replaced |-> hadData]
  /\ pc \notin {"idle", "fresh", "load", "create", "begin", "done"} =>
       progress = journal /\ journal # NoJournal

\* What holds at each step of the call.
StepReady ==
  /\ pc \in {"load", "begin", "reconcile"} => ~Aside
  /\ pc = "undo" => Aside /\ journal.phase \in {"verified", "oldMoved"}
  /\ pc = "undone" => Waiting /\ hadData
  /\ pc = "rewind" => Waiting /\ journal.phase = "oldMoved"
  /\ pc = "copy" => journal.phase = "prepared"
  /\ pc = "copied" => journal.phase = "prepared" /\ Waiting
  /\ pc = "check" => journal.phase = "copied"
  /\ pc = "moveOld" => journal.phase = "verified" /\ Waiting
  /\ pc = "movedOld" => journal.phase = "verified" /\ dest = "absent"
  /\ pc = "publish" => journal.phase = "oldMoved"
  /\ pc = "published" => journal.phase = "oldMoved" /\ InPlace
  /\ pc \in {"validate", "rollbackNew", "rollbackOld", "rolledBack", "removeOld", "complete"} =>
       journal.phase \in {"newPublished", "complete"}
  /\ pc = "rollbackOld" => dest = "absent"
  /\ pc = "rolledBack" => Waiting
  /\ pc = "removeOld" => InPlace
  /\ pc \in {"complete", "removeJournal"} => InPlace /\ old = "absent"
  /\ pc = "done" => journal = NoJournal /\ InPlace

\* The inductive invariant.
IInv == TypeOK /\ JournalTruthful /\ CallAgrees /\ StepReady
-----------------------------------------------------------------------------
\* Journal records: what a write of the journal makes of them.
LEMMA JournalFacts ==
  /\ NoJournal \in Journal /\ NoJournal.phase = "none"
  /\ \A p \in Phase, b \in BOOLEAN :
       LET r == [phase |-> p, replaced |-> b]
       IN  r \in Journal /\ r.phase = p /\ r.replaced = b /\ r # NoJournal
  /\ \A j \in Journal : j # NoJournal => j.phase \in Phase /\ j.replaced \in BOOLEAN
  /\ \A j \in Journal, p \in Phase : j # NoJournal =>
       LET r == [j EXCEPT !.phase = p]
       IN  r \in Journal /\ r.phase = p /\ r.replaced = j.replaced /\ r # NoJournal
  BY DEF Journal, NoJournal, Phase

\* The invariant holds before the first call.
LEMMA InitInv == Init => IInv
<1> SUFFICES ASSUME Init PROVE IInv
  OBVIOUS
<1>1. TypeOK
  BY Zenon, ConstantsAssumption, JournalFacts DEF Init, TypeOK, Tree, Policy, Pc
<1>2. JournalTruthful
  BY JournalFacts DEF Init, JournalTruthful, Untouched, Original
<1>3. CallAgrees /\ StepReady
  BY DEF Init, CallAgrees, StepReady
<1> QED
  BY <1>1, <1>2, <1>3 DEF IInv

\* Every step of restore_backup, and every stop between two steps, keeps the
\* invariant.
LEMMA StepInv == IInv /\ [Next]_vars => IInv'
<1> SUFFICES ASSUME IInv, [Next]_vars PROVE IInv'
  OBVIOUS
<1> USE DEF IInv, TypeOK, JournalTruthful, CallAgrees, StepReady, Untouched,
        Waiting, Aside, InPlace, Original, Leftover, Tree, Policy, Pc, disk,
        GoTo, Fail, Record, Exists
<1>1. CASE Fresh
  <2>1. TypeOK'
    BY <1>1, JournalFacts DEF Fresh
  <2>2. JournalTruthful'
    BY <1>1, JournalFacts DEF Fresh
  <2>3. CallAgrees'
    BY <1>1, JournalFacts DEF Fresh
  <2>4. StepReady'
    BY <1>1, JournalFacts DEF Fresh
  <2> QED
    BY Zenon, <2>1, <2>2, <2>3, <2>4 DEF IInv
<1>2. CASE Undo
  BY SMTT(60), <1>2 DEF Undo, Journal, NoJournal, Phase
<1>3. CASE Undone
  <2> DEFINE r == [phase |-> "verified", replaced |-> TRUE]
  <2>0. r \in Journal /\ r.phase = "verified" /\ r.replaced = TRUE /\ r # NoJournal
    BY DEF Journal, Phase, NoJournal
  <2>a. journal' = r /\ progress' = r
    BY <1>3 DEF Undone
  <2> HIDE DEF r
  <2>1. TypeOK'
    BY Zenon, <1>3, <2>0, <2>a, JournalFacts DEF Undone
  <2>2. JournalTruthful'
    BY <1>3, <2>0, <2>a, JournalFacts DEF Undone
  <2>3. CallAgrees'
    BY <1>3, <2>0, <2>a, JournalFacts DEF Undone
  <2>4. StepReady'
    BY <1>3, <2>0, <2>a, JournalFacts DEF Undone
  <2> QED
    BY Zenon, <2>1, <2>2, <2>3, <2>4 DEF IInv
<1>4. CASE Rewind
  <2> DEFINE r == [progress EXCEPT !.phase = "verified"]
  <2>0. r \in Journal /\ r.phase = "verified" /\ r.replaced = progress.replaced /\ r # NoJournal
    BY <1>4 DEF Rewind, Journal, Phase, NoJournal
  <2>a. journal' = r /\ progress' = r
    BY <1>4 DEF Rewind
  <2> HIDE DEF r
  <2>1. TypeOK'
    BY <1>4, <2>0, <2>a, JournalFacts DEF Rewind
  <2>2. JournalTruthful'
    BY <1>4, <2>0, <2>a, JournalFacts DEF Rewind
  <2>3. CallAgrees'
    BY <1>4, <2>0, <2>a, JournalFacts DEF Rewind
  <2>4. StepReady'
    BY <1>4, <2>0, <2>a, JournalFacts DEF Rewind
  <2> QED
    BY Zenon, <2>1, <2>2, <2>3, <2>4 DEF IInv
<1>5. CASE Load
  <2> DEFINE r == [phase |-> "prepared", replaced |-> Exists(dest)]
  <2>0. r \in Journal
    BY DEF Journal, Phase, NoJournal
  <2>a. progress' \in {progress, NoJournal, r}
    BY <1>5 DEF Load
  <2> HIDE DEF r
  <2>1. TypeOK'
    BY <1>5, <2>0, <2>a, JournalFacts DEF Load
  <2>2. JournalTruthful'
    BY <1>5, JournalFacts DEF Load
  <2>3. CallAgrees'
    BY <1>5, JournalFacts DEF Load
  <2>4. StepReady'
    BY <1>5, JournalFacts DEF Load
  <2> QED
    BY Zenon, <2>1, <2>2, <2>3, <2>4 DEF IInv
<1>6. CASE Create
  BY SMTT(60), <1>6 DEF Create, Journal, NoJournal, Phase
<1>7. CASE Begin
  BY SMTT(60), <1>7 DEF Begin, Journal, NoJournal, Phase
<1>8. CASE Reconcile
  BY <1>8 DEF Reconcile, FirstStep, Journal, NoJournal, Phase
<1>9. CASE Copied
  BY <1>9 DEF Copied, Journal, NoJournal, Phase
<1>10. CASE Check
  BY <1>10 DEF Check, Journal, NoJournal, Phase
<1>11. CASE MoveOld
  BY SMTT(60), <1>11 DEF MoveOld, Journal, NoJournal, Phase
<1>12. CASE MovedOld
  BY <1>12 DEF MovedOld, Journal, NoJournal, Phase
<1>13. CASE Publish
  BY SMTT(60), <1>13 DEF Publish, Journal, NoJournal, Phase
<1>14. CASE Published
  BY <1>14 DEF Published, Journal, NoJournal, Phase
<1>15. CASE RollbackNew
  BY SMTT(60), <1>15 DEF RollbackNew, Journal, NoJournal, Phase
<1>16. CASE RollbackOld
  BY SMTT(60), <1>16 DEF RollbackOld, Journal, NoJournal, Phase
<1>17. CASE RolledBack
  BY <1>17 DEF RolledBack, Journal, NoJournal, Phase
<1>18. CASE Complete
  BY <1>18 DEF Complete, Journal, NoJournal, Phase
<1>19. CASE RemoveJournal
  BY SMTT(60), <1>19 DEF RemoveJournal, Journal, NoJournal, Phase
<1>20. CASE Stop
  BY SMTT(60), <1>20 DEF Stop, Journal, NoJournal, Phase
<1>21. ASSUME NEW p \in Policy, Start(p) PROVE IInv'
  <2>0. progress' \in {NoJournal, journal}
    BY <1>21 DEF Start
  <2>1. TypeOK'
    <3>1. resumed' \in BOOLEAN
      BY <1>21 DEF Start
    <3>2. progress' \in Journal
      BY <2>0, JournalFacts
    <3>3. pc' \in Pc
      BY <1>21 DEF Start
    <3> QED
      BY SMTT(60), <1>21, <3>1, <3>2, <3>3 DEF Start
  <2>2. JournalTruthful'
    BY <1>21 DEF Start
  <2>3. CallAgrees'
    <3>1. journal' = journal /\ staging' = staging
      BY <1>21 DEF Start
    <3>2. resumed' <=> journal # NoJournal
      BY Zenon, <1>21 DEF Start
    <3>3. IF pc' = "idle" THEN progress' = NoJournal ELSE progress' = journal
      BY SMTT(60), <1>21 DEF Start
    <3>4. CASE journal = NoJournal
      <4>1. pc' \in {"idle", "fresh", "load"} /\ (pc' = "load" => staging = "absent")
        BY <1>21, <3>4, Zenon DEF Start
      <4> QED
        BY <3>1, <3>2, <3>3, <3>4, <4>1
    <3>5. CASE journal # NoJournal
      <4>1. pc' \in {"idle", "undo", "rewind", "load"}
        BY <1>21, <3>5 DEF Start
      <4> QED
        BY <3>1, <3>2, <3>3, <3>5, <4>1
    <3> QED
      BY <3>4, <3>5
  <2>4. StepReady'
    BY SMTT(60), <1>21, JournalFacts DEF Start, MovedBack
  <2> QED
    BY Zenon, <2>1, <2>2, <2>3, <2>4 DEF IInv
<1>22. ASSUME NEW last \in BOOLEAN, Copy(last) PROVE IInv'
  BY SMTT(60), <1>22 DEF Copy, Journal, NoJournal, Phase
<1>23. ASSUME NEW last \in BOOLEAN, RemoveOld(last) PROVE IInv'
  BY SMTT(60), <1>23 DEF RemoveOld, Journal, NoJournal, Phase
<1>24. ASSUME NEW interrupted \in BOOLEAN, Validate(interrupted) PROVE IInv'
  BY SMTT(60), <1>24 DEF Validate, Journal, NoJournal, Phase
<1>25. CASE UNCHANGED vars
  BY SMTT(60), <1>25 DEF vars
<1> QED
  BY Zenon, <1>1, <1>2, <1>3, <1>4, <1>5, <1>6, <1>7, <1>8, <1>9, <1>10, <1>11,
     <1>12, <1>13, <1>14, <1>15, <1>16, <1>17, <1>18, <1>19, <1>20, <1>21,
     <1>22, <1>23, <1>24, <1>25 DEF Next, Step

\* The inductive invariant holds in every reachable state, whatever MaxStops
\* and MaxCancels are.
THEOREM Invariance == Spec => []IInv
  BY InitInv, StepInv, PTL DEF Spec

\* The trees, the journal and the control state of restore_backup keep their
\* types.
THEOREM RestoreTyped == Spec => []TypeOK
<1>1. IInv => TypeOK
  BY DEF IInv
<1> QED
  BY <1>1, Invariance, PTL

\* However often restore_backup stops and is called again, it never leaves a
\* tree copied in part at the destination.
THEOREM NeverPartial == Spec => []DestinationNotPartial
<1>1. IInv => DestinationNotPartial
  BY SMTT(60) DEF IInv, TypeOK, JournalTruthful, StepReady, Journal, NoJournal, Phase,
     Untouched, Waiting, Aside, InPlace, Original, Leftover, DestinationNotPartial
<1> QED
  BY <1>1, Invariance, PTL

\* However often restore_backup stops, is rolled back and is called again, a
\* whole copy of the old or of the new data is on the disk.
THEOREM DataKept == Spec => []NothingLost
<1>1. IInv => NothingLost
  BY SMTT(60) DEF IInv, TypeOK, JournalTruthful, StepReady, Journal, NoJournal, Phase,
     Untouched, Waiting, Aside, InPlace, Original, Leftover, NothingLost
<1> QED
  BY <1>1, Invariance, PTL

\* Both at once: however often and wherever restore_backup is stopped, a whole
\* copy of the data exists and no partial copy is at the destination.
THEOREM RestoreSafe == Spec => []DataSafe
<1>1. NothingLost /\ DestinationNotPartial => DataSafe
  BY DEF DataSafe
<1> QED
  BY <1>1, NeverPartial, DataKept, PTL

\* restore_backup removes the old data only when the new data is in place and
\* journalled as published.
THEOREM OldKeptUntilPublished == Spec => OldGivenUpLast
<1>1. IInv /\ [Next]_vars =>
        [ "old" \in {dest, old} /\ "old" \notin {dest', old'} =>
            dest = "new" /\ journal.phase \in {"newPublished", "complete"} ]_vars
  <2> SUFFICES ASSUME IInv, Next, "old" \in {dest, old}, "old" \notin {dest', old'}
               PROVE  dest = "new" /\ journal.phase \in {"newPublished", "complete"}
    BY DEF vars, disk
  <2> USE DEF IInv, TypeOK, StepReady, Waiting, Aside, InPlace, Leftover, disk, Exists
  <2>1. CASE \E all \in BOOLEAN : RemoveOld(all)
    BY <2>1 DEF RemoveOld
  <2>2. CASE Undo \/ MoveOld \/ Publish
    BY <2>2 DEF Undo, MoveOld, Publish
  <2>3. CASE RollbackNew \/ RollbackOld
    BY <2>3 DEF RollbackNew, RollbackOld, JournalTruthful, Untouched, Original
  <2>4. CASE UNCHANGED <<dest, old>>
    BY <2>4
  <2> QED
    BY <2>1, <2>2, <2>3, <2>4 DEF Next, Step, Stop, Start, Copy, Validate, Fresh,
       Undone, Rewind, Load, Create, Begin, Reconcile, Copied, Check, MovedOld,
       Published, RolledBack, Complete, RemoveJournal
<1> QED
  BY <1>1, Invariance, PTL DEF Spec, OldGivenUpLast
-----------------------------------------------------------------------------
(* ImportSession                                                           *)

\* The points of a call at which it owns an import.
Working == {"begin", "mkdir", "copy", "next", "ingest", "commit", "committed", "rollback", "clean"}

\* The points of a service instance.
ServicePc == Working \cup {"closed", "sweep", "ready"}

\* The lease of an import: none, held, or past its expiry.
Leases == {"none", "live", "stale"}

\* What the caller of an import has been told.
Answers == {"nothing", "imported", "uncleaned", "refused", "failed", "pending", "killed"}

\* A service instance.
ServiceType == [pc : ServicePc, id : Ids \cup {NoImport}, todo : SUBSET Ids, lost : BOOLEAN]

\* The catalogue: leases, temporary owners and final owners of each import.
CatalogueType == [lease : [Ids -> Leases], temp : [Ids -> SUBSET Batch], final : [Ids -> SUBSET Batch]]

\* The type of the state.
ImportTypeOK ==
  /\ svc \in [Services -> ServiceType] /\ cat \in CatalogueType
  /\ dirs \in SUBSET Ids /\ said \in [Ids -> Answers] /\ importLeft \in Nat

\* An instance at work has an import, unanswered, that no other instance works on.
OwnImport ==
  /\ \A s \in Services : svc[s].pc \in Working <=> svc[s].id # NoImport
  /\ \A s \in Services : svc[s].id # NoImport => said[svc[s].id] = "nothing"
  /\ \A s, t \in Services : svc[s].id = svc[t].id /\ svc[s].id # NoImport => s = t

\* Until an import is answered its final owners are none, or all once committed.
OwnerGets ==
  /\ \A s \in Services : svc[s].id # NoImport =>
       cat.final[svc[s].id] = IF svc[s].pc = "committed" THEN Batch ELSE {}
  /\ \A i \in Ids : said[i] = "nothing" /\ (\A s \in Services : svc[s].id # i) => cat.final[i] = {}

\* The inductive invariant.
ImportInv == ImportTypeOK /\ OwnImport /\ OwnerGets /\ ImportSafe

\* Where the files of the batch are being taken in.
AtWork == {"copy", "next", "ingest", "commit"}

\* A step of service s that leaves the other services, and what their imports rely on, alone.
Beside(s) ==
  /\ svc' \in [Services -> ServiceType] /\ cat' \in CatalogueType
  /\ dirs' \in SUBSET Ids /\ importLeft' \in Nat
  /\ \A t \in Services : t # s => svc'[t] = svc[t]
  /\ \A i \in Ids : i # svc[s].id => cat'.final[i] = cat.final[i]
  /\ \A i \in Ids : i # svc[s].id /\ cat'.lease[i] # "none" => cat.lease[i] # "none"
  /\ \A i \in dirs \ dirs' : i = svc[s].id \/ cat'.lease[i] = "none"

\* The points of AtWork are points of Working.
LEMMA Working1 ==
  ASSUME ImportInv, NEW s \in Services
  PROVE  /\ svc[s].id # NoImport <=> svc[s].pc \in Working
         /\ svc[s].id \in Ids \cup {NoImport} /\ svc[s] \in ServiceType
  BY DEF ImportInv, OwnImport, ImportTypeOK, ServiceType

\* The import of s goes on.
LEMMA ImportGoesOn ==
  ASSUME ImportInv, NEW s \in Services, Beside(s), said' = said,
         svc'[s].id = svc[s].id, svc'[s].pc \in Working, svc[s].id # NoImport,
         cat'.final[svc[s].id] = IF svc'[s].pc = "committed" THEN Batch ELSE {},
         svc'[s].pc \in AtWork /\ cat'.lease[svc[s].id] # "none" => svc[s].id \in dirs'
  PROVE  ImportInv'
<1>0. ImportTypeOK /\ OwnImport /\ OwnerGets /\ ImportIsWhole /\ StagingOutlivesLease
  BY DEF ImportInv, ImportSafe
<1>a. svc[s].id \in Ids /\ said[svc[s].id] = "nothing"
  BY <1>0 DEF ImportTypeOK, ServiceType, OwnImport
<1>b. \A t \in Services : svc'[t].id = svc[t].id
  BY DEF Beside
<1>1. ImportTypeOK'
  BY <1>0 DEF ImportTypeOK, Beside
<1>2. OwnImport'
  BY <1>0, <1>b DEF OwnImport, Beside
<1>3. OwnerGets'
  <2>1. \A t \in Services : t # s /\ svc[t].id # NoImport => svc[t].id \in Ids /\ svc[t].id # svc[s].id
    BY <1>0 DEF OwnImport, ImportTypeOK, ServiceType
  <2> QED
    BY <1>0, <1>a, <1>b, <2>1 DEF OwnerGets, Beside
<1>4. ImportIsWhole'
  BY <1>0, <1>a DEF ImportIsWhole, Beside
<1>5. StagingOutlivesLease'
  <2> SUFFICES ASSUME NEW t \in Services, svc'[t].pc \in AtWork, cat'.lease[svc'[t].id] # "none"
               PROVE  svc'[t].id \in dirs'
    BY DEF StagingOutlivesLease, Live, AtWork
  <2>1. CASE t = s
    BY <2>1
  <2>2. CASE t # s
    <3>1. svc[t].pc \in AtWork /\ svc[t].id \in Ids /\ svc[t].id # svc[s].id /\ svc'[t] = svc[t]
      BY <1>0, <2>2 DEF OwnImport, ImportTypeOK, ServiceType, Working, AtWork, Beside
    <3>2. cat.lease[svc[t].id] # "none"
      BY <3>1 DEF Beside
    <3>3. svc[t].id \in dirs
      BY <1>0, <3>1, <3>2 DEF StagingOutlivesLease, Live, AtWork
    <3> QED
      BY <3>1, <3>3 DEF Beside
  <2> QED
    BY <2>1, <2>2
<1> QED
  BY <1>1, <1>2, <1>3, <1>4, <1>5 DEF ImportInv, ImportSafe

\* Service s has no import, or its import returns or dies.
LEMMA ImportEnds ==
  ASSUME ImportInv, NEW s \in Services, Beside(s), NEW what \in Answers \ {"nothing"},
         svc'[s].id = NoImport, svc'[s].pc \notin Working,
         svc[s].id # NoImport => cat'.final[svc[s].id] = cat.final[svc[s].id],
         said' \in [Ids -> Answers], \A i \in Ids : i # svc[s].id => said'[i] = said[i],
         svc[s].id # NoImport => said'[svc[s].id] = what,
         svc[s].id # NoImport /\ what \in {"imported", "uncleaned"} => svc[s].pc = "committed",
         svc[s].id # NoImport /\ what \in {"refused", "failed", "pending"} => svc[s].pc # "committed"
  PROVE  ImportInv'
<1>0. ImportTypeOK /\ OwnImport /\ OwnerGets /\ ImportIsWhole /\ StagingOutlivesLease
  BY DEF ImportInv, ImportSafe
<1>a. /\ svc[s].id \in Ids \cup {NoImport} /\ said \in [Ids -> Answers] /\ NoImport \notin Ids
      /\ \A t \in Services : svc[t].id \in Ids \cup {NoImport}
  BY <1>0, ImportAssumption DEF ImportTypeOK, ServiceType, NoImport
<1>b. /\ \A i \in Ids : i # svc[s].id => said'[i] = said[i]
      /\ svc[s].id # NoImport => said'[svc[s].id] = what
      /\ said' \in [Ids -> Answers]
  OBVIOUS
<1>c. \A i \in Ids : cat'.final[i] = cat.final[i]
  BY <1>a DEF Beside
<1>d. \A t \in Services : t # s /\ svc[t].id # NoImport => svc[t].id \in Ids /\ svc[t].id # svc[s].id
  BY <1>0, <1>a DEF OwnImport
<1>1. ImportTypeOK'
  BY <1>b DEF ImportTypeOK, Beside
<1>2. OwnImport'
  BY <1>0, <1>b, <1>d DEF OwnImport, Beside
<1>3. OwnerGets'
  <2>1. \A t \in Services : svc'[t].id # NoImport =>
          cat'.final[svc'[t].id] = IF svc'[t].pc = "committed" THEN Batch ELSE {}
    BY <1>0, <1>c, <1>d DEF OwnerGets, Beside
  <2>2. ASSUME NEW i \in Ids, said'[i] = "nothing", \A t \in Services : svc'[t].id # i
        PROVE  cat'.final[i] = {}
    <3>1. i # svc[s].id
      BY <1>a, <1>b, <2>2
    <3>2. \A t \in Services : svc[t].id # i
      BY <2>2, <3>1 DEF Beside
    <3> QED
      BY <1>0, <1>b, <1>c, <2>2, <3>1, <3>2 DEF OwnerGets
  <2> QED
    BY <2>1, <2>2 DEF OwnerGets
<1>4. ImportIsWhole'
  <2> SUFFICES ASSUME NEW i \in Ids
               PROVE  /\ cat'.final[i] \in {{}, Batch}
                      /\ said'[i] \in {"imported", "uncleaned"} => cat'.final[i] = Batch
                      /\ said'[i] \in {"refused", "failed", "pending"} => cat'.final[i] = {}
    BY DEF ImportIsWhole
  <2>1. CASE i # svc[s].id
    BY <1>0, <1>b, <1>c, <2>1 DEF ImportIsWhole
  <2>2. CASE i = svc[s].id
    <3>1. svc[s].id # NoImport /\ cat.final[i] = IF svc[s].pc = "committed" THEN Batch ELSE {}
      BY <1>0, <1>a, <2>2 DEF OwnerGets
    <3> QED
      BY <1>b, <1>c, <2>2, <3>1
  <2> QED
    BY <2>1, <2>2
<1>5. StagingOutlivesLease'
  <2> SUFFICES ASSUME NEW t \in Services, svc'[t].pc \in AtWork, cat'.lease[svc'[t].id] # "none"
               PROVE  svc'[t].id \in dirs'
    BY DEF StagingOutlivesLease, Live, AtWork
  <2>1. t # s /\ svc'[t] = svc[t]
    BY DEF AtWork, Working, Beside
  <2>2. svc[t].pc \in AtWork /\ svc[t].id \in Ids /\ svc[t].id # svc[s].id
    BY <1>0, <1>d, <2>1 DEF OwnImport, Working, AtWork
  <2>3. svc[t].id \in dirs
    BY <1>0, <2>1, <2>2 DEF StagingOutlivesLease, Live, AtWork, Beside
  <2> QED
    BY <2>1, <2>2, <2>3 DEF Beside
<1> QED
  BY <1>1, <1>2, <1>3, <1>4, <1>5 DEF ImportInv, ImportSafe

\* A service is given the id of an import that nobody has drawn.
LEMMA ImportAdmitted ==
  ASSUME ImportInv, NEW s \in Services, Beside(s), said' = said, svc[s].id = NoImport,
         NEW i \in Ids \ Drawn, svc'[s].id = i, svc'[s].pc = "begin"
  PROVE  ImportInv'
<1>0. ImportTypeOK /\ OwnImport /\ OwnerGets /\ ImportIsWhole /\ StagingOutlivesLease
  BY DEF ImportInv, ImportSafe
<1>a. NoImport \notin Ids
  BY ImportAssumption DEF NoImport
<1>b. said[i] = "nothing" /\ \A t \in Services : svc[t].id # i
  BY DEF Drawn
<1>c. \A j \in Ids : cat'.final[j] = cat.final[j]
  BY <1>a DEF Beside
<1>d. cat.final[i] = {}
  BY <1>0, <1>b DEF OwnerGets
<1>e. \A t \in Services : svc[t].id \in Ids \cup {NoImport}
  BY <1>0 DEF ImportTypeOK, ServiceType
<1>1. ImportTypeOK'
  BY <1>0 DEF ImportTypeOK, Beside
<1>2. OwnImport'
  BY <1>0, <1>a, <1>b DEF OwnImport, Beside, Working
<1>3. OwnerGets'
  <2>1. \A t \in Services : svc'[t].id # NoImport =>
          cat'.final[svc'[t].id] = IF svc'[t].pc = "committed" THEN Batch ELSE {}
    <3> SUFFICES ASSUME NEW t \in Services, svc'[t].id # NoImport
                 PROVE  cat'.final[svc'[t].id] = IF svc'[t].pc = "committed" THEN Batch ELSE {}
      OBVIOUS
    <3>1. CASE t = s
      BY <1>c, <1>d, <3>1
    <3>2. CASE t # s
      BY <1>0, <1>c, <1>e, <3>2 DEF OwnerGets, Beside
    <3> QED
      BY <3>1, <3>2
  <2>2. ASSUME NEW j \in Ids, said'[j] = "nothing", \A t \in Services : svc'[t].id # j
        PROVE  cat'.final[j] = {}
    <3>1. \A t \in Services : svc[t].id # j
      BY <1>a, <2>2 DEF Beside
    <3> QED
      BY <1>0, <1>c, <2>2, <3>1 DEF OwnerGets
  <2> QED
    BY <2>1, <2>2 DEF OwnerGets
<1>4. ImportIsWhole'
  BY <1>0, <1>c DEF ImportIsWhole
<1>5. StagingOutlivesLease'
  <2> SUFFICES ASSUME NEW t \in Services, svc'[t].pc \in AtWork, cat'.lease[svc'[t].id] # "none"
               PROVE  svc'[t].id \in dirs'
    BY DEF StagingOutlivesLease, Live, AtWork
  <2>1. t # s /\ svc'[t] = svc[t]
    BY DEF AtWork, Beside
  <2>2. svc[t].id \in Ids /\ svc[t].id # svc[s].id
    BY <1>0, <1>a, <1>e, <2>1 DEF OwnImport, Working, AtWork
  <2>3. svc[t].id \in dirs
    BY <1>0, <2>1, <2>2 DEF StagingOutlivesLease, Live, AtWork, Beside
  <2> QED
    BY <2>1, <2>2, <2>3 DEF Beside
<1> QED
  BY <1>1, <1>2, <1>3, <1>4, <1>5 DEF ImportInv, ImportSafe

\* The first state satisfies the invariant.
LEMMA ImportStarts == ImportInit => ImportInv
<1> SUFFICES ASSUME ImportInit PROVE ImportInv
  OBVIOUS
<1>1. Closed \in ServiceType /\ Closed.pc = "closed" /\ Closed.id = NoImport
  BY DEF Closed, ServiceType, ServicePc
<1>2. ImportTypeOK
  <2>1. cat \in CatalogueType
    BY DEF ImportInit, CatalogueType, Leases
  <2> QED
    BY <1>1, <2>1, ImportAssumption DEF ImportInit, ImportTypeOK, Answers
<1>3. /\ \A s \in Services : svc[s].pc = "closed" /\ svc[s].id = NoImport
      /\ \A i \in Ids : said[i] = "nothing" /\ cat.final[i] = {}
  BY <1>1 DEF ImportInit
<1>4. OwnImport /\ OwnerGets
  BY <1>3 DEF OwnImport, OwnerGets, Working
<1>5. ImportIsWhole /\ StagingOutlivesLease
  BY <1>3 DEF ImportIsWhole, StagingOutlivesLease
<1> QED
  BY <1>2, <1>4, <1>5 DEF ImportInv, ImportSafe

\* The fields of a service and of the catalogue after a step.
LEMMA ServiceMoves ==
  ASSUME ImportInv, NEW s \in Services, NEW at \in ServicePc, Steps(s, at)
  PROVE  /\ svc' \in [Services -> ServiceType] /\ \A t \in Services : t # s => svc'[t] = svc[t]
         /\ svc'[s].pc = at /\ svc'[s].id = svc[s].id
<1>1. svc \in [Services -> ServiceType]
  BY DEF ImportInv, ImportTypeOK
<1> QED
  BY <1>1 DEF Steps, ServiceType

\* A move of one instance, field by field.
LEMMA ServiceSet ==
  ASSUME ImportInv, NEW s \in Services, NEW w \in ServiceType, svc' = [svc EXCEPT ![s] = w]
  PROVE  /\ svc' \in [Services -> ServiceType] /\ \A t \in Services : t # s => svc'[t] = svc[t]
         /\ svc'[s] = w
<1>1. svc \in [Services -> ServiceType]
  BY DEF ImportInv, ImportTypeOK
<1> QED
  BY <1>1

\* An instance between two imports has its type.
LEMMA IdleTyped ==
  /\ Closed \in ServiceType /\ Closed.id = NoImport /\ Closed.pc = "closed"
  /\ Ready \in ServiceType /\ Ready.id = NoImport /\ Ready.pc = "ready"
  BY Zenon DEF Closed, Ready, ServiceType, ServicePc

\* A service that answers has no import any more.
LEMMA Returned ==
  ASSUME ImportInv, NEW s \in Services, NEW what \in Answers, svc[s].id \in Ids, Return(s, what)
  PROVE  /\ svc' \in [Services -> ServiceType] /\ \A t \in Services : t # s => svc'[t] = svc[t]
         /\ svc'[s].id = NoImport /\ svc'[s].pc \notin Working
         /\ said' \in [Ids -> Answers] /\ said'[svc[s].id] = what
         /\ \A i \in Ids : i # svc[s].id => said'[i] = said[i]
<1>1. said \in [Ids -> Answers]
  BY DEF ImportInv, ImportTypeOK
<1>2. svc' = [svc EXCEPT ![s] = Ready]
  BY DEF Return
<1>3. /\ svc' \in [Services -> ServiceType] /\ \A t \in Services : t # s => svc'[t] = svc[t]
      /\ svc'[s] = Ready
  BY Zenon, <1>2, IdleTyped, ServiceSet
<1> QED
  BY <1>1, <1>3, IdleTyped DEF Return, Working

\* A lease that is written leaves the owners alone.
LEMMA LeaseSet ==
  ASSUME cat \in CatalogueType, NEW i \in Ids, NEW l \in Leases, cat' = [cat EXCEPT !.lease[i] = l]
  PROVE  /\ cat' \in CatalogueType /\ cat'.final = cat.final /\ cat'.temp = cat.temp
         /\ cat'.lease[i] = l /\ \A j \in Ids : j # i => cat'.lease[j] = cat.lease[j]
  BY DEF CatalogueType

\* Temporary owners that are written leave lease and final owners alone.
LEMMA TempSet ==
  ASSUME cat \in CatalogueType, NEW i \in Ids, NEW as \in SUBSET Batch, cat' = [cat EXCEPT !.temp[i] = as]
  PROVE  cat' \in CatalogueType /\ cat'.final = cat.final /\ cat'.lease = cat.lease
  BY Zenon DEF CatalogueType

\* recover_expired takes an expired import out of the catalogue and nothing else.
LEMMA RecoveredFacts ==
  ASSUME cat \in CatalogueType, cat' = Recovered
  PROVE  /\ cat' \in CatalogueType /\ cat'.final = cat.final
         /\ \A i \in Ids : cat'.lease[i] # "none" => cat.lease[i] # "none"
  BY Zenon DEF CatalogueType, Recovered, Leases

\* A renewal touches the lease alone.
LEMMA RenewedFacts ==
  ASSUME cat \in CatalogueType, NEW i \in Ids, cat' = Renewed(i)
  PROVE  /\ cat' \in CatalogueType /\ cat'.final = cat.final
         /\ \A j \in Ids : cat'.lease[j] # "none" => cat.lease[j] # "none"
<1>1. CASE Live(i)
  BY Zenon, <1>1, LeaseSet DEF Renewed, Live, Leases
<1>2. CASE ~Live(i)
  BY <1>2 DEF Renewed
<1> QED
  BY <1>1, <1>2

\* A step of an import that is not committed, with nothing new for its owner.
LEMMA WorkStep ==
  ASSUME ImportInv, NEW s \in Services, svc[s].pc \in Working \ {"committed"},
         NEW at \in Working \ {"committed"}, Steps(s, at),
         cat' \in CatalogueType, cat'.final = cat.final, dirs' \in SUBSET Ids, dirs \subseteq dirs',
         \A i \in Ids : i # svc[s].id /\ cat'.lease[i] # "none" => cat.lease[i] # "none",
         at \in AtWork /\ cat'.lease[svc[s].id] # "none" => svc[s].id \in dirs',
         UNCHANGED <<said, importLeft>>
  PROVE  ImportInv'
<1>1. /\ svc' \in [Services -> ServiceType] /\ \A t \in Services : t # s => svc'[t] = svc[t]
      /\ svc'[s].pc = at /\ svc'[s].id = svc[s].id
  BY ServiceMoves DEF ServicePc
<1>2. svc[s].id # NoImport /\ cat'.final[svc[s].id] = {}
  BY Working1 DEF ImportInv, OwnerGets
<1>3. Beside(s)
  BY <1>1 DEF Beside, ImportInv, ImportTypeOK
<1> QED
  BY Zenon, <1>1, <1>2, <1>3, ImportGoesOn

\* An import returns.
LEMMA AnswerStep ==
  ASSUME ImportInv, NEW s \in Services, svc[s].pc \in Working, NEW what \in Answers \ {"nothing", "killed"},
         Return(s, what), svc[s].pc = "committed" <=> what \in {"imported", "uncleaned"},
         cat' \in CatalogueType, cat'.final = cat.final, dirs' \in SUBSET Ids, dirs \ {svc[s].id} \subseteq dirs',
         \A i \in Ids : cat'.lease[i] # "none" => cat.lease[i] # "none", importLeft' \in Nat
  PROVE  ImportInv'
<1>0. svc[s].id \in Ids /\ svc[s].id # NoImport
  BY Working1
<1>1. /\ svc' \in [Services -> ServiceType] /\ \A t \in Services : t # s => svc'[t] = svc[t]
      /\ svc'[s].id = NoImport /\ svc'[s].pc \notin Working
      /\ said' \in [Ids -> Answers] /\ said'[svc[s].id] = what
      /\ \A i \in Ids : i # svc[s].id => said'[i] = said[i]
  BY <1>0, Returned
<1>2. Beside(s)
  BY <1>0, <1>1 DEF Beside
<1> QED
  BY <1>0, <1>1, <1>2, ImportEnds

\* Each step of a service keeps the invariant.
LEMMA ImportServiceStep ==
  ASSUME ImportInv, NEW s \in Services,
         ImportStep(s) \/ AdmitImport(s) \/ CancelSeen(s) \/ Heartbeat(s) \/ CloseService(s) \/ KillService(s)
  PROVE  ImportInv'
<1>0. /\ svc \in [Services -> ServiceType] /\ cat \in CatalogueType /\ dirs \in SUBSET Ids
      /\ said \in [Ids -> Answers] /\ importLeft \in Nat /\ NoImport \notin Ids
  BY ImportAssumption DEF ImportInv, ImportTypeOK, NoImport
<1> DEFINE id == svc[s].id
<1>a. /\ svc[s].pc \in Working => id \in Ids /\ id # NoImport
      /\ svc[s].pc \notin Working => id = NoImport
      /\ svc[s] \in ServiceType
  BY <1>0, Working1
<1>b. id # NoImport => cat.final[id] = IF svc[s].pc = "committed" THEN Batch ELSE {}
  BY DEF ImportInv, OwnerGets
<1>c. svc[s].pc \in AtWork /\ cat.lease[id] # "none" => id \in dirs
  BY DEF ImportInv, ImportSafe, StagingOutlivesLease, Live, AtWork
<1>d. Spend => importLeft' \in Nat
  BY <1>0 DEF Spend
<1> HIDE DEF id
<1>e. id = svc[s].id
  BY DEF id
<1>1. CASE OpenService(s)
  <2>1. [Closed EXCEPT !.pc = "sweep", !.todo = dirs] \in ServiceType
    BY Zenon, <1>0 DEF Closed, ServiceType, ServicePc
  <2>2. /\ svc' \in [Services -> ServiceType] /\ \A t \in Services : t # s => svc'[t] = svc[t]
        /\ svc'[s] = [Closed EXCEPT !.pc = "sweep", !.todo = dirs]
    BY Zenon, <1>1, <2>1, ServiceSet DEF OpenService
  <2>3. svc[s].pc \notin Working /\ svc'[s].id = NoImport /\ svc'[s].pc \notin Working
    BY <1>1, <2>2 DEF OpenService, Working, Closed
  <2>4. cat' = Recovered /\ UNCHANGED <<dirs, said, importLeft>>
    BY <1>1 DEF OpenService
  <2>5. Beside(s)
    BY <1>0, <2>2, <2>4, RecoveredFacts DEF Beside
  <2>6. "killed" \in Answers \ {"nothing"}
    BY DEF Answers
  <2> QED
    BY <1>0, <1>a, <1>e, <2>3, <2>4, <2>5, <2>6, ImportEnds
<1>2. CASE OpenReturns(s)
  <2>1. svc[s].pc = "sweep" /\ Steps(s, "ready") /\ UNCHANGED <<cat, dirs, said, importLeft>>
    BY <1>2 DEF OpenReturns, SessionOpened
  <2>2. /\ svc' \in [Services -> ServiceType] /\ \A t \in Services : t # s => svc'[t] = svc[t]
        /\ svc'[s].pc = "ready" /\ svc'[s].id = svc[s].id
    BY <2>1, ServiceMoves DEF ServicePc
  <2>3. Beside(s)
    BY <1>0, <2>1, <2>2 DEF Beside
  <2>4. svc[s].pc \notin Working /\ svc'[s].pc \notin Working /\ "killed" \in Answers \ {"nothing"}
    BY <2>1, <2>2 DEF Working, Answers
  <2> QED
    BY <1>0, <1>a, <1>e, <2>1, <2>2, <2>3, <2>4, ImportEnds
<1>3. ASSUME NEW i \in Ids, SweepDirectory(s, i) PROVE ImportInv'
  <2>1. /\ svc[s].pc = "sweep" /\ UNCHANGED <<cat, said>> /\ importLeft' \in Nat /\ dirs' \in SUBSET Ids
        /\ \A j \in dirs \ dirs' : cat.lease[j] = "none"
    BY <1>0, <1>3, <1>d DEF SweepDirectory, Live
  <2>2. \/ svc' = [svc EXCEPT ![s].todo = @ \ {i}]
        \/ svc' = [svc EXCEPT ![s] = Closed]
    BY <1>3 DEF SweepDirectory
  <2>3. /\ svc' \in [Services -> ServiceType] /\ \A t \in Services : t # s => svc'[t] = svc[t]
        /\ svc'[s].pc \in {"sweep", "closed"} /\ svc'[s].id \in {svc[s].id, NoImport}
    <3>1. CASE svc' = [svc EXCEPT ![s].todo = @ \ {i}]
      BY <1>0, <2>1, <3>1 DEF ServiceType
    <3>2. CASE svc' = [svc EXCEPT ![s] = Closed]
      BY Zenon, <3>2, IdleTyped, ServiceSet
    <3> QED
      BY <2>2, <3>1, <3>2
  <2>4. Beside(s)
    BY <1>0, <2>1, <2>3 DEF Beside
  <2>5. svc[s].pc \notin Working /\ svc'[s].pc \notin Working /\ "killed" \in Answers \ {"nothing"}
    BY <2>1, <2>3 DEF Working, Answers
  <2> QED
    BY <1>0, <1>a, <1>e, <2>1, <2>3, <2>4, <2>5, ImportEnds
<1>4. CASE BeginImport(s)
  <2>1. /\ svc[s].pc = "begin" /\ cat' = [cat EXCEPT !.lease[id] = "live"] /\ Steps(s, "mkdir")
        /\ UNCHANGED <<dirs, said, importLeft>>
    BY <1>4, <1>e DEF BeginImport
  <2>2. svc[s].pc \in Working \ {"committed"} /\ "mkdir" \in Working \ {"committed"} /\ "live" \in Leases
    BY <2>1 DEF Working, Leases
  <2> QED
    BY <1>0, <1>a, <1>e, <2>1, <2>2, LeaseSet, WorkStep DEF AtWork
<1>5. CASE MakeDirectory(s)
  <2>1. svc[s].pc = "mkdir" /\ svc[s].pc \in Working \ {"committed"} /\ id \in Ids
    BY <1>5, <1>a DEF MakeDirectory, Working
  <2>2. CASE dirs' = dirs \cup {id} /\ Steps(s, "copy") /\ UNCHANGED <<cat, said, importLeft>>
    <3>1. "copy" \in Working \ {"committed"}
      BY DEF Working
    <3> QED
      BY <1>0, <1>e, <2>1, <2>2, <3>1, WorkStep
  <2>3. CASE /\ Spend /\ cat' = [cat EXCEPT !.lease[id] = "none"] /\ Return(s, "refused") /\ UNCHANGED dirs
    <3>1. "refused" \in Answers \ {"nothing", "killed"} /\ "none" \in Leases
      BY DEF Answers, Leases
    <3>2. /\ cat' \in CatalogueType /\ cat'.final = cat.final
          /\ \A i \in Ids : cat'.lease[i] # "none" => cat.lease[i] # "none"
      BY <1>0, <2>1, <2>3, <3>1, LeaseSet
    <3> QED
      BY <1>0, <1>d, <2>1, <2>3, <3>1, <3>2, AnswerStep
  <2> QED
    BY <1>5, <1>e, <2>2, <2>3 DEF MakeDirectory
<1>6. CASE CancelSeen(s) \/ StagingMissing(s)
  <2>1. /\ svc[s].pc \in {"copy", "ingest", "commit"} /\ Steps(s, "rollback")
        /\ UNCHANGED <<cat, dirs, said, importLeft>>
    BY <1>6 DEF CancelSeen, StagingMissing, Fails
  <2>2. svc[s].pc \in Working \ {"committed"} /\ "rollback" \in Working \ {"committed"}
    BY <2>1 DEF Working
  <2> QED
    BY <1>0, <2>1, <2>2, WorkStep DEF AtWork
<1>7. CASE Heartbeat(s)
  <2>1. svc[s].pc \in AtWork /\ svc[s].pc \in Working \ {"committed"} /\ id \in Ids
    BY <1>7, <1>a DEF Heartbeat, Working, AtWork
  <2>2. cat' = Renewed(id) /\ UNCHANGED <<dirs, said, importLeft>>
    BY <1>7, <1>e DEF Heartbeat
  <2>3. /\ cat' \in CatalogueType /\ cat'.final = cat.final
        /\ \A j \in Ids : cat'.lease[j] # "none" => cat.lease[j] # "none"
    BY <1>0, <2>1, <2>2, RenewedFacts
  <2>4. /\ svc' \in [Services -> ServiceType] /\ \A t \in Services : t # s => svc'[t] = svc[t]
        /\ svc'[s].pc \in {svc[s].pc, "rollback"} /\ svc'[s].id = svc[s].id
    <3>1. CASE Live(svc[s].id)
      BY <1>0, <1>7, <3>1 DEF Heartbeat
    <3>2. CASE ~Live(svc[s].id)
      BY <1>0, <1>7, <3>2 DEF Heartbeat, ServiceType, ServicePc, Working
    <3> QED
      BY <3>1, <3>2
  <2>5. Beside(s)
    BY <1>0, <2>2, <2>3, <2>4 DEF Beside
  <2>6. svc'[s].pc \in Working /\ svc'[s].pc # "committed"
    BY <2>1, <2>4 DEF Working
  <2> QED
    BY <1>a, <1>b, <1>c, <1>e, <2>1, <2>2, <2>3, <2>4, <2>5, <2>6, ImportGoesOn
<1>8. ASSUME NEW at \in {"next", "commit", "ingest"}, svc[s].pc \in {"copy", "next"}, EnsureLive(s, at)
      PROVE  ImportInv'
  <2>1. cat' = Renewed(id) /\ UNCHANGED <<dirs, said, importLeft>>
    BY <1>8, <1>e DEF EnsureLive
  <2>2. svc[s].pc \in AtWork /\ svc[s].pc \in Working \ {"committed"} /\ id \in Ids
    BY <1>8, <1>a DEF Working, AtWork
  <2>3. /\ cat' \in CatalogueType /\ cat'.final = cat.final
        /\ \A j \in Ids : cat'.lease[j] # "none" => cat.lease[j] # "none"
    BY <1>0, <2>1, <2>2, RenewedFacts
  <2>4. PICK p \in {at, "rollback"} : Steps(s, p)
    BY <1>8 DEF EnsureLive, Fails
  <2>5. p \in Working \ {"committed"}
    BY <1>8 DEF Working
  <2> QED
    BY <1>0, <1>c, <1>e, <2>1, <2>2, <2>3, <2>4, <2>5, WorkStep
<1>9. CASE SourceCopied(s) \/ NextAsset(s)
  BY <1>8, <1>9 DEF SourceCopied, NextAsset
<1>10. CASE IngestAsset(s)
  <2>1. svc[s].pc = "ingest" /\ id \in dirs /\ Steps(s, "next") /\ UNCHANGED <<dirs, said, importLeft>>
    BY <1>10, <1>e DEF IngestAsset
  <2>2. svc[s].pc \in Working \ {"committed"} /\ "next" \in Working \ {"committed"}
    BY <2>1 DEF Working
  <2>3. PICK a \in Batch \ cat.temp[id] : cat' = [cat EXCEPT !.temp[id] = @ \cup {a}]
    BY Zenon, <1>10, <1>e DEF IngestAsset
  <2>4. cat.temp[id] \cup {a} \in SUBSET Batch /\ id \in Ids
    BY <1>0, <1>a, <2>2 DEF CatalogueType
  <2>5. cat' = [cat EXCEPT !.temp[id] = cat.temp[id] \cup {a}]
    BY <1>0, <2>3, <2>4 DEF CatalogueType
  <2>6. cat' \in CatalogueType /\ cat'.final = cat.final /\ cat'.lease = cat.lease
    BY Zenon, <1>0, <2>4, <2>5, TempSet
  <2> QED
    BY <1>0, <1>e, <2>1, <2>2, <2>6, WorkStep
<1>11. CASE CommitImport(s)
  <2>1. svc[s].pc = "commit" /\ svc[s].pc \in Working \ {"committed"} /\ UNCHANGED <<dirs, said, importLeft>>
    BY <1>11 DEF CommitImport, Working
  <2>2. CASE Committable(id)
    <3>1. /\ cat' = [cat EXCEPT !.final[id] = cat.temp[id], !.temp[id] = {}, !.lease[id] = "none"]
          /\ Steps(s, "committed") /\ cat.temp[id] = Batch
      BY <1>11, <1>e, <2>2 DEF CommitImport, Committable
    <3>2. /\ cat' \in CatalogueType /\ cat'.final[id] = Batch
          /\ \A i \in Ids : i # id => cat'.final[i] = cat.final[i] /\ cat'.lease[i] = cat.lease[i]
      BY Zenon, <1>0, <1>a, <2>1, <3>1 DEF CatalogueType, Leases
    <3>3. "committed" \in ServicePc /\ "committed" \in Working /\ "committed" \notin AtWork
      BY DEF ServicePc, Working, AtWork
    <3>4. /\ svc' \in [Services -> ServiceType] /\ \A t \in Services : t # s => svc'[t] = svc[t]
          /\ svc'[s].pc = "committed" /\ svc'[s].id = svc[s].id
      BY <3>1, <3>3, ServiceMoves
    <3>5. Beside(s)
      BY <1>0, <1>e, <2>1, <3>2, <3>4 DEF Beside
    <3> QED
      BY <1>a, <1>e, <2>1, <3>2, <3>3, <3>4, <3>5, ImportGoesOn
  <2>3. CASE ~Committable(id)
    <3>1. UNCHANGED cat /\ Steps(s, "rollback") /\ "rollback" \in Working \ {"committed"}
      BY <1>11, <1>e, <2>3 DEF CommitImport, Fails, Working
    <3> QED
      BY <1>0, <2>1, <3>1, WorkStep DEF AtWork
  <2> QED
    BY <2>2, <2>3
<1>12. CASE CleanCommitted(s)
  <2>1. /\ svc[s].pc = "committed" /\ svc[s].pc \in Working /\ UNCHANGED cat
        /\ Cleaned(s, "imported", "uncleaned")
    BY <1>12 DEF CleanCommitted, Working
  <2>2. importLeft' \in Nat /\ dirs' \in SUBSET Ids /\ dirs \ {svc[s].id} \subseteq dirs'
    BY <1>0, <1>d, <2>1 DEF Cleaned
  <2>3. PICK what \in {"imported", "uncleaned"} : Return(s, what)
    BY <2>1 DEF Cleaned
  <2>4. what \in Answers \ {"nothing", "killed"}
    BY DEF Answers
  <2> QED
    BY <1>0, <2>1, <2>2, <2>3, <2>4, AnswerStep
<1>13. CASE RollbackImport(s)
  <2>1. svc[s].pc = "rollback" /\ svc[s].pc \in Working \ {"committed"} /\ id \in Ids
    BY <1>13, <1>a DEF RollbackImport, Working
  <2>2. CASE cat' = ImportRolledBack(id) /\ Steps(s, "clean") /\ UNCHANGED <<dirs, said, importLeft>>
    <3>1. /\ cat' \in CatalogueType /\ cat'.final = cat.final
          /\ \A i \in Ids : cat'.lease[i] # "none" => cat.lease[i] # "none"
      BY Zenon, <1>0, <2>1, <2>2 DEF ImportRolledBack, CatalogueType, Leases
    <3>2. "clean" \in Working \ {"committed"}
      BY DEF Working
    <3> QED
      BY <1>0, <2>1, <2>2, <3>1, <3>2, WorkStep DEF AtWork
  <2>3. CASE /\ Spend /\ \E rest \in SUBSET cat.temp[id] : cat' = [cat EXCEPT !.temp[id] = rest]
             /\ Return(s, "pending") /\ UNCHANGED dirs
    <3>1. PICK rest \in SUBSET cat.temp[id] : cat' = [cat EXCEPT !.temp[id] = rest]
      BY <2>3
    <3>2. rest \in SUBSET Batch
      BY <1>0, <2>1 DEF CatalogueType
    <3>3. cat' \in CatalogueType /\ cat'.final = cat.final /\ cat'.lease = cat.lease
      BY <1>0, <2>1, <3>1, <3>2, TempSet
    <3>4. "pending" \in Answers \ {"nothing", "killed"}
      BY DEF Answers
    <3> QED
      BY <1>0, <1>d, <2>1, <2>3, <3>3, <3>4, AnswerStep
  <2> QED
    BY <1>13, <1>e, <2>2, <2>3 DEF RollbackImport
<1>14. CASE CleanFailed(s)
  <2>1. /\ svc[s].pc = "clean" /\ svc[s].pc \in Working /\ UNCHANGED cat
        /\ Cleaned(s, "failed", "pending")
    BY <1>14 DEF CleanFailed, Working
  <2>2. importLeft' \in Nat /\ dirs' \in SUBSET Ids /\ dirs \ {svc[s].id} \subseteq dirs'
    BY <1>0, <1>d, <2>1 DEF Cleaned
  <2>3. PICK what \in {"failed", "pending"} : Return(s, what)
    BY <2>1 DEF Cleaned
  <2>4. what \in Answers \ {"nothing", "killed"}
    BY DEF Answers
  <2> QED
    BY <1>0, <2>1, <2>2, <2>3, <2>4, AnswerStep
<1>15. CASE AdmitImport(s)
  <2> DEFINE i == CHOOSE j \in Ids \ Drawn : TRUE
             w == [Ready EXCEPT !.pc = "begin", !.id = i]
  <2>1. /\ svc[s].pc = "ready" /\ Ids # Drawn /\ cat' = Recovered /\ svc' = [svc EXCEPT ![s] = w]
        /\ UNCHANGED <<dirs, said, importLeft>>
    BY <1>15 DEF AdmitImport
  <2>2. i \in Ids \ Drawn
    BY <2>1 DEF Drawn
  <2> HIDE DEF i
  <2>3. w \in ServiceType /\ w.id = i /\ w.pc = "begin"
    BY Zenon, <2>2 DEF Ready, Closed, ServiceType, ServicePc, Working
  <2> HIDE DEF w
  <2>4. /\ svc' \in [Services -> ServiceType] /\ \A t \in Services : t # s => svc'[t] = svc[t]
        /\ svc'[s] = w
    BY Zenon, <2>1, <2>3, ServiceSet
  <2>5. Beside(s)
    BY <1>0, <2>1, <2>4, RecoveredFacts DEF Beside
  <2>6. svc[s].id = NoImport
    BY <1>a, <1>e, <2>1 DEF Working
  <2> QED
    BY <2>1, <2>2, <2>3, <2>4, <2>5, <2>6, ImportAdmitted
<1>16. CASE CloseService(s) \/ KillService(s)
  <2>1. /\ svc' = [svc EXCEPT ![s] = Closed] /\ UNCHANGED <<cat, dirs>> /\ importLeft' \in Nat
        /\ said' = IF svc[s].id = NoImport THEN said ELSE [said EXCEPT ![svc[s].id] = "killed"]
    <3>1. CASE CloseService(s)
      BY <1>0, <1>a, <1>e, <3>1 DEF CloseService, Working
    <3>2. CASE KillService(s)
      BY <1>d, <3>2 DEF KillService
    <3> QED
      BY <1>16, <3>1, <3>2
  <2>2. /\ svc' \in [Services -> ServiceType] /\ \A t \in Services : t # s => svc'[t] = svc[t]
        /\ svc'[s].id = NoImport /\ svc'[s].pc \notin Working
    BY Zenon, <2>1, IdleTyped, ServiceSet DEF Working
  <2>3. "killed" \in Answers \ {"nothing"}
    BY DEF Answers
  <2>4. /\ said' \in [Ids -> Answers] /\ \A i \in Ids : i # svc[s].id => said'[i] = said[i]
        /\ svc[s].id # NoImport => said'[svc[s].id] = "killed"
    BY <1>0, <1>a, <1>e, <2>1, <2>3
  <2>5. Beside(s)
    BY <1>0, <2>1, <2>2 DEF Beside
  <2> QED
    BY <2>1, <2>2, <2>3, <2>4, <2>5, ImportEnds
<1> QED
  BY <1>1, <1>2, <1>3, <1>4, <1>5, <1>6, <1>7, <1>9, <1>10, <1>11, <1>12, <1>13, <1>14, <1>15, <1>16
  DEF ImportStep

\* Every step keeps the invariant.
LEMMA ImportKept == ImportInv /\ [ImportNext]_importVars => ImportInv'
<1> SUFFICES ASSUME ImportInv, [ImportNext]_importVars PROVE ImportInv'
  OBVIOUS
<1>1. ASSUME NEW i \in Ids, LeaseExpires(i) PROVE ImportInv'
  <2>1. /\ cat.lease[i] = "live" /\ cat' = [cat EXCEPT !.lease[i] = "stale"] /\ cat \in CatalogueType
        /\ UNCHANGED <<svc, dirs, said, importLeft>> /\ "stale" \in Leases
    BY <1>1 DEF LeaseExpires, ImportInv, ImportTypeOK, Leases
  <2>2. /\ cat' \in CatalogueType /\ cat'.final = cat.final
        /\ \A j \in Ids : cat'.lease[j] # "none" => cat.lease[j] # "none"
    BY <2>1, LeaseSet
  <2>3. ImportTypeOK' /\ OwnImport' /\ OwnerGets' /\ ImportIsWhole'
    BY <2>1, <2>2 DEF ImportInv, ImportTypeOK, OwnImport, OwnerGets, ImportSafe, ImportIsWhole
  <2>4. StagingOutlivesLease'
    <3> SUFFICES ASSUME NEW s \in Services, svc[s].pc \in AtWork, cat'.lease[svc[s].id] # "none"
                 PROVE  svc[s].id \in dirs
      BY <2>1 DEF StagingOutlivesLease, Live, AtWork
    <3>1. svc[s].id \in Ids
      BY Working1 DEF AtWork, Working
    <3> QED
      BY <2>2, <3>1 DEF ImportInv, ImportSafe, StagingOutlivesLease, Live, AtWork
  <2> QED
    BY <2>3, <2>4 DEF ImportInv, ImportSafe
<1>2. CASE UNCHANGED importVars
  BY <1>2 DEF importVars, ImportInv, ImportTypeOK, OwnImport, OwnerGets, ImportSafe, ImportIsWhole,
     StagingOutlivesLease, Live
<1> QED
  BY <1>1, <1>2, ImportServiceStep DEF ImportNext

\* However many processes import, recover and die over one staging root: an import reaches
\* its owner as a whole or not at all, as import_reader answered, and recovery never removes
\* the staging directory of an import whose session lease is alive.
THEOREM ImportIsSafe == ImportSpec => []ImportSafe
<1>1. ImportInv => ImportSafe
  BY DEF ImportInv
<1> QED
  BY <1>1, ImportStarts, ImportKept, PTL DEF ImportSpec
=============================================================================
