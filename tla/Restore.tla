------------------------------ MODULE Restore -------------------------------
(***************************************************************************)
(* restore_backup (crates/lorepia-backup/src/restore.rs): a backup package *)
(* is copied to a staging directory beside the destination, verified, and  *)
(* put in the destination's place by renames, with a journal that lets a   *)
(* later call continue an interrupted one.                                 *)
(*                                                                         *)
(* Every change of the file system is one step, a write of the journal     *)
(* included (it is atomic and synced).  Between any two steps the call may *)
(* stop: a crash, an I/O error, too little space, a missing package or a   *)
(* cancel seen by notify all leave the disk as it is and return or lose    *)
(* control.  The next call starts from the disk alone.  All calls restore  *)
(* the same package to the same destination, one at a time.                *)
(***************************************************************************)
EXTENDS Naturals

CONSTANTS
  MaxStops,    \* bound on the calls that stop between two steps
  MaxCancels   \* bound on the interrupted validations of published data

ASSUME ConstantsAssumption ==
  MaxStops \in Nat /\ MaxCancels \in Nat

VARIABLES
  dest,      \* the tree at the destination
  staging,   \* the tree at .<name>.restore-partial
  old,       \* the tree at .<name>.restore-old
  journal,   \* what the journal file holds
  progress,  \* the BackupProgress of the running call
  policy,    \* RestoreOptions::policy of the running call
  resumed,   \* the running call found a journal
  pc,        \* position in restore_backup
  stops,     \* stops left
  cancels,   \* interrupted validations left
  hadData    \* there was data at the destination before

disk == <<dest, staging, old, journal>>
vars == <<disk, progress, policy, resumed, pc, stops, cancels, hadData>>

\* "old" is the data that was there before, "torn" the same after some of its
\* files were removed, "part" a package copied in part, "new" all of it.
Tree == {"absent", "empty", "part", "new", "old", "torn"}

Phase == {"prepared", "copied", "verified", "oldMoved", "newPublished", "complete"}

NoJournal == [phase |-> "none", replaced |-> FALSE]

Journal == [phase : Phase, replaced : BOOLEAN] \cup {NoJournal}

Policy == {"failIfPresent", "replace"}

Pc == {"idle", "fresh", "undo", "undone", "rewind", "load", "create", "begin",
       "reconcile", "copy", "copied", "check", "moveOld", "movedOld", "publish",
       "published", "validate", "rollbackNew", "rollbackOld", "rolledBack",
       "removeOld", "complete", "removeJournal", "done"}

Exists(tree) == tree # "absent"

Init ==
  /\ hadData \in BOOLEAN
  /\ dest = IF hadData THEN "old" ELSE "absent"
  /\ staging = "absent" /\ old = "absent"
  /\ journal = NoJournal /\ progress = NoJournal
  /\ policy = "replace" /\ resumed = FALSE
  /\ pc = "idle"
  /\ stops = MaxStops /\ cancels = MaxCancels

GoTo(p) == pc' = p

\* Return an error: what the call held in memory is gone.
Fail == pc' = "idle" /\ progress' = NoJournal

Record(phase) ==
  /\ progress' = [progress EXCEPT !.phase = phase]
  /\ journal' = [progress EXCEPT !.phase = phase]
-----------------------------------------------------------------------------
(* Taking up what an earlier call left.                                    *)

\* Mutant: a move back the journal does not know of is not noticed.
NeverMovedBack == FALSE

\* The old data was moved back, but the journal does not say so.
MovedBack ==
  /\ journal.phase = "oldMoved" /\ journal.replaced
  /\ Exists(dest) /\ Exists(staging) /\ ~Exists(old)

Start(p) ==
  LET undo == Exists(old) /\ ~Exists(dest)
      conflict == IF journal = NoJournal
                  THEN Exists(old) \/ staging \notin {"absent", "empty"}
                  ELSE undo /\ (~Exists(staging)
                                \/ journal.phase \notin {"verified", "oldMoved"})
  IN
  /\ pc = "idle"
  /\ policy' = p
  /\ resumed' = (journal # NoJournal)
  /\ progress' = IF conflict THEN NoJournal ELSE journal
  /\ GoTo(IF conflict THEN "idle"
          ELSE IF journal = NoJournal THEN (IF Exists(staging) THEN "fresh" ELSE "load")
          ELSE IF undo THEN "undo" ELSE IF MovedBack THEN "rewind" ELSE "load")
  /\ UNCHANGED <<disk, stops, cancels, hadData>>

\* An empty staging directory without a journal is removed.
Fresh ==
  /\ pc = "fresh"
  /\ staging' = "absent"
  /\ GoTo("load")
  /\ UNCHANGED <<dest, old, journal, progress, policy, resumed, stops, cancels, hadData>>

\* The old data was moved aside and nothing published: move it back.
Undo ==
  /\ pc = "undo"
  /\ dest' = old /\ old' = "absent"
  /\ GoTo("undone")
  /\ UNCHANGED <<staging, journal, progress, policy, resumed, stops, cancels, hadData>>

Undone ==
  /\ pc = "undone"
  /\ progress' = [phase |-> "verified", replaced |-> TRUE]
  /\ journal' = [phase |-> "verified", replaced |-> TRUE]
  /\ GoTo("load")
  /\ UNCHANGED <<dest, staging, old, policy, resumed, stops, cancels, hadData>>

Rewind ==
  /\ pc = "rewind"
  /\ Record("verified")
  /\ GoTo("load")
  /\ UNCHANGED <<dest, staging, old, policy, resumed, stops, cancels, hadData>>

\* The package's manifest; a new restore refuses existing data by default.
Load ==
  /\ pc = "load"
  /\ IF resumed THEN GoTo("begin") /\ UNCHANGED progress
     ELSE IF Exists(dest) /\ policy = "failIfPresent" THEN Fail
     ELSE /\ progress' = [phase |-> "prepared", replaced |-> Exists(dest)]
          /\ GoTo("create")
  /\ UNCHANGED <<disk, policy, resumed, stops, cancels, hadData>>

Create ==
  /\ pc = "create"
  /\ staging' = "empty"
  /\ GoTo("begin")
  /\ UNCHANGED <<dest, old, journal, progress, policy, resumed, stops, cancels, hadData>>

Begin ==
  /\ pc = "begin"
  /\ journal' = progress
  /\ GoTo("reconcile")
  /\ UNCHANGED <<dest, staging, old, progress, policy, resumed, stops, cancels, hadData>>

\* The phases run in order; a call goes on after the last that was journalled.
FirstStep ==
  [prepared |-> "copy", copied |-> "check", verified |-> "moveOld",
   oldMoved |-> "publish", newPublished |-> "validate", complete |-> "validate"]

\* A publish rename that the journal does not know of yet is caught up with.
Reconcile ==
  /\ pc = "reconcile"
  /\ IF progress.phase = "oldMoved" /\ Exists(dest) /\ ~Exists(staging)
     THEN IF dest = "new" THEN Record("newPublished") /\ GoTo("validate")
          ELSE Fail /\ UNCHANGED journal
     ELSE GoTo(FirstStep[progress.phase]) /\ UNCHANGED <<journal, progress>>
  /\ UNCHANGED <<dest, staging, old, policy, resumed, stops, cancels, hadData>>
-----------------------------------------------------------------------------
(* Copying and verifying.                                                  *)

\* copy_data_entries: every entry that is not there with the right hash is
\* copied; a staging directory that came back from the destination has them
\* all.
Copy(last) ==
  /\ pc = "copy"
  /\ IF Exists(staging)
     THEN /\ staging' = IF last \/ staging = "new" THEN "new" ELSE "part"
          /\ GoTo(IF last THEN "copied" ELSE "copy")
          /\ UNCHANGED progress
     ELSE Fail /\ UNCHANGED staging
  /\ UNCHANGED <<dest, old, journal, policy, resumed, stops, cancels, hadData>>

Copied ==
  /\ pc = "copied"
  /\ Record("copied")
  /\ GoTo("check")
  /\ UNCHANGED <<dest, staging, old, policy, resumed, stops, cancels, hadData>>

Check ==
  /\ pc = "check"
  /\ IF staging = "new" THEN Record("verified") /\ GoTo("moveOld")
     ELSE Fail /\ UNCHANGED journal
  /\ UNCHANGED <<dest, staging, old, policy, resumed, stops, cancels, hadData>>
-----------------------------------------------------------------------------
(* Publishing.                                                             *)

\* Mutant: the old data is removed instead of renamed.
MoveOldAway ==
  /\ pc = "moveOld"
  /\ IF Exists(dest)
     THEN IF policy # "replace" \/ Exists(old)
          THEN Fail /\ UNCHANGED <<dest, old>>
          ELSE /\ old' = "absent" /\ dest' = "absent"
               /\ GoTo("movedOld") /\ UNCHANGED progress
     ELSE GoTo("movedOld") /\ UNCHANGED <<dest, old, progress>>
  /\ UNCHANGED <<staging, journal, policy, resumed, stops, cancels, hadData>>

MoveOld ==
  /\ pc = "moveOld"
  /\ IF Exists(dest)
     THEN IF policy # "replace" \/ Exists(old)
          THEN Fail /\ UNCHANGED <<dest, old>>
          ELSE /\ old' = dest /\ dest' = "absent"
               /\ GoTo("movedOld") /\ UNCHANGED progress
     ELSE GoTo("movedOld") /\ UNCHANGED <<dest, old, progress>>
  /\ UNCHANGED <<staging, journal, policy, resumed, stops, cancels, hadData>>

MovedOld ==
  /\ pc = "movedOld"
  /\ Record("oldMoved")
  /\ GoTo("publish")
  /\ UNCHANGED <<dest, staging, old, policy, resumed, stops, cancels, hadData>>

Publish ==
  /\ pc = "publish"
  /\ IF Exists(dest) \/ ~Exists(staging)
     THEN Fail /\ UNCHANGED <<dest, staging>>
     ELSE /\ dest' = staging /\ staging' = "absent"
          /\ GoTo("published") /\ UNCHANGED progress
  /\ UNCHANGED <<old, journal, policy, resumed, stops, cancels, hadData>>

Published ==
  /\ pc = "published"
  /\ Record("newPublished")
  /\ GoTo("validate")
  /\ UNCHANGED <<dest, staging, old, policy, resumed, stops, cancels, hadData>>

\* validate_restored_data on the destination: its hashes are read again, which
\* a cancel or a read error may interrupt.
Validate(interrupted) ==
  /\ pc = "validate"
  /\ interrupted => cancels > 0
  /\ cancels' = IF interrupted THEN cancels - 1 ELSE cancels
  /\ GoTo(IF interrupted \/ dest # "new" THEN "rollbackNew" ELSE "removeOld")
  /\ UNCHANGED <<disk, progress, policy, resumed, stops, hadData>>

\* Mutant: the published data is removed instead of renamed.
RollbackNewAway ==
  /\ pc = "rollbackNew"
  /\ IF Exists(dest) /\ Exists(staging)
     THEN Fail /\ UNCHANGED <<dest, staging>>
     ELSE /\ dest' = "absent"
          /\ staging' = staging
          /\ GoTo("rollbackOld") /\ UNCHANGED progress
  /\ UNCHANGED <<old, journal, policy, resumed, stops, cancels, hadData>>

\* rollback_publish
RollbackNew ==
  /\ pc = "rollbackNew"
  /\ IF Exists(dest) /\ Exists(staging)
     THEN Fail /\ UNCHANGED <<dest, staging>>
     ELSE /\ dest' = "absent"
          /\ staging' = IF Exists(dest) THEN dest ELSE staging
          /\ GoTo("rollbackOld") /\ UNCHANGED progress
  /\ UNCHANGED <<old, journal, policy, resumed, stops, cancels, hadData>>

RollbackOld ==
  /\ pc = "rollbackOld"
  /\ dest' = IF Exists(old) THEN old ELSE dest
  /\ old' = "absent"
  /\ GoTo("rolledBack")
  /\ UNCHANGED <<staging, journal, progress, policy, resumed, stops, cancels, hadData>>

RolledBack ==
  /\ pc = "rolledBack"
  /\ journal' = [progress EXCEPT !.phase = "prepared"]
  /\ Fail
  /\ UNCHANGED <<dest, staging, old, policy, resumed, stops, cancels, hadData>>

\* remove_dir_all is not atomic.
RemoveOld(all) ==
  /\ pc = "removeOld"
  /\ ~all => Exists(old)
  /\ old' = IF all THEN "absent" ELSE "torn"
  /\ GoTo(IF all THEN "complete" ELSE "removeOld")
  /\ UNCHANGED <<dest, staging, journal, progress, policy, resumed, stops, cancels, hadData>>

Complete ==
  /\ pc = "complete"
  /\ Record("complete")
  /\ GoTo("removeJournal")
  /\ UNCHANGED <<dest, staging, old, policy, resumed, stops, cancels, hadData>>

RemoveJournal ==
  /\ pc = "removeJournal"
  /\ journal' = NoJournal
  /\ GoTo("done")
  /\ UNCHANGED <<dest, staging, old, progress, policy, resumed, stops, cancels, hadData>>

Stop ==
  /\ pc \notin {"idle", "done"}
  /\ stops > 0 /\ stops' = stops - 1
  /\ Fail
  /\ UNCHANGED <<disk, policy, resumed, cancels, hadData>>

Step ==
  \/ Fresh \/ Undo \/ Undone \/ Rewind \/ Load \/ Create \/ Begin \/ Reconcile
  \/ Copied \/ Check \/ MoveOld \/ MovedOld \/ Publish \/ Published
  \/ RollbackNew \/ RollbackOld \/ RolledBack \/ Complete \/ RemoveJournal

Next ==
  \/ Step \/ Stop
  \/ \E p \in Policy : Start(p)
  \/ \E last \in BOOLEAN : Copy(last) \/ RemoveOld(last)
  \/ \E interrupted \in BOOLEAN : Validate(interrupted)

Spec == Init /\ [][Next]_vars

\* A running call goes on, its loops over the manifest and the old tree end,
\* and a restore that failed is tried again, asking to replace.
Fairness ==
  /\ WF_vars(Step)
  /\ WF_vars(Copy(TRUE)) /\ WF_vars(RemoveOld(TRUE)) /\ WF_vars(Validate(FALSE))
  /\ SF_vars(Start("replace"))

FairSpec == Spec /\ Fairness
-----------------------------------------------------------------------------
\* The trees, the journal and the control state have their types.
TypeOK ==
  /\ dest \in Tree /\ staging \in Tree /\ old \in Tree
  /\ journal \in Journal /\ progress \in Journal
  /\ policy \in Policy /\ resumed \in BOOLEAN
  /\ pc \in Pc
  /\ stops \in Nat /\ cancels \in Nat /\ hadData \in BOOLEAN

\* Nothing is ever published that was not verified: whatever calls stopped
\* where, the destination holds no tree that was copied in part.
DestinationNotPartial == dest \notin {"empty", "part"}

\* A whole copy of the data exists at every moment of a replacement, the old
\* one at the destination or beside it, or the new one at the destination or
\* in staging.
NothingLost ==
  hadData => "old" \in {dest, old} \/ "new" \in {dest, staging}

\* Wherever restore_backup stops and however often it is called again, a whole copy of the
\* data exists and no partial copy is at the destination.
DataSafe ==
  NothingLost /\ DestinationNotPartial

\* restore_backup gives up the old data only for new data that is in place
\* and journalled as published: no rename, rollback or resumed call loses it
\* before.
OldGivenUpLast ==
  [][ "old" \in {dest, old} /\ "old" \notin {dest', old'} =>
        dest = "new" /\ journal.phase \in {"newPublished", "complete"} ]_vars

\* An interrupted restore can be resumed: restore_backup ends with the
\* package's data at the destination, however often earlier calls stopped.
RestoreCompletes == <>(pc = "done" /\ dest = "new")

\* A call stopped between the renames of rollback_publish and the journal
\* write after them, and there is data to put back or put back already.
RollbackCut ==
  /\ pc = "idle" /\ journal.phase = "newPublished"
  /\ Exists(staging) /\ (Exists(old) \/ Exists(dest))

\* A restore that is stopped anywhere else, or whose published data fails its
\* validation and is rolled back, is completed by later calls: only a stop
\* inside the rollback keeps restore_backup from resuming.
RestoreResumes == <>(pc # "idle") => (<>RollbackCut \/ RestoreCompletes)
=============================================================================
