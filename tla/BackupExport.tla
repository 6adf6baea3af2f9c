---------------------------- MODULE BackupExport ----------------------------
(***************************************************************************)
(* export_backup (crates/lorepia-backup/src/export.rs) on top of the asset *)
(* store: a resumable export that pins the active objects under a lease,   *)
(* copies the catalogue, copies the objects page by page, builds and       *)
(* verifies a manifest, gives the lease back and renames the partial       *)
(* directory to the destination.                                           *)
(*                                                                         *)
(* `pkg` is the partial directory (it survives a crash) and `exp` the call *)
(* in progress (it does not).  While the export runs, the handles of       *)
(* AssetStore ingest, sweep, expire leases and open.                       *)
(***************************************************************************)
EXTENDS AssetStore

VARIABLES pkg, exp

exportVars == <<pkg, exp>>
vars == <<assetVars, exportVars>>

Phases == <<"prepared", "product", "catalog", "objects", "ready">>
Reached(phase, p) ==
  \E m, n \in DOMAIN Phases : m >= n /\ Phases[m] = phase /\ Phases[n] = p

NoPartial == [dir |-> "none", session |-> Nil, phase |-> "prepared", product |-> FALSE,
              catalog |-> {}, files |-> {}, cursor |-> 0, manifest |-> {}, published |-> FALSE]

ExportInit == pkg = NoPartial /\ exp = [pc |-> "off", used |-> {}]

ExportAt(i, pc) == Called(i, "export") /\ exp.pc = pc
Then(pc) == exp' = [exp EXCEPT !.pc = pc]
KeepStore == UNCHANGED <<db, disk, writer>>
KeepEnvironment == UNCHANGED <<op, batch, lost, tasks, crashes, faults>>

\* export_backup_resumable drops expired leases first, its own included.
ExportStart(i) ==
  /\ ExportAt(i, "off") /\ ~pkg.published
  /\ Commit(i, Expire(db)) /\ Then("enter")
  /\ UNCHANGED <<disk, pkg>> /\ KeepEnvironment

\* A partial directory without its journal is empty and goes; otherwise a new
\* directory is made, or the journal decides where to go on.
ExportEnter(i) ==
  /\ ExportAt(i, "enter")
  /\ \/ /\ pkg.dir # "journal"
        /\ pkg' = [NoPartial EXCEPT !.dir = "empty"] /\ Then("journal")
     \/ /\ pkg.dir = "journal"
        /\ Then(IF Reached(pkg.phase, "catalog") THEN "resume" ELSE "product") /\ UNCHANGED pkg
  /\ KeepStore /\ KeepEnvironment

\* The first journal, with a new session id.
ExportJournal(i) ==
  /\ ExportAt(i, "journal")
  /\ \E s \in Exports \ exp.used :
       /\ pkg' = [pkg EXCEPT !.dir = "journal", !.session = s]
       /\ exp' = [pc |-> "product", used |-> exp.used \cup {s}]
  /\ KeepStore /\ KeepEnvironment

\* Mutant: any lease will do, whatever it pins.
LeaseRow == db.pins[pkg.session] # "none"

\* require_snapshot_lease: the row is there and pins as many objects as the
\* catalogue copy lists.
LeaseHolds ==
  /\ db.pins[pkg.session] # "none"
  /\ Cardinality(RefsOf(pkg.session)) = Cardinality(pkg.catalog)

\* renew_backup_snapshot also renews a lease that is not found good enough.
Renewed == IF db.pins[pkg.session] = "none" THEN db ELSE [db EXCEPT !.pins[pkg.session] = "live"]

\* A resumed export whose lease is gone starts again.
ExportResume(i) ==
  /\ ExportAt(i, "resume") /\ Commit(i, Renewed)
  /\ Then(IF LeaseHolds THEN "product" ELSE "restart")
  /\ UNCHANGED <<disk, pkg>> /\ KeepEnvironment

ProductSnapshot(i) ==
  /\ ExportAt(i, "product")
  /\ pkg' = IF pkg.product /\ Reached(pkg.phase, "product") THEN pkg
            ELSE [pkg EXCEPT !.product = TRUE, !.phase = "product"]
  /\ Then(IF Reached(pkg.phase, "catalog") THEN "lease" ELSE "pin")
  /\ KeepStore /\ KeepEnvironment

\* begin_backup_snapshot commits the pins before it copies the catalogue.
PinObjects(i) ==
  /\ ExportAt(i, "pin") /\ RoomForExport(pkg.session)
  /\ Commit(i, Pinned(pkg.session)) /\ Then("copy_catalog")
  /\ UNCHANGED <<disk, pkg>> /\ KeepEnvironment

\* The copy shows what is committed by now, without the operational rows.
CopyCatalog(i) ==
  /\ ExportAt(i, "copy_catalog")
  /\ pkg' = [pkg EXCEPT !.catalog = Active(db.rows), !.phase = "catalog"]
  /\ Then("lease")
  /\ KeepStore /\ KeepEnvironment

\* One require_snapshot_lease: before the objects, on each page of them, and
\* before the manifest.
RequireLease(i) ==
  /\ ExportAt(i, "lease") /\ Commit(i, Renewed)
  /\ \/ /\ LeaseHolds
        /\ Then(IF \E h \in pkg.catalog : h > pkg.cursor THEN "object" ELSE "manifest")
     \/ ~LeaseHolds /\ Then("abandon")
  /\ UNCHANGED <<disk, pkg>> /\ KeepEnvironment

\* export_object needs an active row and the file; the copy is hashed afterwards.
Readable(h) == db.rows[h] = "active" /\ disk.objects[h] = "good"

\* copy_snapshot_objects: an object already copied is hashed and kept.
CopyObject(i) ==
  /\ ExportAt(i, "object")
  /\ LET h == Min({x \in pkg.catalog : x > pkg.cursor}) IN
     \/ /\ h \in pkg.files \/ Readable(h)
        /\ pkg' = [pkg EXCEPT !.files = @ \cup {h}, !.cursor = h] /\ Then("lease")
     \/ /\ h \notin pkg.files /\ ~Readable(h)
        /\ Then("abandon") /\ UNCHANGED pkg
  /\ KeepStore /\ KeepEnvironment

\* build_manifest lists what the catalogue lists and hashes each file of it.
BuildManifest(i) ==
  /\ ExportAt(i, "manifest") /\ pkg.catalog \subseteq pkg.files
  /\ pkg' = [pkg EXCEPT !.phase = "ready", !.manifest = pkg.catalog] /\ Then("verify")
  /\ KeepStore /\ KeepEnvironment

\* The lease is required again around verify_manifest_entries and the scan.
VerifyManifest(i) ==
  /\ ExportAt(i, "verify") /\ Commit(i, Renewed)
  /\ Then(IF LeaseHolds /\ pkg.manifest \subseteq pkg.files THEN "release" ELSE "abandon")
  /\ UNCHANGED <<disk, pkg>> /\ KeepEnvironment

\* abandon_backup_snapshot and release_backup_snapshot.
Released(s) == WithoutSessions(db, {s})

ReleaseSnapshot(i) ==
  /\ ExportAt(i, "release")
  /\ Commit(i, Released(pkg.session)) /\ Then("publish")
  /\ UNCHANGED <<disk, pkg>> /\ KeepEnvironment

Publish(i) ==
  /\ ExportAt(i, "publish")
  /\ pkg' = [pkg EXCEPT !.dir = "none", !.published = TRUE] /\ Then("off")
  /\ KeepStore /\ KeepEnvironment

\* abandon_export: the lease named by the journal, then the directory.
AbandonLease(i) ==
  /\ exp.pc \in {"abandon", "restart"} /\ ExportAt(i, exp.pc)
  /\ Commit(i, Released(pkg.session))
  /\ Then(IF exp.pc = "restart" THEN "remove_restart" ELSE "remove")
  /\ UNCHANGED <<disk, pkg>> /\ KeepEnvironment

RemovePartial(i) ==
  /\ exp.pc \in {"remove", "remove_restart"} /\ ExportAt(i, exp.pc)
  /\ pkg' = NoPartial
  /\ Then(IF exp.pc = "remove_restart" THEN "enter" ELSE "off")
  /\ KeepStore /\ KeepEnvironment

\* A cancelled export, one short of space and an I/O error leave everything for
\* a resume; any other error (a second mutation on the handle, a bad database, no
\* room for a session) abandons the export.  A failed or cancelled catalogue copy gives the pins up.
ExportFails(i) ==
  /\ exp.pc \notin {"off", "abandon", "restart", "remove", "remove_restart"}
  /\ ExportAt(i, exp.pc) /\ faults > 0 /\ faults' = faults - 1
  /\ \/ Then("off") /\ exp.pc # "copy_catalog" /\ UNCHANGED <<db, writer>>
     \/ pkg.dir = "journal" /\ exp.pc # "copy_catalog" /\ Then("abandon") /\ UNCHANGED <<db, writer>>
     \/ /\ exp.pc = "copy_catalog" /\ Commit(i, Released(pkg.session))
        /\ \E next \in {"off", "abandon"} : Then(next)
  /\ UNCHANGED <<disk, pkg, op, batch, lost, tasks, crashes>>

ExportStep(i) ==
  \/ ExportStart(i) \/ ExportEnter(i) \/ ExportJournal(i) \/ ExportResume(i)
  \/ ProductSnapshot(i) \/ PinObjects(i) \/ CopyCatalog(i) \/ RequireLease(i)
  \/ CopyObject(i) \/ BuildManifest(i) \/ VerifyManifest(i) \/ ReleaseSnapshot(i)
  \/ Publish(i) \/ AbandonLease(i) \/ RemovePartial(i) \/ ExportFails(i)

\* A crash ends the call and keeps the directory.
CrashExport == Crash /\ exp' = [exp EXCEPT !.pc = "off"] /\ UNCHANGED pkg

Next ==
  \/ \E i \in Handles : ExportStep(i)
  \/ (\E i \in Handles : HandleStep(i)) /\ UNCHANGED exportVars
  \/ (TimePasses \/ Decay) /\ UNCHANGED exportVars
  \/ CrashExport
-----------------------------------------------------------------------------
(* Properties.                                                             *)

\* A pin belongs to a session that has a lease row, so cleanup by lease age finds
\* every pin: nothing the export dies of leaves an object referenced for good.
PinsAreLeased ==
  \A s \in Exports, h \in Hashes : <<h, s>> \in db.refs => db.pins[s] # "none"

\* Once the lease was required, every object of the catalogue copy is pinned or
\* already copied, although the copy is made after the pins and other handles ingest between.
SnapshotPinned ==
  [][(exp.pc = "lease" /\ exp'.pc \in {"object", "manifest"}) =>
       pkg.catalog \subseteq RefsOf(pkg.session) \cup pkg.files]_vars

\* A published package holds the product database and a good file for every
\* object its catalogue lists, also when it was resumed from an older attempt,
\* and leaves no lease behind.
PublishedComplete ==
  pkg.published =>
    /\ pkg.product /\ pkg.manifest = pkg.catalog /\ pkg.catalog \subseteq pkg.files
    /\ db.pins[pkg.session] = "none"

\* A published package is complete, its objects were pinned while they were copied, and every
\* pin can be found by its lease.
ExportSafe ==
    []PublishedComplete /\ SnapshotPinned /\ []PinsAreLeased

=============================================================================
