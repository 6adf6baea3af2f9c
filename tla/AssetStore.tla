----------------------------- MODULE AssetStore -----------------------------
(***************************************************************************)
(* AssetStore (crates/lorepia-assets/src/store.rs, catalog.rs and          *)
(* secure_fs.rs): content-addressed files with a SQLite catalogue that     *)
(* owns references, leases, the quota ledger and the recovery records of   *)
(* staging and quarantine.                                                 *)
(*                                                                         *)
(* A handle is one AssetStore value.  mutation_lock lets a handle run one  *)
(* mutation at a time (a second one gets MutationBusy and changes          *)
(* nothing), but handles on the same directory only meet in SQLite: an     *)
(* IMMEDIATE transaction holds the write lock `writer` until it commits.   *)
(* Files change outside that protection, and a crash keeps every file      *)
(* change while it undoes the open transaction.  So one step is one file   *)
(* operation or one committed statement or transaction, and a transaction  *)
(* with a file operation inside it takes two.                              *)
(***************************************************************************)
EXTENDS Naturals, FiniteSets, FiniteSetsExt

CONSTANTS
  Hashes,        \* the objects, ordered as their hashes are
  Stray,         \* a file name in a shard that is no hash of that shard
  Size,          \* bytes of each object
  MaxTotalBytes, \* AssetLimits::max_total_bytes
  Handles,       \* AssetStore values open on the one directory
  Durable,       \* permanent owners (characters, cards)
  Importers,     \* temporary owners, as numbers (ORDER BY owner_id)
  Exports,       \* backup sessions
  StagingNames,  \* names allocate_staging may draw
  QuarantineNames, \* names quarantine_file may draw, as numbers
  MaxSessions,   \* MAX_TEMPORARY_OWNER_SESSIONS, MAX_BACKUP_SNAPSHOT_SESSIONS
  Nil            \* no value

ASSUME AssetConstants ==
  /\ Hashes \subseteq Nat /\ Importers \subseteq Nat /\ QuarantineNames \subseteq Nat
  /\ IsFiniteSet(Hashes) /\ Size \in [Hashes -> Nat] /\ MaxTotalBytes \in Nat
  /\ Stray \notin Hashes /\ Nil \notin Hashes /\ MaxSessions \in Nat \ {0}

VARIABLES
  db,      \* the committed catalogue
  disk,    \* the files: objects, staging and quarantine
  writer,  \* the handle inside an IMMEDIATE transaction, or Nil
  op,      \* what each handle is doing
  batch,   \* what each importer at work has ingested, in its memory
  lost,    \* objects whose file went without a transaction that says so
  tasks,   \* the operations the environment calls on each handle
  crashes, faults  \* crashes, and damaged files or I/O errors, still to come

assetVars == <<db, disk, writer, op, batch, lost, tasks, crashes, faults>>

Paths == Hashes \cup {Stray}
Owners == Durable \cup Importers \cup Exports
Content == {"absent", "good", "bad"}
Lease == {"none", "live", "stale"}
NoIntent == [what |-> "none", phase |-> "none", path |-> Nil]

Idle == [pc |-> "idle", hash |-> Nil, owner |-> Nil, name |-> Nil, quar |-> Nil,
         dup |-> FALSE, todo |-> {}, then |-> "idle"]

EmptyTotals == [objects |-> 0, bytes |-> 0, refs |-> 0, missing |-> 0,
                quarantined |-> 0, staging |-> 0]

\* A workload says what is called, what may fail, and what lies in a shard.
AssetInit(workload) ==
  /\ db = [rows |-> [h \in Hashes |-> "none"], qname |-> [h \in Hashes |-> Nil],
           old |-> {}, refs |-> {}, lease |-> [t \in Importers |-> "none"],
           pins |-> [s \in Exports |-> "none"], staging |-> {}, quarantine |-> {},
           intents |-> [q \in QuarantineNames |-> NoIntent], totals |-> EmptyTotals]
  /\ disk = [objects |-> [p \in Paths |-> IF p = Stray THEN workload.stray ELSE "absent"],
             staging |-> {}, quarantine |-> [q \in QuarantineNames |-> "absent"],
             linked |-> {}]
  /\ writer = Nil /\ op = [i \in Handles |-> Idle]
  /\ batch = [t \in Importers |-> Nil] /\ lost = {}
  /\ tasks = workload.tasks /\ crashes = workload.crashes /\ faults = workload.faults
-----------------------------------------------------------------------------
(* The catalogue.                                                          *)

ActiveSize(rows, h) == IF rows[h] = "active" THEN Size[h] ELSE 0
Active(rows) == {h \in Hashes : rows[h] = "active"}
Catalogued(rows) == {h \in Hashes : rows[h] # "none"}
Missing(rows) == {h \in Hashes : rows[h] = "missing"}
RefsOf(o) == {h \in Hashes : <<h, o>> \in db.refs}
Unreferenced(h) == \A o \in Owners : <<h, o>> \notin db.refs

Bytes(rows, hs) == MapThenSumSet(LAMBDA h : ActiveSize(rows, h), hs)
Inserted(was, is) == Catalogued(is) \ Catalogued(was)
Deleted(was, is) == Catalogued(was) \ Catalogued(is)
Kept(was, is) == Catalogued(was) \cap Catalogued(is)

\* active_bytes after the insert, update and delete triggers.
ActiveBytes(total, was, is) ==
  total + Bytes(is, Inserted(was, is)) + Bytes(is, Kept(was, is))
        - Bytes(was, Kept(was, is)) - Bytes(was, Deleted(was, is))

Count(total, was, is) == total + Cardinality(is \ was) - Cardinality(was \ is)

\* What the triggers make of asset_totals when a transaction commits.
Totals(was, is) ==
  LET t == was.totals IN
  [objects |-> Count(t.objects, Catalogued(was.rows), Catalogued(is.rows)),
   bytes |-> ActiveBytes(t.bytes, was.rows, is.rows),
   refs |-> Count(t.refs, was.refs, is.refs),
   missing |-> Count(t.missing, Missing(was.rows), Missing(is.rows)),
   quarantined |-> Count(t.quarantined, was.quarantine, is.quarantine),
   staging |-> Count(t.staging, was.staging, is.staging)]

\* Statements of another handle wait while a transaction holds the write lock.
Unlocked(i) == writer \in {Nil, i}

\* Rows leave with the references to them (ON DELETE CASCADE), and the
\* triggers keep the totals.
Commit(i, is) ==
  /\ Unlocked(i) /\ writer' = Nil
  /\ LET kept == [is EXCEPT !.refs = {r \in @ : is.rows[r[1]] # "none"}] IN
     db' = [kept EXCEPT !.totals = Totals(db, kept)]

\* The object path loses its name; a quarantine link of it is the only one left.
Unlink(p) == [disk EXCEPT !.objects[p] = "absent",
                          !.linked = {q \in @ : db.intents[q].path # p}]

Goto(i, pc) == op' = [op EXCEPT ![i].pc = pc]
Done(i) == op' = [op EXCEPT ![i] = Idle]
\* A mutation starts when its environment calls it and mutation_guard is free.
Called(i, task) == task \in tasks[i] /\ op[i].pc = "idle"
Start(i, fields) == op' = [op EXCEPT ![i] = fields]
At(i, pc) == op[i].pc = pc
Rest == UNCHANGED <<batch, lost, tasks, crashes, faults>>
-----------------------------------------------------------------------------
(* ingest.                                                                 *)

\* allocate_staging inserts the row before it creates the file.
IngestAllocate(i) ==
  /\ Called(i, "ingest")   \* an importer ingests and settles on one handle
  /\ \E h \in Hashes, o \in Durable \cup Importers \cup {Nil}, n \in StagingNames \ db.staging :
       /\ o \in Importers => "import" \in tasks[i] /\ batch[o] # Nil
       /\ Commit(i, [db EXCEPT !.staging = @ \cup {n}])
       /\ Start(i, [Idle EXCEPT !.pc = "copy", !.hash = h, !.owner = o, !.name = n])
  /\ UNCHANGED disk /\ Rest

\* create_new_file, copy_and_hash and the MIME check.  Cancelled, empty, too
\* large and mismatched content goes to the cleanup; when the file cannot be
\* created its row is deleted again.
IngestCopy(i) ==
  /\ At(i, "copy")
  /\ \/ /\ disk' = [disk EXCEPT !.staging = @ \cup {op[i].name}]
        /\ \E next \in {"prepare", "unstage"} : Goto(i, next)
        /\ UNCHANGED <<db, writer>>
     \/ /\ Commit(i, [db EXCEPT !.staging = @ \ {op[i].name}])
        /\ Done(i) /\ UNCHANGED disk
  /\ Rest

\* quarantine_file: an intent is recorded before the file is touched.
Quarantine(i, p, state) ==
  /\ \E q \in QuarantineNames :
       /\ db.intents[q] = NoIntent /\ q \notin db.quarantine /\ disk.quarantine[q] = "absent"
       /\ Commit(i, [db EXCEPT !.intents[q] = [what |-> "move", phase |-> "prepared", path |-> p]])
       /\ Start(i, [state EXCEPT !.pc = "move", !.quar = q])
  /\ UNCHANGED disk

\* prepare_destination hashes what is at the object's path.
IngestPrepare(i) ==
  /\ At(i, "prepare")
  /\ \/ /\ disk.objects[op[i].hash] # "bad"
        /\ op' = [op EXCEPT ![i].pc = "begin", ![i].dup = disk.objects[op[i].hash] = "good"]
        /\ UNCHANGED <<db, disk, writer>>
     \/ /\ disk.objects[op[i].hash] = "bad"
        /\ Quarantine(i, op[i].hash, [op[i] EXCEPT !.then = "begin"])
  /\ Rest

\* The bytes other active objects take, and this one.
WithinQuota(h) == db.totals.bytes - ActiveSize(db.rows, h) + Size[h] <= MaxTotalBytes

IngestBegin(i) ==
  /\ At(i, "begin") /\ writer = Nil
  /\ \/ WithinQuota(op[i].hash) /\ writer' = i /\ Goto(i, "publish")
     \/ ~WithinQuota(op[i].hash) /\ writer' = writer /\ Goto(i, "unstage")
  /\ UNCHANGED <<db, disk>> /\ Rest

\* destination_matches_expectation looks again inside the transaction.
Destination(i) == disk.objects[op[i].hash]

\* publish_or_deduplicate: link the staged file, or find the object there.
IngestPublish(i) ==
  /\ At(i, "publish")
  /\ LET d == Destination(i)
         links == d = "absent" /\ op[i].name \in disk.staging IN
     \/ /\ links \/ d \in {"good", "there"}
        /\ disk' = IF links THEN [disk EXCEPT !.objects[op[i].hash] = "good"] ELSE disk
        /\ Goto(i, "commit") /\ UNCHANGED writer
     \/ /\ ~links /\ d \notin {"good", "there"}
        /\ writer' = Nil /\ Goto(i, "unstage") /\ UNCHANGED disk
  /\ UNCHANGED db /\ Rest

\* The object row, the reference, and the importer learns of its object.  When
\* the shard cannot be synced the transaction is dropped and the file stays.
IngestCommit(i) ==
  /\ At(i, "commit")
  /\ LET h == op[i].hash  o == op[i].owner IN
     \/ /\ Commit(i, [db EXCEPT !.rows[h] = "active", !.qname[h] = Nil,
                                !.old = IF db.rows[h] = "none" THEN @ \ {h} ELSE @,
                                !.refs = IF o = Nil THEN @ ELSE @ \cup {<<h, o>>}])
        /\ batch' = IF o \in Importers THEN [batch EXCEPT ![o] = @ \cup {h}] ELSE batch
        /\ lost' = lost \cap {x \in Hashes : disk.objects[x] = "absent"}
     \/ writer' = Nil /\ UNCHANGED <<db, batch, lost>>
  /\ Goto(i, "unstage")
  /\ UNCHANGED <<disk, tasks, crashes, faults>>

\* Mutant: cleanup_staged_file deletes the row before the file.
ForgetFirst(i) ==
  /\ At(i, "unstage")
  /\ Commit(i, [db EXCEPT !.staging = @ \ {op[i].name}])
  /\ Goto(i, "forget") /\ UNCHANGED disk /\ Rest

\* cleanup_staged_file and the staging half of cleanup_internal.
UnlinkStaged(i) ==
  /\ At(i, "unstage")
  /\ disk' = [disk EXCEPT !.staging = @ \ {op[i].name}]
  /\ Goto(i, "forget")
  /\ UNCHANGED <<db, writer>> /\ Rest

ForgetStaged(i) ==
  /\ At(i, "forget")
  /\ Commit(i, [db EXCEPT !.staging = @ \ {op[i].name}])
  /\ Done(i) /\ UNCHANGED disk /\ Rest

CleanupStaging(i) ==
  /\ Called(i, "maintain")
  /\ \E n \in db.staging : Start(i, [Idle EXCEPT !.pc = "unstage", !.name = n])
  /\ UNCHANGED <<db, disk, writer>> /\ Rest
-----------------------------------------------------------------------------
(* References and temporary owners.                                        *)

\* add_refs: all of them, and only to active objects.
AddRefs(i) ==
  /\ Called(i, "refs")
  /\ \E o \in Durable, hs \in SUBSET Active(db.rows) :
       hs # {} /\ Commit(i, [db EXCEPT !.refs = @ \cup (hs \X {o})])
  /\ UNCHANGED <<disk, op>> /\ Rest

\* remove_refs, and remove_owner_refs when it names all of them.
RemoveRefs(i) ==
  /\ Called(i, "refs")
  /\ \E o \in Durable, hs \in SUBSET Hashes :
       hs # {} /\ Commit(i, [db EXCEPT !.refs = @ \ (hs \X {o})])
  /\ UNCHANGED <<disk, op>> /\ Rest

LiveSessions == {t \in Importers : db.lease[t] # "none"}

BeginSession(i) ==
  /\ Called(i, "import") /\ Cardinality(LiveSessions) < MaxSessions
  /\ \E t \in Importers \ LiveSessions :
       /\ Commit(i, [db EXCEPT !.lease[t] = "live"])
       /\ batch' = [batch EXCEPT ![t] = {}]
  /\ UNCHANGED <<disk, op, lost, tasks, crashes, faults>>

RenewSession(i) ==
  /\ Called(i, "import")
  /\ \E t \in LiveSessions : Commit(i, [db EXCEPT !.lease[t] = "live"])
  /\ UNCHANGED <<disk, op>> /\ Rest

FinishEmptySession(i) ==
  /\ Called(i, "import")
  /\ \E t \in LiveSessions :
       /\ batch[t] = {} /\ RefsOf(t) = {}
       /\ Commit(i, [db EXCEPT !.lease[t] = "none"])
       /\ batch' = [batch EXCEPT ![t] = Nil]
  /\ UNCHANGED <<disk, op, lost, tasks, crashes, faults>>

\* What commit_temporary_owner_refs asks before it promotes.
Promotable(t) ==
  /\ t \in LiveSessions
  /\ batch[t] \notin {Nil, {}} /\ Cardinality(RefsOf(t)) = Cardinality(batch[t])
  /\ RefsOf(t) \subseteq Active(db.rows)

Promote(i) ==
  /\ Called(i, "import")
  /\ \E t \in Importers, o \in Durable :
       /\ Promotable(t)
       /\ Commit(i, [db EXCEPT !.refs = (@ \cup (RefsOf(t) \X {o})) \ (RefsOf(t) \X {t}),
                               !.lease[t] = "none"])
       /\ batch' = [batch EXCEPT ![t] = Nil]
  /\ UNCHANGED <<disk, op, lost, tasks, crashes, faults>>

\* The importer gives up and calls rollback_temporary_owner.
Rollback(i) ==
  /\ Called(i, "import")
  /\ \E t \in Importers :
       /\ batch[t] # Nil /\ batch' = [batch EXCEPT ![t] = Nil]
       /\ Start(i, [Idle EXCEPT !.pc = "next", !.owner = t])
  /\ UNCHANGED <<db, disk, writer, lost, tasks, crashes, faults>>

\* rollback_temporary_owner_locked: the next reference, read outside the
\* transaction; when there is none, the lease goes.
RollbackNext(i) ==
  /\ At(i, "next")
  /\ LET hs == RefsOf(op[i].owner) IN
     \/ /\ hs # {} /\ op' = [op EXCEPT ![i].pc = "release", ![i].hash = Min(hs)]
        /\ UNCHANGED <<db, writer>>
     \/ /\ hs = {} /\ Commit(i, [db EXCEPT !.lease[op[i].owner] = "none"])
        /\ Start(i, [Idle EXCEPT !.pc = op[i].then])
  /\ UNCHANGED disk /\ Rest

\* Mutant: other owners of the object are not looked for.
OnlyOwnerUnchecked(h, t) == db.rows[h] = "active"

OnlyOwner(h, t) == db.rows[h] = "active" /\ \A o \in Owners \ {t} : <<h, o>> \notin db.refs

RollbackUnlink(i) ==
  /\ At(i, "release") /\ writer = Nil /\ writer' = i
  /\ LET sole == OnlyOwner(op[i].hash, op[i].owner) IN
     /\ disk' = IF sole THEN Unlink(op[i].hash) ELSE disk
     /\ op' = [op EXCEPT ![i].pc = "released", ![i].dup = sole]
  /\ UNCHANGED db /\ Rest

RollbackCommit(i) ==
  /\ At(i, "released")
  /\ LET h == op[i].hash IN
     /\ Commit(i, [db EXCEPT !.refs = @ \ {<<h, op[i].owner>>},
                             !.rows[h] = IF op[i].dup THEN "none" ELSE @])
     /\ lost' = IF op[i].dup THEN lost \ {h} ELSE lost
  /\ op' = [op EXCEPT ![i].pc = "next", ![i].hash = Nil, ![i].dup = FALSE]
  /\ UNCHANGED <<disk, batch, tasks, crashes, faults>>

\* The lease has to be older than the cutoff, and so is claimed only then.
Stale(t) == db.lease[t] = "stale"
Ownerless(t) == db.lease[t] = "none" /\ RefsOf(t) # {}

RecoverTemporaryOwners(i) ==
  /\ Called(i, "recover") /\ Goto(i, "claim")
  /\ UNCHANGED <<db, disk, writer>> /\ Rest

\* recover_temporary_owner_type_before: claim one session by deleting its row,
\* then roll it back; references with no session need no claim.
ClaimSession(i) ==
  /\ At(i, "claim")
  /\ LET found == {t \in Importers : Stale(t) \/ Ownerless(t)} IN
     \/ /\ found # {}
        /\ Commit(i, [db EXCEPT !.lease[Min(found)] = "none"])
        /\ Start(i, [Idle EXCEPT !.pc = "next", !.owner = Min(found), !.then = "claim"])
     \/ found = {} /\ Done(i) /\ UNCHANGED <<db, writer>>
  /\ UNCHANGED disk /\ Rest
-----------------------------------------------------------------------------
(* mark_sweep_page.                                                        *)

\* Old enough for the cutoff and referenced by nobody, whatever its state.
Orphan(h) == db.rows[h] # "none" /\ h \in db.old /\ Unreferenced(h)

SweepList(i) ==
  /\ Called(i, "sweep")
  /\ \E hs \in {{h \in Hashes : Orphan(h)}} :
       hs # {} /\ Start(i, [Idle EXCEPT !.pc = "sweep", !.todo = hs])
  /\ UNCHANGED <<db, disk, writer>> /\ Rest

\* The orphan is checked again inside its transaction, then unlinked.
SweepUnlink(i) ==
  /\ At(i, "sweep") /\ writer = Nil
  /\ \/ /\ op[i].todo # {}
        /\ LET h == Min(op[i].todo) IN
           \/ /\ Orphan(h) /\ writer' = i /\ disk' = Unlink(h)
              /\ op' = [op EXCEPT ![i].pc = "swept", ![i].hash = h]
           \/ /\ ~Orphan(h) /\ op' = [op EXCEPT ![i].todo = @ \ {h}]
              /\ UNCHANGED <<disk, writer>>
     \/ op[i].todo = {} /\ Done(i) /\ UNCHANGED <<disk, writer>>
  /\ UNCHANGED db /\ Rest

\* DELETE ... WHERE NOT EXISTS a reference.
SweepCommit(i) ==
  /\ At(i, "swept")
  /\ LET h == op[i].hash IN
     /\ Commit(i, [db EXCEPT !.rows[h] = IF Unreferenced(h) THEN "none" ELSE @, !.qname[h] = Nil])
     /\ lost' = lost \ {h}
     /\ op' = [op EXCEPT ![i].pc = "sweep", ![i].hash = Nil, ![i].todo = @ \ {h}]
  /\ UNCHANGED <<disk, batch, tasks, crashes, faults>>
-----------------------------------------------------------------------------
(* Reconciliation and quarantine.                                          *)

\* reconcile_catalog_page on one row: the file decides the state.
ReconcileObject(i) ==
  /\ Called(i, "maintain")
  /\ \E h \in Catalogued(db.rows) :
       \/ /\ disk.objects[h] = "absent"
          /\ Commit(i, [db EXCEPT !.rows[h] = "missing", !.qname[h] = Nil])
          /\ lost' = lost \ {h} /\ UNCHANGED <<disk, op>>
       \/ /\ disk.objects[h] = "good"
          /\ Commit(i, [db EXCEPT !.rows[h] = "active", !.qname[h] = Nil])
          /\ UNCHANGED <<disk, op, lost>>
       \/ disk.objects[h] = "bad" /\ Quarantine(i, h, Idle) /\ UNCHANGED lost
  /\ UNCHANGED <<batch, tasks, crashes, faults>>

\* reconcile_shard_entry: a file with no row, or with no hash for a name.
ReconcileShardEntry(i) ==
  /\ Called(i, "maintain")
  /\ \E p \in Paths :
       /\ disk.objects[p] # "absent" /\ (p \in Hashes => db.rows[p] = "none")
       /\ Quarantine(i, p, Idle)
  /\ Rest

\* An error inside a quarantine step: ingest cleans up, maintenance returns,
\* open fails.
Give(i) == op' = [op EXCEPT ![i] = CASE op[i].then = "begin" -> [@ EXCEPT !.pc = "unstage"]
                                     [] op[i].then = "recover" -> [Idle EXCEPT !.pc = "closed"]
                                     [] OTHER -> Idle]

\* Back to whoever called for the quarantine step.
Return(i) == op' = [op EXCEPT ![i] = CASE op[i].then = "begin" -> [@ EXCEPT !.pc = "begin", !.quar = Nil]
                                       [] op[i].then = "recover" -> [@ EXCEPT !.pc = "recover", !.quar = Nil]
                                       [] OTHER -> Idle]

\* complete_quarantine_move, the four cases of source and target.
MoveLink(i) ==
  LET q == op[i].quar
      p == db.intents[q].path
      source == disk.objects[p] # "absent"
      target == disk.quarantine[q] # "absent" IN
  /\ At(i, "move")
  /\ \/ /\ source /\ ~target
        /\ disk' = [disk EXCEPT !.quarantine[q] = disk.objects[p], !.linked = @ \cup {q}]
        /\ Goto(i, "unlink")
     \/ ~source /\ target /\ Goto(i, "moved") /\ UNCHANGED disk
     \/ source /\ target /\ q \in disk.linked /\ Goto(i, "unlink") /\ UNCHANGED disk
     \/ source /\ target /\ q \notin disk.linked /\ Give(i) /\ UNCHANGED disk
     \/ ~source /\ ~target /\ Give(i) /\ UNCHANGED disk
  /\ UNCHANGED <<db, writer>> /\ Rest

MoveUnlink(i) ==
  /\ At(i, "unlink")
  /\ disk' = Unlink(db.intents[op[i].quar].path)
  /\ Goto(i, "moved")
  /\ UNCHANGED <<db, writer>> /\ Rest

MoveMark(i) ==
  /\ At(i, "moved")
  /\ Commit(i, [db EXCEPT !.intents[op[i].quar].phase = "moved"])
  /\ Goto(i, "record") /\ UNCHANGED disk /\ Rest

\* The object row, when there is one, says where its file went.
RowsQuarantined(rows, p) ==
  IF p \in Hashes /\ rows[p] # "none" THEN [rows EXCEPT ![p] = "quarantined"] ELSE rows

MoveFinalize(i) ==
  /\ At(i, "record")
  /\ LET q == op[i].quar  p == db.intents[q].path IN
     Commit(i, [db EXCEPT !.quarantine = @ \cup {q}, !.intents[q] = NoIntent,
                          !.rows = RowsQuarantined(@, p),
                          !.qname = IF RowsQuarantined(db.rows, p) # db.rows
                                    THEN [@ EXCEPT ![p] = q] ELSE @])
  /\ Return(i) /\ UNCHANGED disk /\ Rest

\* purge_quarantine_file.
Purge(i) ==
  /\ Called(i, "maintain")
  /\ \E q \in db.quarantine :
       /\ db.intents[q] = NoIntent
       /\ Commit(i, [db EXCEPT !.intents[q] = [what |-> "purge", phase |-> "prepared", path |-> Nil]])
       /\ Start(i, [Idle EXCEPT !.pc = "purge", !.quar = q])
  /\ UNCHANGED disk /\ Rest

PurgeUnlink(i) ==
  /\ At(i, "purge")
  /\ disk' = [disk EXCEPT !.quarantine[op[i].quar] = "absent"]
  /\ Goto(i, "purged")
  /\ UNCHANGED <<db, writer>> /\ Rest

PurgeMark(i) ==
  /\ At(i, "purged")
  /\ Commit(i, [db EXCEPT !.intents[op[i].quar].phase = "moved"])
  /\ Goto(i, "strike") /\ UNCHANGED disk /\ Rest

PurgeFinalize(i) ==
  /\ At(i, "strike")
  /\ LET q == op[i].quar
         gone == {h \in Hashes : db.rows[h] = "quarantined" /\ db.qname[h] = q} IN
     Commit(i, [db EXCEPT !.quarantine = @ \ {q}, !.intents[q] = NoIntent,
                          !.rows = [h \in Hashes |-> IF h \in gone THEN "missing" ELSE @[h]],
                          !.qname = [h \in Hashes |-> IF h \in gone THEN Nil ELSE @[h]]])
  /\ Return(i) /\ UNCHANGED disk /\ Rest
-----------------------------------------------------------------------------
(* Backup leases: used by the export of BackupExport.                      *)

WithoutSessions(is, ss) ==
  [is EXCEPT !.pins = [s \in Exports |-> IF s \in ss THEN "none" ELSE @[s]],
             !.refs = @ \ (Hashes \X ss)]

StaleExports(is) == {s \in Exports : is.pins[s] = "stale"}

\* cleanup_stale_backup_sessions_in_transaction: at most MaxSessions, all of them.
Expire(is) == WithoutSessions(is, StaleExports(is))

\* The pinning transaction of begin_backup_snapshot.
Pinned(s) ==
  LET is == Expire(db) IN
  [is EXCEPT !.pins[s] = "live",
             !.refs = (@ \ (Hashes \X {s})) \cup (Active(is.rows) \X {s})]

RoomForExport(s) ==
  LET is == Expire(db) IN
  is.pins[s] # "none" \/ Cardinality({x \in Exports : is.pins[x] # "none"}) < MaxSessions
-----------------------------------------------------------------------------
(* Opening, and what the environment does.                                 *)

\* AssetStore::open reads the pending intents ...
Open(i) ==
  /\ At(i, "closed") /\ tasks[i] # {}
  /\ Start(i, [Idle EXCEPT !.pc = "recover",
                           !.todo = {q \in QuarantineNames : db.intents[q] # NoIntent}])
  /\ UNCHANGED <<db, disk, writer>> /\ Rest

\* ... completes them from the phase they are in ...
RecoverIntent(i) ==
  /\ At(i, "recover") /\ op[i].todo # {}
  /\ LET q == Min(op[i].todo)
         t == db.intents[q] IN
     op' = [op EXCEPT ![i].todo = @ \ {q}, ![i].quar = q, ![i].then = "recover",
                      ![i].pc = IF t.what = "move"
                                THEN IF t.phase = "prepared" THEN "move" ELSE "record"
                                ELSE IF t.phase = "prepared" THEN "purge" ELSE "strike"]
  /\ UNCHANGED <<db, disk, writer>> /\ Rest

\* ... and drops expired backup leases and expired temporary owners.
OpenExpire(i) ==
  /\ At(i, "recover") /\ op[i].todo = {}
  /\ Commit(i, Expire(db))
  /\ Start(i, [Idle EXCEPT !.pc = IF \E t \in Importers : Stale(t) THEN "claim" ELSE "idle"])
  /\ UNCHANGED disk /\ Rest

\* The process dies: the open transaction is undone, files and rows stay.
Crash ==
  /\ crashes > 0 /\ crashes' = crashes - 1
  /\ op' = [i \in Handles |-> [Idle EXCEPT !.pc = "closed"]]
  /\ writer' = Nil
  /\ batch' = [t \in Importers |-> Nil]
  /\ lost' = lost \cup {op[i].hash : i \in {j \in Handles :
                 At(j, "swept") \/ (At(j, "released") /\ op[j].dup)}}
  /\ UNCHANGED <<db, disk, tasks, faults>>

\* A day passes: rows are old enough to sweep, leases not renewed are stale.
TimePasses ==
  /\ (\E i \in Handles : "time" \in tasks[i]) /\ writer = Nil
  /\ db' = [db EXCEPT !.old = Catalogued(db.rows),
                      !.lease = [t \in Importers |-> IF @[t] = "live" THEN "stale" ELSE @[t]],
                      !.pins = [s \in Exports |-> IF @[s] = "live" THEN "stale" ELSE @[s]]]
  /\ UNCHANGED <<disk, writer, op>> /\ Rest

\* An object's file is damaged, or vanishes.
Decay ==
  /\ \E i \in Handles : "decay" \in tasks[i]
  /\ faults > 0 /\ faults' = faults - 1
  /\ \E h \in Hashes : disk.objects[h] # "absent" /\
       \/ disk' = [disk EXCEPT !.objects[h] = "bad"] /\ UNCHANGED lost
       \/ disk' = Unlink(h) /\ lost' = lost \cup {h}
  /\ UNCHANGED <<db, writer, op, batch, tasks, crashes>>

\* An I/O error in the middle of a quarantine: the intent stays behind.
QuarantineFails(i) ==
  /\ op[i].pc \in {"move", "unlink", "moved", "purge", "purged"}
  /\ faults > 0 /\ faults' = faults - 1
  /\ Give(i)
  /\ UNCHANGED <<db, disk, writer, batch, lost, tasks, crashes>>

HandleStep(i) ==
  \/ IngestAllocate(i) \/ IngestCopy(i) \/ IngestPrepare(i) \/ IngestBegin(i)
  \/ IngestPublish(i) \/ IngestCommit(i) \/ UnlinkStaged(i) \/ ForgetStaged(i)
  \/ CleanupStaging(i) \/ AddRefs(i) \/ RemoveRefs(i) \/ BeginSession(i)
  \/ RenewSession(i) \/ FinishEmptySession(i) \/ Promote(i) \/ Rollback(i)
  \/ RollbackNext(i) \/ RollbackUnlink(i) \/ RollbackCommit(i)
  \/ RecoverTemporaryOwners(i) \/ ClaimSession(i) \/ SweepList(i)
  \/ SweepUnlink(i) \/ SweepCommit(i) \/ ReconcileObject(i) \/ ReconcileShardEntry(i)
  \/ MoveLink(i) \/ MoveUnlink(i) \/ MoveMark(i) \/ MoveFinalize(i) \/ Purge(i)
  \/ PurgeUnlink(i) \/ PurgeMark(i) \/ PurgeFinalize(i) \/ Open(i)
  \/ RecoverIntent(i) \/ OpenExpire(i) \/ QuarantineFails(i)

AssetNext == (\E i \in Handles : HandleStep(i)) \/ Crash \/ TimePasses \/ Decay
-----------------------------------------------------------------------------
(* Properties.                                                             *)

AssetTypeOK ==
  /\ db.rows \in [Hashes -> {"none", "active", "missing", "quarantined"}]
  /\ db.qname \in [Hashes -> QuarantineNames \cup {Nil}]
  /\ db.old \subseteq Hashes /\ db.refs \subseteq Hashes \X Owners
  /\ db.lease \in [Importers -> Lease] /\ db.pins \in [Exports -> Lease]
  /\ db.staging \subseteq StagingNames /\ db.quarantine \subseteq QuarantineNames
  /\ disk.objects \in [Paths -> Content] /\ disk.staging \subseteq StagingNames
  /\ disk.quarantine \in [QuarantineNames -> Content] /\ disk.linked \subseteq QuarantineNames
  /\ writer \in Handles \cup {Nil}

\* No file is beyond recovery: a staged file has its row (allocate_staging
\* inserts first, cleanup_staged_file deletes last), and a quarantined file has
\* its row or a pending intent, through every crash and error in between.
FilesAccountedFor ==
  /\ disk.staging \subseteq db.staging
  /\ \A q \in QuarantineNames :
       disk.quarantine[q] # "absent" => q \in db.quarantine \/ db.intents[q] # NoIntent

\* A row that says `quarantined` names a quarantine entry that exists, so that
\* purge_quarantine_page can still turn it into `missing`.
QuarantinedRowsResolve ==
  \A h \in Hashes : db.rows[h] = "quarantined" => db.qname[h] \in db.quarantine

\* verify_derived_totals, which open runs, never finds the trigger-kept ledger
\* different from the rows.
LedgerExact ==
  db.totals = [objects |-> Cardinality(Catalogued(db.rows)),
               bytes |-> Bytes(db.rows, Hashes),
               refs |-> Cardinality(db.refs),
               missing |-> Cardinality(Missing(db.rows)),
               quarantined |-> Cardinality(db.quarantine),
               staging |-> Cardinality(db.staging)]

Unlinking(h) == \E i \in Handles : op[i].hash = h /\ op[i].pc \in {"released", "swept"}
Quarantining(h) == \E q \in QuarantineNames : db.intents[q].path = h

\* An active object has its file, whatever ingests, rollbacks and sweeps of two
\* handles meet: it lacks it only inside the transaction that deletes the row,
\* under a quarantine intent, or after a crash or damage took it.
ActiveHasFile ==
  \A h \in Active(db.rows) :
    disk.objects[h] = "absent" => h \in lost \/ Unlinking(h) \/ Quarantining(h)

\* Files, rows, intents and ledger account for each other through every crash, error and
\* interleaving of two handles.
AssetsAccounted ==
  /\ AssetTypeOK
  /\ LedgerExact
  /\ ActiveHasFile
  /\ FilesAccountedFor
  /\ QuarantinedRowsResolve

\* No rollback and no sweep unlinks an object somebody else refers to: the
\* references are read again under the write lock, whatever was listed before.
NoReferencedUnlink ==
  [][\A h \in Hashes :
       (disk.objects[h] # "absent" /\ disk'.objects[h] = "absent") =>
         \/ faults' # faults \/ \E i \in Handles : At(i, "unlink")
         \/ \A o \in Owners : <<h, o>> \in db.refs =>
              \E i \in Handles : op[i].owner = o /\ op'[i].pc = "released"]_assetVars

\* An ingest never takes the active bytes over the quota, though the staged
\* copy was made before the transaction and other handles publish meanwhile.
QuotaRespected ==
  [][\A i \in Handles : At(i, "commit") /\ db'.totals.bytes > db.totals.bytes
       => db'.totals.bytes <= MaxTotalBytes]_assetVars

\* What goes to quarantine is corrupt: the file of an active object whose content
\* matches its hash is never moved there, neither now nor when open completes an
\* intent that an I/O error left pending.
OnlyCorruptQuarantined ==
  [][\A i \in Handles, h \in Active(db.rows) :
       At(i, "unlink") /\ db.intents[op[i].quar].path = h /\ disk.objects[h] = "good"
         => disk'.objects[h] = "good"]_assetVars

\* When an importer's promotion succeeds, the final owner holds every object
\* the importer ingested, even if recovery or a rollback of the same session
\* runs on another handle.
PromotionComplete ==
  [][\A t \in Importers :
       (db.lease[t] # "none" /\ db'.lease[t] = "none" /\ op' = op) =>
         batch[t] = {} \/ \E o \in Durable : batch[t] \X {o} \subseteq db'.refs]_assetVars

\* What one handle read earlier never lets it exceed the quota, unlink what another refers
\* to, or promote a part of an import.
SharingSafe ==
  QuotaRespected /\ NoReferencedUnlink /\ PromotionComplete

=============================================================================
