--------------------------- MODULE ImportSession ----------------------------
(* The import service: admission, the staging directory and the temporary      *)
(* owner of one import, its heartbeat, and the recovery of what a dead process *)
(* left.  Several services (processes) share one staging root and one asset    *)
(* store.  What an archive contains is ImportArchive's business; here it is a   *)
(* batch of assets to ingest.                                                  *)
EXTENDS Integers, FiniteSets

CONSTANTS Services,      \* processes with an ImportService on the same root
          Ids,           \* the UUIDs the imports draw, 1..n: the import with id n is the n-th
          Batch,         \* the assets of the archive, 1..n, ingested in order
          ImportFaults   \* how many operations fail and how many processes die

\* No UUID is the value that stands for no import.
ASSUME ImportAssumption == 0 \notin Ids /\ ImportFaults \in Nat

VARIABLES svc,           \* each service: its step, its import and how it went
          cat,           \* the asset catalogue: session leases and the references
          dirs,          \* the staging directories, by session id
          said,          \* what each import returned
          importLeft     \* faults left

importVars == <<svc, cat, dirs, said, importLeft>>

NoImport == 0
Closed == [pc |-> "closed", id |-> NoImport, todo |-> {}, lost |-> FALSE]
Ready == [Closed EXCEPT !.pc = "ready"]

ImportInit ==
    /\ svc = [s \in Services |-> Closed]
    /\ cat = [lease |-> [i \in Ids |-> "none"], temp |-> [i \in Ids |-> {}], final |-> [i \in Ids |-> {}]]
    /\ dirs = {} /\ said = [i \in Ids |-> "nothing"] /\ importLeft = ImportFaults

Spend == importLeft > 0 /\ importLeft' = importLeft - 1
Live(i) == cat.lease[i] # "none"
Steps(s, pc) == svc' = [svc EXCEPT ![s].pc = pc]
Return(s, what) == svc' = [svc EXCEPT ![s] = Ready] /\ said' = [said EXCEPT ![svc[s].id] = what]
Drawn == {i \in Ids : Live(i) \/ i \in dirs \/ said[i] # "nothing" \/ \E s \in Services : svc[s].id = i}

-----------------------------------------------------------------------------
(* The session interface of the asset store, each call one locked transaction. *)

ClaimLeasedOnly(i) == cat.lease[i] = "stale"
Claimable(i) == cat.lease[i] = "stale" \/ (~Live(i) /\ cat.temp[i] # {})
Recovered ==
    [cat EXCEPT !.lease = [i \in Ids |-> IF Claimable(i) THEN "none" ELSE @[i]],
                !.temp = [i \in Ids |-> IF Claimable(i) THEN {} ELSE @[i]]]
Renewed(i) == IF Live(i) THEN [cat EXCEPT !.lease[i] = "live"] ELSE cat

CommitUnchecked(i) == TRUE
Committable(i) == Live(i) /\ cat.temp[i] = Batch

-----------------------------------------------------------------------------
(* open: recover the sessions, then remove the directories of dead ones.       *)

OpenService(s) ==
    /\ svc[s].pc = "closed"
    /\ cat' = Recovered
    /\ svc' = [svc EXCEPT ![s] = [Closed EXCEPT !.pc = "sweep", !.todo = dirs]]
    /\ UNCHANGED <<dirs, said, importLeft>>

SweepDirectory(s, i) ==
    /\ svc[s].pc = "sweep" /\ i \in svc[s].todo
    /\ \/ /\ Live(i)                                          \* preserved
          /\ svc' = [svc EXCEPT ![s].todo = @ \ {i}]
          /\ UNCHANGED <<dirs, importLeft>>
       \/ /\ ~Live(i) /\ i \in dirs
          /\ dirs' = dirs \ {i}
          /\ svc' = [svc EXCEPT ![s].todo = @ \ {i}]
          /\ UNCHANGED importLeft
       \/ /\ ~Live(i) /\ (i \in dirs => Spend) /\ (i \notin dirs => UNCHANGED importLeft)
          /\ svc' = [svc EXCEPT ![s] = Closed]                \* gone meanwhile, or not removable
          /\ UNCHANGED dirs
    /\ UNCHANGED <<cat, said>>

SessionOpened(s) == svc[s].pc = "sweep" /\ svc[s].todo = {}
OpenReturns(s) == SessionOpened(s) /\ Steps(s, "ready") /\ UNCHANGED <<cat, dirs, said, importLeft>>

-----------------------------------------------------------------------------
(* import_reader: one import of a service at a time.                           *)

AdmitImport(s) ==
    /\ svc[s].pc = "ready" /\ Ids # Drawn
    /\ cat' = Recovered
    /\ svc' = [svc EXCEPT ![s] = [Ready EXCEPT !.pc = "begin", !.id = CHOOSE i \in Ids \ Drawn : TRUE]]
    /\ UNCHANGED <<dirs, said, importLeft>>

BeginImport(s) ==
    /\ svc[s].pc = "begin"
    /\ cat' = [cat EXCEPT !.lease[svc[s].id] = "live"]
    /\ Steps(s, "mkdir") /\ UNCHANGED <<dirs, said, importLeft>>

MakeDirectory(s) ==
    /\ svc[s].pc = "mkdir"
    /\ \/ /\ dirs' = dirs \cup {svc[s].id}
          /\ Steps(s, "copy") /\ UNCHANGED <<cat, said, importLeft>>
       \/ /\ Spend                             \* finish_empty_temporary_owner_session
          /\ cat' = [cat EXCEPT !.lease[svc[s].id] = "none"]
          /\ Return(s, "refused") /\ UNCHANGED dirs

\* An error anywhere in the import: its references are rolled back next.
Fails(s) == Steps(s, "rollback")

CancelSeen(s) ==
    /\ svc[s].pc \in {"copy", "ingest", "commit"}
    /\ Fails(s) /\ UNCHANGED <<cat, dirs, said, importLeft>>

Heartbeat(s) ==
    /\ svc[s].pc \in {"copy", "ingest"}
    /\ cat' = Renewed(svc[s].id)
    /\ (Live(svc[s].id) => UNCHANGED svc)
    /\ ~Live(svc[s].id) => svc' = [svc EXCEPT ![s].pc = "rollback", ![s].lost = TRUE]
    /\ UNCHANGED <<dirs, said, importLeft>>

\* ensure_session_live, between two pieces of work.
EnsureLive(s, pc) ==
    /\ cat' = Renewed(svc[s].id)
    /\ IF Live(svc[s].id) THEN Steps(s, pc) ELSE Fails(s)
    /\ UNCHANGED <<dirs, said, importLeft>>
SourceCopied(s) == svc[s].pc = "copy" /\ svc[s].id \in dirs /\ EnsureLive(s, "next")
NextAsset(s) == svc[s].pc = "next" /\ EnsureLive(s, IF cat.temp[svc[s].id] = Batch THEN "commit" ELSE "ingest")
StagingMissing(s) ==
    /\ svc[s].pc \in {"copy", "ingest"} /\ svc[s].id \notin dirs
    /\ Fails(s) /\ UNCHANGED <<cat, dirs, said, importLeft>>

IngestAsset(s) ==
    /\ svc[s].pc = "ingest" /\ svc[s].id \in dirs
    /\ \E a \in Batch \ cat.temp[svc[s].id] :
          /\ \A b \in Batch : b < a => b \in cat.temp[svc[s].id]
          /\ cat' = [cat EXCEPT !.temp[svc[s].id] = @ \cup {a}]
    /\ Steps(s, "next") /\ UNCHANGED <<dirs, said, importLeft>>

CommitImport(s) ==
    /\ svc[s].pc = "commit"
    /\ LET i == svc[s].id
       IN  IF Committable(i)
           THEN /\ cat' = [cat EXCEPT !.final[i] = cat.temp[i], !.temp[i] = {}, !.lease[i] = "none"]
                /\ Steps(s, "committed")
           ELSE UNCHANGED cat /\ Fails(s)
    /\ UNCHANGED <<dirs, said, importLeft>>

\* The directory goes.  When that fails the import fails too, and Drop tries once more.
Cleaned(s, what, unclean) ==
    LET i == svc[s].id
    IN  \/ dirs' = dirs \ {i} /\ Return(s, what) /\ UNCHANGED importLeft
        \/ Spend /\ dirs' \in {dirs, dirs \ {i}} /\ Return(s, unclean)
CleanCommitted(s) ==
    /\ svc[s].pc = "committed"
    /\ Cleaned(s, "imported", "uncleaned") /\ UNCHANGED cat

ImportRolledBack(i) == [cat EXCEPT !.temp[i] = {}, !.lease[i] = "none"]
RollbackImport(s) ==
    /\ svc[s].pc = "rollback"
    /\ \/ cat' = ImportRolledBack(svc[s].id) /\ Steps(s, "clean") /\ UNCHANGED <<dirs, said, importLeft>>
       \/ /\ Spend                              \* preserve_for_recovery
          /\ \E rest \in SUBSET cat.temp[svc[s].id] : cat' = [cat EXCEPT !.temp[svc[s].id] = rest]
          /\ Return(s, "pending") /\ UNCHANGED dirs
CleanFailed(s) ==
    /\ svc[s].pc = "clean"
    /\ Cleaned(s, "failed", "pending") /\ UNCHANGED cat

-----------------------------------------------------------------------------
(* The world: a lease gets old, a process ends or dies.                        *)

LeaseExpires(i) ==
    /\ cat.lease[i] = "live"
    /\ cat' = [cat EXCEPT !.lease[i] = "stale"]
    /\ UNCHANGED <<svc, dirs, said, importLeft>>
CloseService(s) ==
    /\ svc[s].pc = "ready"
    /\ svc' = [svc EXCEPT ![s] = Closed] /\ UNCHANGED <<cat, dirs, said, importLeft>>
KillService(s) ==
    /\ svc[s].pc \notin {"closed", "ready"} /\ Spend
    /\ svc' = [svc EXCEPT ![s] = Closed]
    /\ said' = IF svc[s].id = NoImport THEN said ELSE [said EXCEPT ![svc[s].id] = "killed"]
    /\ UNCHANGED <<cat, dirs>>

ImportStep(s) ==
    \/ OpenService(s) \/ OpenReturns(s) \/ (\E i \in Ids : SweepDirectory(s, i))
    \/ BeginImport(s) \/ MakeDirectory(s) \/ SourceCopied(s) \/ NextAsset(s) \/ StagingMissing(s)
    \/ IngestAsset(s) \/ CommitImport(s) \/ CleanCommitted(s) \/ RollbackImport(s) \/ CleanFailed(s)
ImportNext ==
    \/ \E s \in Services : ImportStep(s) \/ AdmitImport(s) \/ CancelSeen(s) \/ Heartbeat(s) \/ CloseService(s) \/ KillService(s)
    \/ \E i \in Ids : LeaseExpires(i)

ImportSpec == ImportInit /\ [][ImportNext]_importVars

-----------------------------------------------------------------------------
(* An import gives its owner the whole batch or nothing, and says which: only  *)
(* an import that answered so, or was killed, has left anything for the owner. *)
ImportIsWhole ==
    \A i \in Ids :
        /\ cat.final[i] \in {{}, Batch}
        /\ said[i] \in {"imported", "uncleaned"} => cat.final[i] = Batch
        /\ said[i] \in {"refused", "failed", "pending"} => cat.final[i] = {}

(* No other process removes the directory an import works in while its session *)
(* is alive.                                                                   *)
StagingOutlivesLease ==
    \A s \in Services : (svc[s].pc \in {"copy", "next", "ingest", "commit"} /\ Live(svc[s].id)) => svc[s].id \in dirs

\* An import is in the catalogue as a whole or not at all, as its caller was told, and nobody
\* sweeps the staging directory of a live one.
ImportSafe ==
    ImportIsWhole /\ StagingOutlivesLease

(* Whatever an import leaves behind, failed, killed or overtaken by recovery,  *)
(* is gone in the end, as long as some service is opened again and again.      *)
ResidueReclaimed ==
    ([]<>(\E s \in Services : SessionOpened(s))) => <>[](dirs = {} /\ \A i \in Ids : cat.temp[i] = {} /\ ~Live(i))
=============================================================================
