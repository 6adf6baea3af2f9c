------------------------------ MODULE MCAssets ------------------------------
(***************************************************************************)
(* Eight workloads on one asset store, so that each question has the       *)
(* handles and the faults it needs and no more.                            *)
(***************************************************************************)
EXTENDS BackupExport, TLC

CONSTANTS a, b

MCSize == [h \in Hashes |-> h]
Names == Permutations(StagingNames) \cup Permutations(Exports)

Workload(onA, onB, crashBound, faultBound, stray) ==
  [tasks |-> (a :> onA) @@ (b :> onB), crashes |-> crashBound, faults |-> faultBound,
   stray |-> stray]

Workloads ==
  { \* an import on one handle meets recovery and sweep on another, as time passes
    Workload({"ingest", "import", "time"}, {"recover", "sweep"}, 0, 0, "absent"),
    \* two handles ingest the same objects while one of them imports
    Workload({"ingest", "import"}, {"recover", "sweep", "ingest"}, 0, 0, "absent"),
    \* a process that crashes in the middle of rollbacks, sweeps and promotions
    Workload({"ingest", "import", "refs", "sweep", "recover", "time"}, {}, 1, 0, "absent"),
    \* damaged files, reconciliation, quarantine and purge
    Workload({"ingest", "maintain", "decay", "sweep", "time"}, {}, 1, 1, "absent"),
    \* a file that is no object
    Workload({"maintain"}, {}, 1, 1, "bad"),
    \* an export meets ingest and sweep on another handle
    Workload({"export", "time"}, {"ingest", "sweep"}, 0, 0, "absent"),
    \* an export that fails
    Workload({"export", "ingest"}, {}, 0, 1, "absent"),
    \* an export that crashes and is resumed
    Workload({"export", "ingest", "time"}, {}, 1, 0, "absent") }

\* One damaged file and one I/O error before a reopen.
Damaged == Workload({"ingest", "decay"}, {}, 1, 2, "absent")

MCInit == (\E w \in Workloads : AssetInit(w)) /\ ExportInit
Spec == MCInit /\ [][Next]_vars

DamagedSpec == AssetInit(Damaged) /\ ExportInit /\ [][Next]_vars
=============================================================================
