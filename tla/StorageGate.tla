---------------------------- MODULE StorageGate ----------------------------
(***************************************************************************)
(* StorageState of apps/desktop-mobile/src-tauri/src/storage_commands.rs:  *)
(* the gate every storage command passes, and the WAL maintenance that is  *)
(* one more customer of it, down to the checkpoints of Store::maintain_wal *)
(* (crates/lorepia-storage/src/store.rs).                                  *)
(*                                                                         *)
(* The gate is a fair semaphore with one permit.  A caller waits at most   *)
(* STORAGE_ADMISSION_TIMEOUT for the permit; an operation that has started *)
(* runs to its end on a blocking thread, also when nobody waits for it any *)
(* more.  A backup reads through a connection of its own, outside the gate.*)
(***************************************************************************)
EXTENDS Integers, Sequences, FiniteSets

CONSTANTS
  GateCalls,    \* calls of run and run_read
  GateReads,    \* those of run_read
  RestartAt,    \* WAL_RESTART_THRESHOLD_BYTES, in frames
  TruncateAt,   \* WAL_EMERGENCY_TRUNCATE_THRESHOLD_BYTES, in frames
  MaxWalRuns,   \* bounds the maintenance runs
  MaxFrames     \* bounds the log

ASSUME GateAssumption ==
  /\ GateReads \subseteq GateCalls /\ "wal" \notin GateCalls
  /\ RestartAt <= TruncateAt /\ MaxWalRuns \in Nat /\ MaxFrames \in Nat

VARIABLES
  gatePc,      \* where each call is; "wal" is the maintenance closure
  gateQueue,   \* the semaphore's waiters
  gateReaders, \* ActiveReaderRuntime.started
  ran,         \* calls whose operation was executed
  wal,         \* [log, done, file]: frames, checkpointed frames, file size
  pin,         \* frames a reader outside the gate still needs, or -1
  maint,       \* WalMaintenanceRuntime and the task of its scheduler
  stats,       \* WalMaintenanceTelemetry
  reports      \* what the runs reported, in order

gateVars == <<gatePc, gateQueue, gateReaders, ran, wal, pin, maint, stats, reports>>

GateJobs == GateCalls \cup {"wal"}
NoTelemetry == [busy |-> FALSE, left |-> 0, payload |-> 0, file |-> 0]

GateInit ==
  /\ gatePc = [j \in GateJobs |-> "idle"]
  /\ gateQueue = <<>> /\ gateReaders = {} /\ ran = {}
  /\ wal = [log |-> 0, done |-> 0, file |-> 0] /\ pin = -1
  /\ maint = [started |-> FALSE, inProgress |-> FALSE, shutdown |-> FALSE, task |-> "none",
              restart |-> NoTelemetry, starved |-> FALSE, asked |-> {}]
  /\ stats = [successful |-> 0, failed |-> 0, starvation |-> 0]
  /\ reports = <<>>
-----------------------------------------------------------------------------
(* The gate.                                                               *)

Held == \E j \in GateJobs : gatePc[j] \in {"running", "abandoned"}

Enter(j) ==
  /\ gatePc' = [gatePc EXCEPT ![j] = "waiting"] /\ gateQueue' = Append(gateQueue, j)

\* The future of acquire_owned is dropped: its place in the queue is gone.
LeaveQueue(j) ==
  LET k == CHOOSE k \in DOMAIN gateQueue : gateQueue[k] = j
  IN  gateQueue' = SubSeq(gateQueue, 1, k - 1) \o SubSeq(gateQueue, k + 1, Len(gateQueue))

\* run_inner on a store that opened; acquire_owned queues.
GateCall(j) ==
  /\ gatePc[j] = "idle" /\ Enter(j)
  /\ UNCHANGED <<gateReaders, ran, wal, pin, maint, stats, reports>>

\* The permit goes to the first waiter; spawn_blocking owns it from here on.  A
\* read registers itself.
Admit ==
  /\ ~Held /\ gateQueue # <<>>
  /\ LET j == Head(gateQueue) IN
     /\ gatePc' = [gatePc EXCEPT ![j] = "running"]
     /\ gateReaders' = IF j \in GateReads THEN gateReaders \cup {j} ELSE gateReaders
  /\ gateQueue' = Tail(gateQueue)
  /\ UNCHANGED <<ran, wal, pin, maint, stats, reports>>

\* Mutant: the timeout covers the operation as well as the queue.
TimeoutCoversOperation(j) ==
  /\ gatePc[j] \in {"waiting", "running"} /\ j # "wal"
  /\ gatePc' = [gatePc EXCEPT ![j] = "refused"]
  /\ IF gatePc[j] = "waiting" THEN LeaveQueue(j) ELSE UNCHANGED gateQueue
  /\ ran' = IF gatePc[j] = "running" THEN ran \cup {j} ELSE ran
  /\ UNCHANGED <<gateReaders, wal, pin, maint, stats, reports>>

\* STORAGE_ADMISSION_TIMEOUT: only ever while the call is queued.
AdmissionTimeout(j) ==
  /\ gatePc[j] = "waiting"
  /\ gatePc' = [gatePc EXCEPT ![j] = "refused"] /\ LeaveQueue(j)
  /\ UNCHANGED <<gateReaders, ran, wal, pin, maint, stats, reports>>

\* The future of a command is dropped: a queued one leaves, a started one runs on.
Abandon(j) ==
  /\ \/ /\ gatePc[j] = "waiting"
        /\ gatePc' = [gatePc EXCEPT ![j] = "dropped"] /\ LeaveQueue(j)
     \/ /\ gatePc[j] = "running"
        /\ gatePc' = [gatePc EXCEPT ![j] = "abandoned"] /\ UNCHANGED gateQueue
  /\ UNCHANGED <<gateReaders, ran, wal, pin, maint, stats, reports>>

\* The operation ends: its writes are in the log, the guards are dropped.
GateFinish(j) ==
  /\ gatePc[j] \in {"running", "abandoned"}
  /\ gatePc' = [gatePc EXCEPT ![j] = IF @ = "running" THEN "answered" ELSE "dropped"]
  /\ gateReaders' = gateReaders \ {j}
  /\ ran' = ran \cup {j}
  /\ \E frames \in 0 .. (IF j \in GateReads THEN 0 ELSE MaxFrames - wal.log) :
       wal' = [wal EXCEPT !.log = @ + frames,
                          !.file = IF wal.log + frames > @ THEN wal.log + frames ELSE @]
  /\ UNCHANGED <<gateQueue, pin, maint, stats, reports>>
-----------------------------------------------------------------------------
(* A reader outside the gate (a backup's snapshot) keeps the frames it     *)
(* started from.                                                           *)

PinReader ==
  /\ pin = -1 /\ pin' = wal.log
  /\ UNCHANGED <<gatePc, gateQueue, gateReaders, ran, wal, maint, stats, reports>>

UnpinReader ==
  /\ pin # -1 /\ pin' = -1
  /\ UNCHANGED <<gatePc, gateQueue, gateReaders, ran, wal, maint, stats, reports>>
-----------------------------------------------------------------------------
(* start_wal_maintenance and run_wal_maintenance_once.                     *)

\* compare_exchange: a second start is refused, and one after shutdown.
StartMaintenance ==
  /\ ~maint.shutdown /\ ~maint.started
  /\ maint' = [maint EXCEPT !.started = TRUE, !.task = "loop"]
  /\ UNCHANGED <<gatePc, gateQueue, gateReaders, ran, wal, pin, stats, reports>>

ShutdownMaintenance ==
  /\ ~maint.shutdown /\ maint' = [maint EXCEPT !.shutdown = TRUE]
  /\ UNCHANGED <<gatePc, gateQueue, gateReaders, ran, wal, pin, stats, reports>>

\* The task of the scheduler is elsewhere; nothing else moves.
Task(to) ==
  /\ maint' = [maint EXCEPT !.task = to]
  /\ UNCHANGED <<gatePc, gateQueue, gateReaders, ran, wal, pin, stats, reports>>

\* The head of the loop: shutdown ends the task.
LoopHead ==
  /\ maint.task = "loop"
  /\ \/ maint.shutdown /\ Task("exited")
     \/ ~maint.shutdown /\ Len(reports) < MaxWalRuns /\ Task("entry")

\* run_wal_maintenance_once looks again; what it returns is not looked at.
EntryCheck == maint.task = "entry" /\ Task(IF maint.shutdown THEN "sleep" ELSE "claim")

\* The compare_exchange on run_in_progress.
ClaimRun ==
  /\ maint.task = "claim"
  /\ maint' = IF maint.inProgress THEN [maint EXCEPT !.task = "sleep"]
              ELSE [maint EXCEPT !.inProgress = TRUE, !.task = "recheck"]
  /\ UNCHANGED <<gatePc, gateQueue, gateReaders, ran, wal, pin, stats, reports>>

\* Mutant: shutdown is not looked at once the run is claimed.
ClaimIsEnough == maint.task = "recheck" /\ Task("enqueue")

\* Shutdown is looked at once more; the run guard is dropped with the return.
Recheck ==
  /\ maint.task = "recheck"
  /\ maint' = IF maint.shutdown THEN [maint EXCEPT !.inProgress = FALSE, !.task = "sleep"]
              ELSE [maint EXCEPT !.task = "enqueue"]
  /\ UNCHANGED <<gatePc, gateQueue, gateReaders, ran, wal, pin, stats, reports>>

\* The run asks for the gate like any other call.
EnqueueRun ==
  /\ maint.task = "enqueue" /\ Enter("wal")
  /\ maint' = [maint EXCEPT !.task = "run", !.starved = FALSE, !.restart = NoTelemetry, !.asked = {}]
  /\ UNCHANGED <<gateReaders, ran, wal, pin, stats, reports>>

\* PRAGMA wal_checkpoint: frames up to the oldest reader are copied; what is
\* left counts as remaining, and a RESTART or TRUNCATE is busy.
Checkpointed == IF pin = -1 \/ pin > wal.log THEN wal.log ELSE IF pin > wal.done THEN pin ELSE wal.done
Telemetry(mode) ==
  [busy |-> mode # "PASSIVE" /\ pin # -1 /\ wal.log > 0,
   left |-> wal.log - Checkpointed, payload |-> wal.log, file |-> wal.file]

\* Starvation is any stage that was busy or left frames.
Starved(t) == t.busy \/ t.left # 0

Passive ==
  /\ gatePc["wal"] = "running" /\ maint.task = "run"
  /\ LET t == Telemetry("PASSIVE") IN
     maint' = [maint EXCEPT !.starved = Starved(t), !.asked = {"PASSIVE"},
                            !.task = IF t.payload >= RestartAt THEN "restart" ELSE "report"]
  /\ wal' = [wal EXCEPT !.done = Checkpointed]
  /\ UNCHANGED <<gatePc, gateQueue, gateReaders, ran, pin, stats, reports>>

\* A RESTART that was not busy makes the log start over, in the same file.
RestartLog ==
  /\ gatePc["wal"] = "running" /\ maint.task = "restart"
  /\ LET t == Telemetry("RESTART") IN
     /\ maint' = [maint EXCEPT !.restart = t, !.starved = @ \/ Starved(t),
                               !.asked = @ \cup {"RESTART"}, !.task = "truncate"]
     /\ wal' = IF Starved(t) THEN [wal EXCEPT !.done = Checkpointed]
               ELSE [wal EXCEPT !.log = 0, !.done = 0]
  /\ UNCHANGED <<gatePc, gateQueue, gateReaders, ran, pin, stats, reports>>

\* TRUNCATE is the second stage: a large file, and a RESTART that met no reader
\* and left nothing.
MayTruncate(restart) == restart.file >= TruncateAt /\ ~restart.busy /\ restart.left = 0

\* A reader may have come since; then TRUNCATE is busy and the file stays.
TruncateLog ==
  /\ gatePc["wal"] = "running" /\ maint.task = "truncate"
  /\ IF ~MayTruncate(maint.restart)
     THEN maint' = [maint EXCEPT !.task = "report"] /\ UNCHANGED wal
     ELSE LET t == Telemetry("TRUNCATE") IN
          /\ maint' = [maint EXCEPT !.starved = @ \/ Starved(t), !.task = "report",
                                    !.asked = @ \cup {"TRUNCATE"}]
          /\ wal' = IF Starved(t) THEN wal ELSE [log |-> 0, done |-> 0, file |-> 0]
  /\ UNCHANGED <<gatePc, gateQueue, gateReaders, ran, pin, stats, reports>>

\* The telemetry after a run: only a success touches the streak.
Counted(report) ==
  CASE report = "failed" -> [stats EXCEPT !.failed = @ + 1]
    [] report = "starved" -> [stats EXCEPT !.successful = @ + 1, !.starvation = @ + 1]
    [] report = "clean" -> [stats EXCEPT !.successful = @ + 1, !.starvation = 0]

\* The closure returns its report or an error, or was never admitted.
ReportRun ==
  /\ maint.task \in {"run", "restart", "truncate", "report"}
  /\ \/ /\ gatePc["wal"] = "running"
        /\ reports' = Append(reports, IF maint.task # "report" THEN "failed"
                                      ELSE IF maint.starved THEN "starved" ELSE "clean")
     \/ gatePc["wal"] = "refused" /\ reports' = Append(reports, "failed")
  /\ stats' = Counted(reports'[Len(reports')])
  /\ gatePc' = [gatePc EXCEPT !["wal"] = "idle"]
  /\ maint' = [maint EXCEPT !.inProgress = FALSE, !.task = "sleep"]
  /\ UNCHANGED <<gateQueue, gateReaders, ran, wal, pin>>

\* select! of the shutdown and the interval; when both are ready, either.
Sleep ==
  /\ maint.task = "sleep"
  /\ \/ maint.shutdown /\ Task("exited")
     \/ Task("loop")

\* The scheduler between two runs.
SchedulerStep == LoopHead \/ EntryCheck \/ ClaimRun \/ Recheck \/ EnqueueRun \/ Sleep

WalStep == Passive \/ RestartLog \/ TruncateLog \/ ReportRun

GateNext ==
  \/ Admit \/ AdmissionTimeout("wal") \/ PinReader \/ UnpinReader
  \/ \E j \in GateCalls : GateCall(j) \/ AdmissionTimeout(j) \/ Abandon(j) \/ GateFinish(j)
  \/ StartMaintenance \/ ShutdownMaintenance
  \/ LoopHead \/ EntryCheck \/ ClaimRun \/ Recheck \/ EnqueueRun \/ Sleep
  \/ Passive \/ RestartLog \/ TruncateLog \/ ReportRun

GateSpec == GateInit /\ [][GateNext]_gateVars
-----------------------------------------------------------------------------
(* Properties.                                                             *)

GateTypeOK ==
  /\ gatePc \in [GateJobs -> {"idle", "waiting", "running", "abandoned", "answered",
                              "refused", "dropped"}]
  /\ gateReaders \subseteq GateReads /\ ran \subseteq GateCalls
  /\ wal.done <= wal.log /\ wal.log <= wal.file /\ pin \in -1 .. MaxFrames

\* A caller told that storage is busy may retry: its operation has not run and
\* never will ("a late commit" could "create an orphan turn").
RefusedNeverRuns ==
  \A j \in GateCalls : gatePc[j] = "refused" => j \notin ran

\* The active readers reported with the WAL telemetry are the reads whose
\* closure is at work, abandoned ones included.
ReadersExact ==
  gateReaders = {j \in GateReads : gatePc[j] \in {"running", "abandoned"}}

\* A maintenance run never truncates on what the PASSIVE pass saw: a RESTART came
\* between, met no reader and left no frame.
TruncateAfterCleanRestart ==
  "TRUNCATE" \in maint.asked =>
    "RESTART" \in maint.asked /\ ~maint.restart.busy /\ maint.restart.left = 0

\* The starvation count is the length of the current streak: successful runs that
\* starved since the last clean one, whatever failed in between.
StarvationIsStreak ==
  stats.starvation = Cardinality({k \in DOMAIN reports :
    reports[k] = "starved" /\ \A l \in DOMAIN reports : reports[l] = "clean" => l < k})

\* A refused operation never runs, the reader count is exact, and a maintenance run truncates
\* and counts starvation by what it saw itself, whatever calls, timeouts and runs interleave.
GateSafe ==
  /\ GateTypeOK
  /\ RefusedNeverRuns
  /\ ReadersExact
  /\ TruncateAfterCleanRestart
  /\ StarvationIsStreak

\* A status that says "not running" after shutdown is final: whichever check the
\* scheduler had passed when shutdown came, no run asks for the gate any more (the
\* promise of wal_scheduler_starts_once_and_stops_without_starting_more_runs).
NoRunOnceQuiet ==
  [](maint.shutdown /\ ~maint.inProgress => [](gatePc["wal"] = "idle"))

\* Shutdown ends the scheduler, whatever it was waiting for.
SchedulerStops == maint.shutdown /\ maint.started ~> maint.task = "exited"

\* Every call is answered, refused or was given up by its caller.
CallsEnd == \A j \in GateCalls : (gatePc[j] = "waiting") ~> (gatePc[j] \notin {"waiting", "running"})

\* Every call ends, shutdown ends the scheduler, and once it is seen idle after a
\* shutdown it stays idle.
GateSettles ==
  CallsEnd /\ SchedulerStops /\ NoRunOnceQuiet

=============================================================================
