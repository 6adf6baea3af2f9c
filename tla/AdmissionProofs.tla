-------------------------- MODULE AdmissionProofs ---------------------------
(***************************************************************************)
(* The two places where calls are admitted to something scarce: the start  *)
(* of a stream, which reserves a slot and memory, and the gate that every  *)
(* storage call passes, with the maintenance of the log behind it.  For any *)
(* set of calls, any limits and any length of the log.                     *)
(***************************************************************************)
EXTENDS StreamStart, StorageGate, TLAPS, FiniteSetTheorems, SequenceTheorems
-----------------------------------------------------------------------------
(* StorageGate                                                             *)

\* The points of a storage call.
GatePcs == {"idle", "waiting", "running", "abandoned", "answered", "refused", "dropped"}

\* The log: frames in it, frames checkpointed, frames in the file.
WalType == [log : 0 .. MaxFrames, done : Nat, file : Nat]

\* What a checkpoint answers.
TelemetryType == [busy : BOOLEAN, left : Int, payload : Nat, file : Nat]

\* The maintenance task.
MaintType ==
  [started : BOOLEAN, inProgress : BOOLEAN, shutdown : BOOLEAN, starved : BOOLEAN,
   task : {"none", "loop", "entry", "claim", "recheck", "enqueue", "run", "restart", "truncate",
           "report", "sleep", "exited"},
   restart : TelemetryType, asked : SUBSET {"PASSIVE", "RESTART", "TRUNCATE"}]

\* The statistics of the maintenance.
StatsType == [successful : Nat, failed : Nat, starvation : Nat]

\* How a run of the maintenance ended.
ReportKind == {"failed", "starved", "clean"}
\* The queue has exactly the waiting jobs, each once.
QueueExact ==
  /\ gatePc \in [GateJobs -> GatePcs] /\ gateQueue \in Seq(GateJobs)
  /\ \A k \in DOMAIN gateQueue : gatePc[gateQueue[k]] = "waiting"
  /\ \A k, l \in DOMAIN gateQueue : gateQueue[k] = gateQueue[l] => k = l
  /\ \A j \in GateJobs : gatePc[j] = "waiting" => \E k \in DOMAIN gateQueue : gateQueue[k] = j
\* Where the scheduler is between two runs.
BetweenRuns == {"none", "loop", "entry", "claim", "recheck", "enqueue", "sleep", "exited"}

\* Between two runs the maintenance has no place in the gate.
WalOut == maint.task \in BetweenRuns => gatePc["wal"] = "idle"

\* A call that has not ended has had no effect.
NotRan == \A j \in GateCalls : gatePc[j] \notin {"answered", "dropped"} => j \notin ran

\* A checkpoint never passes the end of the log, nor the log the end of its file.
LogOrdered == wal \in WalType /\ wal.done <= wal.log /\ wal.log <= wal.file /\ pin \in -1 .. MaxFrames

\* The run is claimed from before its last look at shutdown to its report; PASSIVE,
\* RESTART and TRUNCATE are asked for in this order.
StageOrder ==
  /\ maint \in MaintType
  /\ maint.task \in {"recheck", "enqueue", "run", "restart", "truncate", "report"} => maint.inProgress
  /\ ~maint.started => maint.task = "none"
  /\ maint.task = "restart" => "TRUNCATE" \notin maint.asked
  /\ maint.task = "truncate" => "RESTART" \in maint.asked /\ "TRUNCATE" \notin maint.asked

\* The starved reports since the last clean one.
Streak(rs) == {k \in DOMAIN rs : rs[k] = "starved" /\ \A l \in DOMAIN rs : rs[l] = "clean" => l < k}

\* The starvation counter is the length of that streak.
Counts == stats \in StatsType /\ reports \in Seq(ReportKind) /\ stats.starvation = Cardinality(Streak(reports))

\* The inductive invariant.
GateInv ==
  /\ QueueExact /\ WalOut /\ NotRan /\ gateReaders \subseteq GateReads /\ ran \subseteq GateCalls
  /\ LogOrdered /\ StageOrder /\ Counts /\ ReadersExact /\ TruncateAfterCleanRestart

\* A sequence without its element k.
Without(q, k) == SubSeq(q, 1, k - 1) \o SubSeq(q, k + 1, Len(q))

\* Its length and its elements.
LEMMA WithoutFacts ==
  ASSUME NEW S, NEW q \in Seq(S), NEW k \in 1 .. Len(q)
  PROVE  /\ Without(q, k) \in Seq(S) /\ Len(Without(q, k)) = Len(q) - 1
         /\ \A i \in 1 .. Len(q) - 1 : Without(q, k)[i] = IF i < k THEN q[i] ELSE q[i + 1]
<1> DEFINE a == SubSeq(q, 1, k - 1)  b == SubSeq(q, k + 1, Len(q))
<1>0. Len(q) \in Nat /\ k \in Nat /\ \A i \in 1 .. Len(q) : q[i] \in S
  OBVIOUS
<1>1. a \in Seq(S) /\ Len(a) = k - 1 /\ \A i \in 1 .. k - 1 : a[i] = q[i]
  BY <1>0
<1>2. b \in Seq(S) /\ Len(b) = Len(q) - k /\ \A i \in 1 .. Len(q) - k : b[i] = q[i + k]
  BY <1>0
<1> DEFINE c == a \o b
<1> HIDE DEF a, b
<1>3. /\ c \in Seq(S) /\ Len(c) = Len(a) + Len(b)
      /\ \A i \in 1 .. Len(a) + Len(b) : c[i] = IF i <= Len(a) THEN a[i] ELSE b[i - Len(a)]
  BY <1>1, <1>2, ConcatProperties, Zenon
<1> HIDE DEF c
<1>4. Len(c) = Len(q) - 1
  BY <1>0, <1>1, <1>2, <1>3
<1>5. ASSUME NEW i \in 1 .. Len(q) - 1
      PROVE  c[i] = IF i < k THEN q[i] ELSE q[i + 1]
  <2>0. c[i] = IF i <= k - 1 THEN a[i] ELSE b[i - (k - 1)]
    <3>1. Len(a) + Len(b) = Len(q) - 1
      BY <1>0, <1>1, <1>2
    <3>2. i \in 1 .. Len(a) + Len(b)
      BY <3>1
    <3>3. c[i] = IF i <= Len(a) THEN a[i] ELSE b[i - Len(a)]
      BY <1>3, <3>2, Zenon
    <3>4. Len(a) = k - 1
      BY <1>1
    <3> QED
      BY <3>3, <3>4, Zenon
  <2>1. CASE i < k
    <3>1. i \in 1 .. k - 1 /\ i <= k - 1
      BY <1>0, <2>1
    <3> QED
      BY <1>1, <2>0, <2>1, <3>1, Zenon
  <2>2. CASE ~(i < k)
    <3>1. i - (k - 1) \in 1 .. Len(q) - k /\ (i - (k - 1)) + k = i + 1 /\ ~(i <= k - 1)
      BY <1>0, <2>2
    <3>2. c[i] = b[i - (k - 1)]
      BY <2>0, <3>1, Zenon
    <3> QED
      BY <1>2, <2>2, <3>1, <3>2
  <2> QED
    BY <2>1, <2>2
<1>6. c = Without(q, k)
  BY DEF Without, a, b, c
<1> QED
  BY <1>3, <1>4, <1>5, <1>6

\* A job that leaves the queue leaves the others in their order.
LEMMA QueueLeft ==
  ASSUME QueueExact, NEW j \in GateJobs, gatePc[j] = "waiting", LeaveQueue(j),
         NEW what \in GatePcs \ {"waiting"}, gatePc' = [gatePc EXCEPT ![j] = what]
  PROVE  QueueExact'
<1> DEFINE k == CHOOSE k \in DOMAIN gateQueue : gateQueue[k] = j
<1>0. gateQueue \in Seq(GateJobs) /\ Len(gateQueue) \in Nat /\ DOMAIN gateQueue = 1 .. Len(gateQueue)
  BY DEF QueueExact
<1>1. k \in 1 .. Len(gateQueue) /\ gateQueue[k] = j
  BY <1>0 DEF QueueExact
<1>2. gateQueue' = Without(gateQueue, k)
  BY DEF LeaveQueue, Without
<1> HIDE DEF k
<1>3. /\ gateQueue' \in Seq(GateJobs) /\ Len(gateQueue') = Len(gateQueue) - 1
      /\ \A i \in 1 .. Len(gateQueue) - 1 :
           gateQueue'[i] = IF i < k THEN gateQueue[i] ELSE gateQueue[i + 1]
  BY Zenon, <1>0, <1>1, <1>2, WithoutFacts
<1>4. DOMAIN gateQueue' = 1 .. Len(gateQueue) - 1
  BY <1>3
<1>5. gatePc' \in [GateJobs -> GatePcs] /\ gatePc'[j] = what
      /\ \A i \in GateJobs : i # j => gatePc'[i] = gatePc[i]
  BY DEF QueueExact
<1>6. \A i \in DOMAIN gateQueue' : gatePc'[gateQueue'[i]] = "waiting"
  <2> SUFFICES ASSUME NEW i \in 1 .. Len(gateQueue) - 1 PROVE gatePc'[gateQueue'[i]] = "waiting"
    BY <1>4
  <2>1. CASE i < k
    BY <1>0, <1>1, <1>3, <1>5, <2>1 DEF QueueExact
  <2>2. CASE ~(i < k)
    <3>1. i + 1 \in DOMAIN gateQueue /\ i + 1 # k
      BY <1>0, <1>1, <2>2
    <3>2. gateQueue'[i] = gateQueue[i + 1]
      BY <1>3, <2>2
    <3>3. gatePc[gateQueue[i + 1]] = "waiting" /\ gateQueue[i + 1] # gateQueue[k]
      BY <1>0, <1>1, <3>1, Zenon DEF QueueExact
    <3>4. gateQueue[i + 1] \in GateJobs
      BY <1>0, <3>1
    <3> QED
      BY Zenon, <1>1, <1>5, <3>2, <3>3, <3>4
  <2> QED
    BY <2>1, <2>2
<1>7. \A i, l \in DOMAIN gateQueue' : gateQueue'[i] = gateQueue'[l] => i = l
  <2> SUFFICES ASSUME NEW i \in 1 .. Len(gateQueue) - 1, NEW l \in 1 .. Len(gateQueue) - 1,
                      gateQueue'[i] = gateQueue'[l]
               PROVE  i = l
    BY <1>4
  <2> DEFINE At(n) == IF n < k THEN n ELSE n + 1
  <2>1. At(i) \in 1 .. Len(gateQueue) /\ At(l) \in 1 .. Len(gateQueue)
    BY <1>0, <1>1
  <2>2. gateQueue[At(i)] = gateQueue[At(l)]
    BY <1>3
  <2>3. At(i) = At(l)
    BY <1>0, <2>1, <2>2 DEF QueueExact
  <2> QED
    BY <1>0, <1>1, <2>3
<1>8. ASSUME NEW w \in GateJobs, gatePc'[w] = "waiting"
      PROVE  \E i \in DOMAIN gateQueue' : gateQueue'[i] = w
  <2>1. w # j /\ gatePc[w] = "waiting"
    BY <1>5, <1>8
  <2>2. PICK n \in 1 .. Len(gateQueue) : gateQueue[n] = w
    BY <1>0, <2>1 DEF QueueExact
  <2>3. n # k
    BY <1>1, <2>1, <2>2
  <2>4. CASE n < k
    <3>1. n \in 1 .. Len(gateQueue) - 1 /\ gateQueue'[n] = w
      BY <1>0, <1>1, <1>3, <2>2, <2>4
    <3> QED
      BY <1>4, <3>1
  <2>5. CASE n > k
    <3>1. n - 1 \in 1 .. Len(gateQueue) - 1 /\ ~(n - 1 < k) /\ (n - 1) + 1 = n
      BY <1>0, <1>1, <2>5
    <3>2. gateQueue'[n - 1] = w
      BY <1>3, <2>2, <3>1
    <3> QED
      BY <1>4, <3>1, <3>2
  <2> QED
    BY <1>0, <1>1, <2>3, <2>4, <2>5
<1> QED
  BY <1>3, <1>5, <1>6, <1>7, <1>8 DEF QueueExact

\* A call that joins the end of the queue.
LEMMA QueueEntered ==
  ASSUME QueueExact, NEW j \in GateJobs, gatePc[j] # "waiting", Enter(j)
  PROVE  QueueExact'
<1>0. gateQueue \in Seq(GateJobs) /\ Len(gateQueue) \in Nat /\ DOMAIN gateQueue = 1 .. Len(gateQueue)
  BY DEF QueueExact
<1>1. /\ gateQueue' \in Seq(GateJobs) /\ Len(gateQueue') = Len(gateQueue) + 1
      /\ \A i \in 1 .. Len(gateQueue) : gateQueue'[i] = gateQueue[i]
      /\ gateQueue'[Len(gateQueue) + 1] = j
  BY <1>0 DEF Enter
<1>2. DOMAIN gateQueue' = 1 .. Len(gateQueue) + 1
  BY <1>1
<1>3. /\ gatePc' \in [GateJobs -> GatePcs] /\ gatePc'[j] = "waiting"
      /\ \A i \in GateJobs : i # j => gatePc'[i] = gatePc[i]
  BY DEF QueueExact, Enter, GatePcs
<1>4. \A i \in 1 .. Len(gateQueue) : gateQueue[i] # j /\ gateQueue[i] \in GateJobs
  BY <1>0 DEF QueueExact
<1>5. \A i \in DOMAIN gateQueue' : gatePc'[gateQueue'[i]] = "waiting"
  BY <1>0, <1>1, <1>2, <1>3, <1>4 DEF QueueExact
<1>6. \A i, l \in DOMAIN gateQueue' : gateQueue'[i] = gateQueue'[l] => i = l
  BY <1>0, <1>1, <1>2, <1>4 DEF QueueExact
<1>7. \A w \in GateJobs : gatePc'[w] = "waiting" => \E i \in DOMAIN gateQueue' : gateQueue'[i] = w
  <2> SUFFICES ASSUME NEW w \in GateJobs, gatePc'[w] = "waiting"
               PROVE  \E i \in DOMAIN gateQueue' : gateQueue'[i] = w
    OBVIOUS
  <2>1. CASE w = j
    BY <1>0, <1>1, <1>2, <2>1
  <2>2. CASE w # j
    <3>1. PICK n \in 1 .. Len(gateQueue) : gateQueue[n] = w
      BY <1>0, <1>3, <2>2 DEF QueueExact
    <3> QED
      BY <1>0, <1>1, <1>2, <3>1
  <2> QED
    BY <2>1, <2>2
<1> QED
  BY <1>1, <1>3, <1>5, <1>6, <1>7 DEF QueueExact

\* The head of the queue gets the permit.
LEMMA QueueAdmitted ==
  ASSUME QueueExact, gateQueue # <<>>, gateQueue' = Tail(gateQueue),
         gatePc' = [gatePc EXCEPT ![Head(gateQueue)] = "running"]
  PROVE  QueueExact' /\ Head(gateQueue) \in GateJobs /\ gatePc[Head(gateQueue)] = "waiting"
<1>0. gateQueue \in Seq(GateJobs) /\ Len(gateQueue) \in Nat /\ DOMAIN gateQueue = 1 .. Len(gateQueue)
  BY DEF QueueExact
<1>1. Len(gateQueue) > 0 /\ Head(gateQueue) = gateQueue[1] /\ gateQueue[1] \in GateJobs
  BY <1>0
<1>2. /\ gateQueue' \in Seq(GateJobs) /\ Len(gateQueue') = Len(gateQueue) - 1
      /\ \A i \in 1 .. Len(gateQueue) - 1 : gateQueue'[i] = gateQueue[i + 1]
  BY <1>0, <1>1
<1>3. DOMAIN gateQueue' = 1 .. Len(gateQueue) - 1
  BY <1>2
<1>4. gatePc[gateQueue[1]] = "waiting"
  BY <1>0, <1>1 DEF QueueExact
<1>5. /\ gatePc' \in [GateJobs -> GatePcs] /\ gatePc'[gateQueue[1]] = "running"
      /\ \A i \in GateJobs : i # gateQueue[1] => gatePc'[i] = gatePc[i]
  BY <1>1 DEF QueueExact, GatePcs
<1>6. \A i \in 1 .. Len(gateQueue) - 1 :
        i + 1 \in 1 .. Len(gateQueue) /\ gateQueue[i + 1] # gateQueue[1] /\ gateQueue[i + 1] \in GateJobs
  <2> TAKE i \in 1 .. Len(gateQueue) - 1
  <2>1. i + 1 \in 1 .. Len(gateQueue) /\ 1 \in 1 .. Len(gateQueue) /\ i + 1 # 1
    BY <1>0
  <2> QED
    BY <1>0, <2>1 DEF QueueExact
<1>7. \A i \in DOMAIN gateQueue' : gatePc'[gateQueue'[i]] = "waiting"
  BY <1>0, <1>2, <1>3, <1>5, <1>6 DEF QueueExact
<1>8. \A i, l \in DOMAIN gateQueue' : gateQueue'[i] = gateQueue'[l] => i = l
  <2> SUFFICES ASSUME NEW i \in 1 .. Len(gateQueue) - 1, NEW l \in 1 .. Len(gateQueue) - 1,
                      gateQueue[i + 1] = gateQueue[l + 1]
               PROVE  i = l
    BY <1>2, <1>3
  <2>1. i + 1 = l + 1
    BY <1>0, <1>6 DEF QueueExact
  <2> QED
    BY <1>0, <2>1
<1>9. ASSUME NEW w \in GateJobs, gatePc'[w] = "waiting"
      PROVE  \E i \in DOMAIN gateQueue' : gateQueue'[i] = w
  <2>1. w # gateQueue[1] /\ gatePc[w] = "waiting"
    BY <1>5, <1>9
  <2>2. PICK n \in 1 .. Len(gateQueue) : gateQueue[n] = w
    BY <1>0, <2>1 DEF QueueExact
  <2>3. n - 1 \in 1 .. Len(gateQueue) - 1 /\ (n - 1) + 1 = n
    BY <1>0, <2>1, <2>2
  <2>4. gateQueue'[n - 1] = w
    BY <1>2, <2>2, <2>3
  <2> QED
    BY Zenon, <1>3, <2>3, <2>4
<1> QED
  BY <1>1, <1>2, <1>4, <1>5, <1>7, <1>8, <1>9 DEF QueueExact

\* A job that was not waiting moves on, and does not wait now.
LEMMA QueueKept ==
  ASSUME QueueExact, NEW j \in GateJobs, gatePc[j] # "waiting", UNCHANGED gateQueue,
         NEW what \in GatePcs \ {"waiting"}, gatePc' = [gatePc EXCEPT ![j] = what]
  PROVE  QueueExact'
  BY DEF QueueExact
-----------------------------------------------------------------------------
\* What one more report does to the streak.
LEMMA StreakGrows ==
  ASSUME NEW rs \in Seq(ReportKind), NEW r \in ReportKind
  PROVE  /\ IsFiniteSet(Streak(rs)) /\ Cardinality(Streak(rs)) \in Nat
         /\ Append(rs, r) \in Seq(ReportKind) /\ Len(Append(rs, r)) = Len(rs) + 1
         /\ Append(rs, r)[Len(rs) + 1] = r
         /\ r = "failed" => Cardinality(Streak(Append(rs, r))) = Cardinality(Streak(rs))
         /\ r = "starved" => Cardinality(Streak(Append(rs, r))) = Cardinality(Streak(rs)) + 1
         /\ r = "clean" => Cardinality(Streak(Append(rs, r))) = 0
<1> DEFINE n == Len(rs)  new == Append(rs, r)
<1>0. n \in Nat /\ DOMAIN rs = 1 .. n
  OBVIOUS
<1>1. /\ new \in Seq(ReportKind) /\ Len(new) = n + 1 /\ new[n + 1] = r
      /\ \A i \in 1 .. n : new[i] = rs[i]
  BY <1>0
<1>2. DOMAIN new = 1 .. n + 1
  BY <1>1
<1>3. IsFiniteSet(Streak(rs)) /\ Cardinality(Streak(rs)) \in Nat /\ n + 1 \notin Streak(rs)
  <2>1. IsFiniteSet(1 .. n)
    BY <1>0, FS_Interval
  <2>2. Streak(rs) \subseteq 1 .. n
    BY <1>0 DEF Streak
  <2>3. IsFiniteSet(Streak(rs))
    BY <2>1, <2>2, FS_Subset
  <2> QED
    BY <1>0, <2>2, <2>3, FS_CardinalityType
<1> HIDE DEF n, new
<1>4. ASSUME r = "failed" PROVE Streak(new) = Streak(rs)
  BY <1>0, <1>1, <1>2, <1>4 DEF Streak
<1>5. ASSUME r = "starved" PROVE Streak(new) = Streak(rs) \cup {n + 1}
  BY <1>0, <1>1, <1>2, <1>5 DEF Streak
<1>6. ASSUME r = "clean" PROVE Streak(new) = {}
  BY <1>0, <1>1, <1>2, <1>6 DEF Streak
<1>7. Cardinality({}) = 0
  BY FS_EmptySet
<1>8. Cardinality(Streak(rs) \cup {n + 1}) = Cardinality(Streak(rs)) + 1
  BY Zenon, <1>3, FS_AddElement
<1>9. /\ r = "failed" => Cardinality(Streak(new)) = Cardinality(Streak(rs))
      /\ r = "starved" => Cardinality(Streak(new)) = Cardinality(Streak(rs)) + 1
      /\ r = "clean" => Cardinality(Streak(new)) = 0
  BY Zenon, <1>4, <1>5, <1>6, <1>7, <1>8
<1> QED
  BY <1>1, <1>3, <1>9 DEF n, new

\* The records a step leaves, as operators of what it sets.
StatsWith(s, a, b) == [s EXCEPT !.successful = a, !.starvation = b]

\* The same, field by field.
LEMMA StatsSet ==
  ASSUME NEW s \in StatsType, NEW a \in Nat, NEW b \in Nat
  PROVE  StatsWith(s, a, b) \in StatsType /\ StatsWith(s, a, b).starvation = b
  BY Zenon DEF StatsType, StatsWith

\* The counter follows the reports.
LEMMA ReportCounted ==
  ASSUME Counts, NEW r \in ReportKind, reports' = Append(reports, r),
         stats' = Counted(reports'[Len(reports')])
  PROVE  Counts'
<1>1. stats \in StatsType /\ reports \in Seq(ReportKind) /\ stats.starvation = Cardinality(Streak(reports))
  BY DEF Counts
<1>2. /\ Cardinality(Streak(reports)) \in Nat /\ reports' \in Seq(ReportKind) /\ reports'[Len(reports')] = r
      /\ r = "failed" => Cardinality(Streak(reports')) = Cardinality(Streak(reports))
      /\ r = "starved" => Cardinality(Streak(reports')) = Cardinality(Streak(reports)) + 1
      /\ r = "clean" => Cardinality(Streak(reports')) = 0
  BY <1>1, StreakGrows
<1>3. stats' = Counted(r)
  BY <1>2
<1>4. stats' \in StatsType /\ stats'.starvation =
        IF r = "failed" THEN stats.starvation ELSE IF r = "starved" THEN stats.starvation + 1 ELSE 0
  <2>0. stats \in [successful : Nat, failed : Nat, starvation : Nat]
    BY <1>1 DEF StatsType
  <2>1. CASE r = "failed"
    <3>1. stats' = [stats EXCEPT !.failed = @ + 1]
      BY <1>3, <2>1 DEF Counted
    <3> QED
      BY <2>0, <2>1, <3>1 DEF StatsType
  <2>2. CASE r = "starved"
    <3> DEFINE a == stats.successful + 1  b == stats.starvation + 1
    <3>1. stats' = StatsWith(stats, a, b)
      BY <1>3, <2>2 DEF Counted, StatsWith
    <3>2. a \in Nat /\ b \in Nat
      BY <2>0
    <3> HIDE DEF a, b
    <3>3. stats' \in StatsType /\ stats'.starvation = b
      <4>1. StatsWith(stats, a, b) \in StatsType /\ StatsWith(stats, a, b).starvation = b
        BY <1>1, <3>2, StatsSet, Zenon
      <4> QED
        BY <3>1, <4>1, Zenon
    <3> QED
      BY <2>2, <3>3 DEF b
  <2>3. CASE r = "clean"
    <3> DEFINE a == stats.successful + 1  b == 0
    <3>1. stats' = StatsWith(stats, a, b)
      BY <1>3, <2>3 DEF Counted, StatsWith
    <3>2. a \in Nat /\ b \in Nat
      BY <2>0
    <3> HIDE DEF a, b
    <3>3. stats' \in StatsType /\ stats'.starvation = b
      <4>1. StatsWith(stats, a, b) \in StatsType /\ StatsWith(stats, a, b).starvation = b
        BY <1>1, <3>2, StatsSet, Zenon
      <4> QED
        BY <3>1, <4>1, Zenon
    <3> QED
      BY <2>3, <3>3 DEF b
  <2> QED
    BY <2>1, <2>2, <2>3 DEF ReportKind
<1>5. stats'.starvation = Cardinality(Streak(reports'))
  BY <1>1, <1>2, <1>4 DEF ReportKind
<1>6. (Cardinality(Streak(reports)))' = Cardinality(Streak(reports'))
  BY DEF Streak
<1> QED
  BY <1>2, <1>4, <1>5, <1>6 DEF Counts
-----------------------------------------------------------------------------
\* A checkpoint keeps the log ordered.
LEMMA CheckpointedFacts ==
  ASSUME LogOrdered
  PROVE  /\ Checkpointed \in Nat /\ Checkpointed <= wal.log
         /\ \A mode : Telemetry(mode) \in TelemetryType
  BY DEF LogOrdered, WalType, Checkpointed, Telemetry, TelemetryType

\* A step that keeps the queue, the calls and the log's reader leaves these in place.
LEMMA GateFacts ==
  ASSUME GateInv
  PROVE  /\ QueueExact /\ WalOut /\ NotRan /\ gateReaders \subseteq GateReads /\ ran \subseteq GateCalls
         /\ LogOrdered /\ StageOrder /\ Counts /\ ReadersExact /\ TruncateAfterCleanRestart
         /\ GateReads \subseteq GateCalls /\ "wal" \notin GateCalls /\ MaxFrames \in Nat
         /\ gatePc \in [GateJobs -> GatePcs] /\ maint \in MaintType
  BY GateAssumption DEF GateInv, QueueExact, StageOrder

\* A call of the gate moves; the log, the maintenance and its reports stay.
LEMMA CallMoves ==
  ASSUME GateInv, NEW j \in GateCalls, NEW what \in GatePcs,
         gatePc' = [gatePc EXCEPT ![j] = what], QueueExact', LogOrdered',
         UNCHANGED <<maint, stats, reports>>, ran' \subseteq GateCalls,
         \A i \in GateCalls : i # j => (i \in ran' <=> i \in ran),
         what \notin {"answered", "dropped"} => j \notin ran',
         gateReaders' = IF j \notin GateReads THEN gateReaders
                        ELSE IF what \in {"running", "abandoned"} THEN gateReaders \cup {j}
                        ELSE gateReaders \ {j}
  PROVE  GateInv'
<1>0. /\ WalOut /\ NotRan /\ gateReaders \subseteq GateReads
      /\ StageOrder /\ Counts /\ ReadersExact /\ TruncateAfterCleanRestart
      /\ GateReads \subseteq GateCalls /\ "wal" \notin GateCalls
      /\ gatePc \in [GateJobs -> GatePcs]
  BY GateFacts
<1>1. /\ gatePc'[j] = what /\ "wal" \in GateJobs /\ gatePc'["wal"] = gatePc["wal"]
      /\ \A i \in GateCalls : i # j => gatePc'[i] = gatePc[i]
  BY <1>0 DEF GateJobs
<1>2. WalOut' /\ StageOrder' /\ TruncateAfterCleanRestart'
  BY <1>0, <1>1 DEF WalOut, StageOrder, TruncateAfterCleanRestart
<1>3. Counts'
  BY <1>0 DEF Counts, Streak
<1>4. NotRan'
  BY <1>0, <1>1 DEF NotRan
<1>5. ReadersExact' /\ gateReaders' \subseteq GateReads
  BY <1>0, <1>1 DEF ReadersExact
<1> QED
  BY <1>2, <1>3, <1>4, <1>5 DEF GateInv

\* The maintenance moves; the calls, and what they ran, stay.
LEMMA MaintenanceMoves ==
  ASSUME GateInv, QueueExact', WalOut', LogOrdered', StageOrder', Counts',
         TruncateAfterCleanRestart', UNCHANGED <<gateReaders, ran>>,
         \A i \in GateCalls : gatePc'[i] = gatePc[i]
  PROVE  GateInv'
<1>0. /\ NotRan /\ gateReaders \subseteq GateReads /\ ran \subseteq GateCalls
      /\ ReadersExact /\ GateReads \subseteq GateCalls
  BY GateFacts
<1>1. NotRan' /\ ReadersExact'
  BY <1>0 DEF NotRan, ReadersExact
<1> QED
  BY <1>0, <1>1 DEF GateInv

\* A call that arrives.
LEMMA GateCallKeeps ==
  ASSUME GateInv, NEW j \in GateCalls, GateCall(j)
  PROVE  GateInv'
<1>0. /\ QueueExact /\ NotRan /\ ReadersExact /\ LogOrdered /\ ran \subseteq GateCalls
      /\ j \in GateJobs /\ gatePc[j] = "idle" /\ Enter(j)
  BY GateFacts DEF GateCall, GateJobs
<1>1. QueueExact'
  BY <1>0, QueueEntered
<1>2. gatePc' = [gatePc EXCEPT ![j] = "waiting"] /\ "waiting" \in GatePcs
  BY <1>0 DEF Enter, GatePcs
<1>3. UNCHANGED <<gateReaders, ran, wal, pin, maint, stats, reports>>
  BY DEF GateCall
<1>4. LogOrdered'
  BY <1>0, <1>3 DEF LogOrdered
<1>5. j \notin ran /\ j \notin gateReaders
  BY <1>0 DEF NotRan, ReadersExact
<1> QED
  BY Zenon, <1>0, <1>1, <1>2, <1>3, <1>4, <1>5, CallMoves

\* A call that is admitted.
LEMMA AdmitKeeps ==
  ASSUME GateInv, Admit
  PROVE  GateInv'
<1> DEFINE j == Head(gateQueue)
<1>0. /\ QueueExact /\ WalOut /\ NotRan /\ ReadersExact /\ LogOrdered /\ StageOrder /\ Counts
      /\ TruncateAfterCleanRestart /\ GateReads \subseteq GateCalls /\ "wal" \notin GateCalls
      /\ ran \subseteq GateCalls /\ gatePc \in [GateJobs -> GatePcs]
  BY GateFacts
<1>1. /\ gateQueue # <<>> /\ gateQueue' = Tail(gateQueue) /\ gatePc' = [gatePc EXCEPT ![j] = "running"]
      /\ gateReaders' = IF j \in GateReads THEN gateReaders \cup {j} ELSE gateReaders
      /\ UNCHANGED <<ran, wal, pin, maint, stats, reports>>
  BY DEF Admit
<1>2. QueueExact' /\ j \in GateJobs /\ gatePc[j] = "waiting"
  BY <1>0, <1>1, QueueAdmitted
<1>3. LogOrdered'
  BY <1>0, <1>1 DEF LogOrdered
<1> HIDE DEF j
<1>4. CASE j \in GateCalls
  <2>1. j \notin ran
    BY <1>0, <1>2, <1>4 DEF NotRan
  <2> QED
    BY Zenon, <1>0, <1>1, <1>2, <1>3, <1>4, <2>1, CallMoves DEF GatePcs
<1>5. CASE j = "wal"
  <2>1. WalOut' /\ StageOrder' /\ TruncateAfterCleanRestart'
    BY <1>0, <1>1, <1>2, <1>5 DEF WalOut, StageOrder, TruncateAfterCleanRestart
  <2>2. Counts'
    BY <1>0, <1>1 DEF Counts, Streak
  <2>3. \A i \in GateCalls : gatePc'[i] = gatePc[i]
    BY <1>0, <1>1, <1>5 DEF GateJobs
  <2>4. UNCHANGED <<gateReaders, ran>>
    BY <1>0, <1>1, <1>5
  <2> QED
    BY <1>2, <1>3, <2>1, <2>2, <2>3, <2>4, MaintenanceMoves
<1> QED
  BY <1>2, <1>4, <1>5 DEF GateJobs

\* A call whose wait for admission times out.
LEMMA TimeoutKeeps ==
  ASSUME GateInv, NEW j \in GateJobs, AdmissionTimeout(j)
  PROVE  GateInv'
<1>0. /\ QueueExact /\ WalOut /\ NotRan /\ ReadersExact /\ LogOrdered /\ StageOrder /\ Counts
      /\ TruncateAfterCleanRestart /\ GateReads \subseteq GateCalls /\ "wal" \notin GateCalls
      /\ ran \subseteq GateCalls /\ gatePc \in [GateJobs -> GatePcs]
  BY GateFacts
<1>1. /\ gatePc[j] = "waiting" /\ gatePc' = [gatePc EXCEPT ![j] = "refused"] /\ LeaveQueue(j)
      /\ UNCHANGED <<gateReaders, ran, wal, pin, maint, stats, reports>>
      /\ "refused" \in GatePcs \ {"waiting"}
  BY DEF AdmissionTimeout, GatePcs
<1>2. QueueExact'
  BY Zenon, <1>0, <1>1, QueueLeft
<1>3. LogOrdered'
  BY <1>0, <1>1 DEF LogOrdered
<1>4. CASE j \in GateCalls
  <2>1. j \notin ran /\ j \notin gateReaders
    BY <1>0, <1>1, <1>4 DEF NotRan, ReadersExact
  <2> QED
    BY Zenon, <1>0, <1>1, <1>2, <1>3, <1>4, <2>1, CallMoves
<1>5. CASE j = "wal"
  <2>1. WalOut' /\ StageOrder' /\ TruncateAfterCleanRestart'
    BY <1>0, <1>1, <1>5 DEF WalOut, StageOrder, TruncateAfterCleanRestart
  <2>2. Counts'
    BY <1>0, <1>1 DEF Counts, Streak
  <2>3. \A i \in GateCalls : gatePc'[i] = gatePc[i]
    BY <1>0, <1>1, <1>5 DEF GateJobs
  <2> QED
    BY <1>1, <1>2, <1>3, <2>1, <2>2, <2>3, MaintenanceMoves
<1> QED
  BY <1>4, <1>5 DEF GateJobs

\* A call whose caller goes away.
LEMMA AbandonKeeps ==
  ASSUME GateInv, NEW j \in GateCalls, Abandon(j)
  PROVE  GateInv'
<1>0. /\ QueueExact /\ NotRan /\ ReadersExact /\ LogOrdered /\ ran \subseteq GateCalls
      /\ j \in GateJobs /\ gatePc \in [GateJobs -> GatePcs]
  BY GateFacts DEF GateJobs
<1>1. UNCHANGED <<gateReaders, ran, wal, pin, maint, stats, reports>>
  BY DEF Abandon
<1>2. LogOrdered'
  BY <1>0, <1>1 DEF LogOrdered
<1>3. CASE gatePc[j] = "waiting" /\ gatePc' = [gatePc EXCEPT ![j] = "dropped"] /\ LeaveQueue(j)
  <2>1. QueueExact' /\ "dropped" \in GatePcs
    BY Zenon, <1>0, <1>3, QueueLeft DEF GatePcs
  <2>2. j \notin gateReaders
    BY <1>0, <1>3 DEF ReadersExact
  <2> QED
    BY Zenon, <1>0, <1>1, <1>2, <1>3, <2>1, <2>2, CallMoves
<1>4. CASE gatePc[j] = "running" /\ gatePc' = [gatePc EXCEPT ![j] = "abandoned"] /\ UNCHANGED gateQueue
  <2>1. QueueExact' /\ "abandoned" \in GatePcs
    BY Zenon, <1>0, <1>4, QueueKept DEF GatePcs
  <2>2. j \notin ran /\ (j \in GateReads => j \in gateReaders)
    BY <1>0, <1>4 DEF ReadersExact, NotRan
  <2> QED
    BY Zenon, <1>0, <1>1, <1>2, <1>4, <2>1, <2>2, CallMoves
<1> QED
  BY <1>3, <1>4 DEF Abandon

\* The log after a write of n frames.
LogWith(w, n, f) == [w EXCEPT !.log = n, !.file = f]

\* The same, field by field.
LEMMA LogSet ==
  ASSUME NEW w \in WalType, NEW n \in 0 .. MaxFrames, NEW f \in Nat
  PROVE  /\ LogWith(w, n, f) \in WalType /\ LogWith(w, n, f).log = n
         /\ LogWith(w, n, f).file = f /\ LogWith(w, n, f).done = w.done
  BY Zenon DEF WalType, LogWith

\* A call that ends.
LEMMA FinishKeeps ==
  ASSUME GateInv, NEW j \in GateCalls, GateFinish(j)
  PROVE  GateInv'
<1>0. /\ QueueExact /\ NotRan /\ ReadersExact /\ LogOrdered /\ ran \subseteq GateCalls
      /\ j \in GateJobs /\ gatePc \in [GateJobs -> GatePcs] /\ MaxFrames \in Nat
  BY GateFacts DEF GateJobs
<1> DEFINE what == IF gatePc[j] = "running" THEN "answered" ELSE "dropped"
<1>1. /\ gatePc' = [gatePc EXCEPT ![j] = what] /\ what \in GatePcs \ {"waiting"}
      /\ what \in {"answered", "dropped"} /\ gatePc[j] # "waiting" /\ UNCHANGED gateQueue
  BY <1>0 DEF GateFinish, GatePcs
<1> HIDE DEF what
<1>2. QueueExact'
  BY Zenon, <1>0, <1>1, QueueKept
<1>3. LogOrdered'
  <2>1. PICK frames \in 0 .. (IF j \in GateReads THEN 0 ELSE MaxFrames - wal.log) :
          wal' = [wal EXCEPT !.log = @ + frames,
                             !.file = IF wal.log + frames > @ THEN wal.log + frames ELSE @]
    BY Zenon DEF GateFinish
  <2>2. frames \in Nat /\ wal.log + frames <= MaxFrames
    BY <1>0, <2>1 DEF LogOrdered, WalType
  <2>3. pin' = pin
    BY DEF GateFinish
  <2> DEFINE n == wal.log + frames  f == IF n > wal.file THEN n ELSE wal.file
  <2>4. wal \in WalType /\ n \in 0 .. MaxFrames /\ f \in Nat /\ wal.done <= n /\ n <= f
    BY <1>0, <2>2 DEF LogOrdered, WalType
  <2>5. wal' = LogWith(wal, n, f)
    BY <2>1 DEF LogWith
  <2> HIDE DEF n, f
  <2>6. wal' \in WalType /\ wal'.log = n /\ wal'.file = f /\ wal'.done = wal.done
    BY <2>4, <2>5, LogSet
  <2> QED
    BY <1>0, <2>3, <2>4, <2>6 DEF LogOrdered
<1>4. gateReaders' = gateReaders \ {j} /\ ran' = ran \cup {j} /\ UNCHANGED <<maint, stats, reports>>
  BY DEF GateFinish
<1>5. j \notin GateReads => j \notin gateReaders
  BY <1>0 DEF ReadersExact
<1> QED
  BY Zenon, <1>0, <1>1, <1>2, <1>3, <1>4, <1>5, CallMoves
-----------------------------------------------------------------------------
\* A step of the maintenance outside the gate.
LEMMA TaskMoves ==
  ASSUME GateInv, StageOrder', LogOrdered', TruncateAfterCleanRestart',
         UNCHANGED <<gatePc, gateQueue, gateReaders, ran, stats, reports>>,
         maint'.task \in BetweenRuns => maint.task \in BetweenRuns
  PROVE  GateInv'
<1>0. QueueExact /\ WalOut /\ Counts
  BY GateFacts
<1>1. QueueExact' /\ Counts' /\ WalOut'
  BY <1>0 DEF QueueExact, Counts, Streak, WalOut
<1> QED
  BY <1>1, MaintenanceMoves

\* A reader that pins or releases the log.
LEMMA ReaderKeeps ==
  ASSUME GateInv, PinReader \/ UnpinReader
  PROVE  GateInv'
<1>0. LogOrdered /\ StageOrder /\ TruncateAfterCleanRestart /\ MaxFrames \in Nat
  BY GateFacts
<1>1. UNCHANGED <<gatePc, gateQueue, gateReaders, ran, wal, maint, stats, reports>> /\ pin' \in {-1, wal.log}
  BY DEF PinReader, UnpinReader
<1>2. LogOrdered' /\ StageOrder' /\ TruncateAfterCleanRestart'
  BY <1>0, <1>1 DEF LogOrdered, WalType, StageOrder, TruncateAfterCleanRestart
<1> QED
  BY <1>1, <1>2, TaskMoves

\* What start, shutdown and the loop do to the runtime's record.
LEMMA StartSet ==
  ASSUME NEW m \in MaintType, NEW n, n = [m EXCEPT !.started = TRUE, !.task = "loop"]
  PROVE  n \in MaintType /\ n.asked = m.asked /\ n.restart = m.restart /\ n.task = "loop" /\ n.started
  BY Zenon DEF MaintType

\* Its shutdown, field by field.
LEMMA ShutdownSet ==
  ASSUME NEW m \in MaintType, NEW n, n = [m EXCEPT !.shutdown = TRUE]
  PROVE  /\ n \in MaintType /\ n.asked = m.asked /\ n.restart = m.restart /\ n.task = m.task
         /\ n.started = m.started /\ n.inProgress = m.inProgress
  BY Zenon DEF MaintType

\* The maintenance at another point.
TaskWith(m, t) == [m EXCEPT !.task = t]

\* The same, field by field.
LEMMA TaskSet ==
  ASSUME NEW m \in MaintType,
         NEW t \in {"loop", "entry", "claim", "enqueue", "report", "sleep", "exited"}
  PROVE  /\ TaskWith(m, t) \in MaintType /\ TaskWith(m, t).asked = m.asked
         /\ TaskWith(m, t).restart = m.restart /\ TaskWith(m, t).task = t
         /\ TaskWith(m, t).started = m.started /\ TaskWith(m, t).inProgress = m.inProgress
  BY DEF MaintType, TaskWith

\* The run is claimed.
ClaimWith(m) == [m EXCEPT !.inProgress = TRUE, !.task = "recheck"]

\* The same, field by field.
LEMMA ClaimSet ==
  ASSUME NEW m \in MaintType
  PROVE  /\ ClaimWith(m) \in MaintType /\ ClaimWith(m).asked = m.asked /\ ClaimWith(m).task = "recheck"
         /\ ClaimWith(m).restart = m.restart /\ ClaimWith(m).started = m.started /\ ClaimWith(m).inProgress
  BY Zenon DEF MaintType, ClaimWith

\* After the report, or a run given up for a shutdown.
ReportWith(m) == [m EXCEPT !.inProgress = FALSE, !.task = "sleep"]

\* The same, field by field.
LEMMA ReportSet ==
  ASSUME NEW m \in MaintType
  PROVE  /\ ReportWith(m) \in MaintType /\ ReportWith(m).asked = m.asked /\ ReportWith(m).task = "sleep"
         /\ ReportWith(m).started = m.started /\ ReportWith(m).restart = m.restart
  BY Zenon DEF MaintType, ReportWith

\* The scheduler moves between two runs: what the last run asked for stays.
LEMMA SchedulerMoves ==
  ASSUME GateInv, maint' \in MaintType, maint'.asked = maint.asked, maint'.restart = maint.restart,
         UNCHANGED <<gatePc, gateQueue, gateReaders, ran, wal, pin, stats, reports>>,
         \/ /\ maint'.task = maint.task /\ maint'.started = maint.started
            /\ maint'.inProgress = maint.inProgress
         \/ /\ maint.task \in BetweenRuns /\ maint'.task \in BetweenRuns /\ maint'.started
            /\ maint'.task \in {"recheck", "enqueue"} => maint'.inProgress
  PROVE  GateInv'
<1>0. LogOrdered /\ StageOrder /\ TruncateAfterCleanRestart
  BY GateFacts
<1>1. LogOrdered'
  BY <1>0 DEF LogOrdered
<1>2. StageOrder' /\ TruncateAfterCleanRestart'
  BY <1>0 DEF StageOrder, TruncateAfterCleanRestart, BetweenRuns
<1> QED
  BY <1>1, <1>2, TaskMoves

\* The maintenance is started or told to stop.
LEMMA RuntimeKeeps ==
  ASSUME GateInv, StartMaintenance \/ ShutdownMaintenance
  PROVE  GateInv'
<1>0. StageOrder /\ maint \in MaintType
  BY GateFacts
<1>1. UNCHANGED <<gatePc, gateQueue, gateReaders, ran, wal, pin, stats, reports>>
  BY DEF StartMaintenance, ShutdownMaintenance
<1>2. CASE ShutdownMaintenance
  <2>1. /\ maint' \in MaintType /\ maint'.asked = maint.asked /\ maint'.restart = maint.restart
        /\ maint'.task = maint.task /\ maint'.started = maint.started
        /\ maint'.inProgress = maint.inProgress
    BY <1>0, <1>2, ShutdownSet DEF ShutdownMaintenance
  <2> QED
    BY Zenon, <1>1, <2>1, SchedulerMoves
<1>3. CASE StartMaintenance
  <2>1. maint.task = "none" /\ maint' = [maint EXCEPT !.started = TRUE, !.task = "loop"]
    BY <1>0, <1>3 DEF StageOrder, StartMaintenance
  <2>2. /\ maint' \in MaintType /\ maint'.asked = maint.asked /\ maint'.restart = maint.restart
        /\ maint'.task = "loop" /\ maint'.started
    BY Zenon, <1>0, <2>1, StartSet
  <2>3. maint.task \in BetweenRuns /\ maint'.task \in BetweenRuns /\ maint'.task \notin {"recheck", "enqueue"}
    BY <2>1, <2>2 DEF BetweenRuns
  <2> QED
    BY Zenon, <1>1, <2>2, <2>3, SchedulerMoves
<1> QED
  BY <1>2, <1>3

\* The scheduler looks at shutdown, claims a run, gives it up, or sleeps.
LEMMA SchedulerKeeps ==
  ASSUME GateInv, LoopHead \/ EntryCheck \/ ClaimRun \/ Recheck \/ Sleep
  PROVE  GateInv'
<1>0. StageOrder /\ maint \in MaintType
  BY GateFacts
<1>1. UNCHANGED <<gatePc, gateQueue, gateReaders, ran, wal, pin, stats, reports>>
  BY DEF LoopHead, EntryCheck, ClaimRun, Recheck, Sleep, Task
<1>2. maint.task \in BetweenRuns /\ maint.started /\ (maint.task = "recheck" => maint.inProgress)
  BY <1>0 DEF LoopHead, EntryCheck, ClaimRun, Recheck, Sleep, StageOrder, BetweenRuns, MaintType
<1>3. PICK t \in {"loop", "entry", "claim", "enqueue", "sleep", "exited"} :
        \/ maint' = TaskWith(maint, t) /\ (t = "enqueue" => maint.task = "recheck")
        \/ maint' = ClaimWith(maint)
        \/ maint' = ReportWith(maint)
  BY DEF LoopHead, EntryCheck, ClaimRun, Recheck, Sleep, Task, TaskWith, ClaimWith, ReportWith
<1>4. CASE maint' = TaskWith(maint, t) /\ (t = "enqueue" => maint.task = "recheck")
  <2>1. /\ maint' \in MaintType /\ maint'.asked = maint.asked /\ maint'.restart = maint.restart
        /\ maint'.task = t /\ maint'.started = maint.started /\ maint'.inProgress = maint.inProgress
    BY <1>0, <1>4, TaskSet
  <2>2. maint'.task \in BetweenRuns /\ (maint'.task \in {"recheck", "enqueue"} => maint'.inProgress)
    BY <1>2, <1>4, <2>1 DEF BetweenRuns
  <2> QED
    BY Zenon, <1>1, <1>2, <2>1, <2>2, SchedulerMoves
<1>5. CASE maint' = ClaimWith(maint)
  <2>1. /\ maint' \in MaintType /\ maint'.asked = maint.asked /\ maint'.restart = maint.restart
        /\ maint'.task = "recheck" /\ maint'.started = maint.started /\ maint'.inProgress
    BY <1>0, <1>5, ClaimSet
  <2>2. maint'.task \in BetweenRuns
    BY <2>1 DEF BetweenRuns
  <2> QED
    BY Zenon, <1>1, <1>2, <2>1, <2>2, SchedulerMoves
<1>6. CASE maint' = ReportWith(maint)
  <2>1. /\ maint' \in MaintType /\ maint'.asked = maint.asked /\ maint'.restart = maint.restart
        /\ maint'.task = "sleep" /\ maint'.started = maint.started
    BY <1>0, <1>6, ReportSet
  <2>2. maint'.task \in BetweenRuns /\ maint'.task \notin {"recheck", "enqueue"}
    BY <2>1 DEF BetweenRuns
  <2> QED
    BY Zenon, <1>1, <1>2, <2>1, <2>2, SchedulerMoves
<1> QED
  BY <1>3, <1>4, <1>5, <1>6

\* The maintenance as a run asks for the gate.
RunWith(m, t) == [m EXCEPT !.task = "run", !.starved = FALSE, !.restart = t, !.asked = {}]

\* The same, field by field.
LEMMA RunSet ==
  ASSUME NEW m \in MaintType, NEW t \in TelemetryType
  PROVE  /\ RunWith(m, t) \in MaintType /\ RunWith(m, t).task = "run" /\ RunWith(m, t).asked = {}
         /\ RunWith(m, t).started = m.started /\ RunWith(m, t).inProgress = m.inProgress
  BY Zenon DEF MaintType, RunWith

\* A run asks for the gate.
LEMMA EnqueueKeeps ==
  ASSUME GateInv, EnqueueRun
  PROVE  GateInv'
<1>0. /\ QueueExact /\ WalOut /\ LogOrdered /\ StageOrder /\ Counts
      /\ maint \in MaintType /\ "wal" \notin GateCalls
  BY GateFacts
<1>1. /\ UNCHANGED <<gateReaders, ran, wal, pin, stats, reports>> /\ maint.task = "enqueue" /\ Enter("wal")
      /\ maint' = [maint EXCEPT !.task = "run", !.starved = FALSE, !.restart = NoTelemetry, !.asked = {}]
  BY DEF EnqueueRun
<1>2. LogOrdered' /\ Counts'
  BY <1>0, <1>1 DEF LogOrdered, Counts, Streak
<1>3. gatePc["wal"] = "idle" /\ "wal" \in GateJobs /\ maint.started /\ maint.inProgress
  BY <1>0, <1>1 DEF WalOut, GateJobs, BetweenRuns, StageOrder, MaintType
<1>4. QueueExact'
  BY <1>0, <1>1, <1>3, QueueEntered
<1>5. \A i \in GateCalls : gatePc'[i] = gatePc[i]
  BY <1>0, <1>1 DEF Enter, QueueExact, GateJobs
<1>6. maint' \in MaintType /\ maint'.task = "run" /\ maint'.asked = {} /\ maint'.started /\ maint'.inProgress
  <2>1. NoTelemetry \in TelemetryType
    BY DEF NoTelemetry, TelemetryType
  <2>2. maint' = RunWith(maint, NoTelemetry)
    BY <1>1 DEF RunWith
  <2> QED
    BY <1>0, <1>3, <2>1, <2>2, RunSet
<1>7. StageOrder' /\ TruncateAfterCleanRestart' /\ WalOut'
  BY <1>6 DEF StageOrder, TruncateAfterCleanRestart, WalOut, BetweenRuns
<1> QED
  BY <1>1, <1>2, <1>4, <1>5, <1>7, MaintenanceMoves

\* The stages of a run, one record update each.
PassiveWith(m, b, t) == [m EXCEPT !.starved = b, !.asked = {"PASSIVE"}, !.task = t]

\* After the RESTART stage.
RestartWith(m, b, t) ==
  [m EXCEPT !.restart = t, !.starved = b, !.asked = @ \cup {"RESTART"}, !.task = "truncate"]

\* After the TRUNCATE stage.
TruncateWith(m, b) == [m EXCEPT !.starved = b, !.task = "report", !.asked = @ \cup {"TRUNCATE"}]

\* The PASSIVE stage, field by field.
LEMMA PassiveSet ==
  ASSUME NEW m \in MaintType, NEW b \in BOOLEAN, NEW t \in {"restart", "report"}
  PROVE  /\ PassiveWith(m, b, t) \in MaintType /\ PassiveWith(m, b, t).asked = {"PASSIVE"}
         /\ PassiveWith(m, b, t).task = t /\ PassiveWith(m, b, t).started = m.started
         /\ PassiveWith(m, b, t).inProgress = m.inProgress
  BY Zenon DEF MaintType, PassiveWith

\* The RESTART stage, field by field.
LEMMA RestartSet ==
  ASSUME NEW m \in MaintType, NEW b \in BOOLEAN, NEW t \in TelemetryType
  PROVE  /\ RestartWith(m, b, t) \in MaintType /\ RestartWith(m, b, t).asked = m.asked \cup {"RESTART"}
         /\ RestartWith(m, b, t).task = "truncate" /\ RestartWith(m, b, t).started = m.started
         /\ RestartWith(m, b, t).inProgress = m.inProgress
  BY Zenon DEF MaintType, RestartWith

\* The TRUNCATE stage, field by field.
LEMMA TruncateSet ==
  ASSUME NEW m \in MaintType, NEW b \in BOOLEAN
  PROVE  /\ TruncateWith(m, b) \in MaintType /\ TruncateWith(m, b).asked = m.asked \cup {"TRUNCATE"}
         /\ TruncateWith(m, b).task = "report" /\ TruncateWith(m, b).started = m.started
         /\ TruncateWith(m, b).restart = m.restart /\ TruncateWith(m, b).inProgress = m.inProgress
  BY Zenon DEF MaintType, TruncateWith

\* The PASSIVE stage.
LEMMA PassiveKeeps ==
  ASSUME GateInv, Passive
  PROVE  GateInv'
<1> DEFINE t == Telemetry("PASSIVE")  next == IF t.payload >= RestartAt THEN "restart" ELSE "report"
<1>0. LogOrdered /\ StageOrder /\ maint \in MaintType /\ Checkpointed \in Nat /\ Checkpointed <= wal.log
      /\ t \in TelemetryType
  BY GateFacts, CheckpointedFacts
<1>1. /\ UNCHANGED <<gatePc, gateQueue, gateReaders, ran, pin, stats, reports>>
      /\ maint.task = "run" /\ wal' = [wal EXCEPT !.done = Checkpointed]
      /\ maint' = PassiveWith(maint, Starved(t), next)
  BY DEF Passive, PassiveWith
<1>2. Starved(t) \in BOOLEAN /\ next \in {"restart", "report"}
  BY DEF Starved
<1> HIDE DEF t, next
<1>3. maint' \in MaintType /\ maint'.asked = {"PASSIVE"} /\ maint'.task = next /\ maint'.started = maint.started
      /\ maint'.inProgress = maint.inProgress
  BY <1>0, <1>1, <1>2, PassiveSet
<1>4. StageOrder' /\ TruncateAfterCleanRestart'
  BY <1>0, <1>1, <1>2, <1>3 DEF StageOrder, TruncateAfterCleanRestart
<1>5. LogOrdered'
  BY <1>0, <1>1 DEF LogOrdered, WalType
<1> QED
  BY <1>1, <1>2, <1>3, <1>4, <1>5, TaskMoves DEF BetweenRuns

\* The RESTART stage.
LEMMA RestartKeeps ==
  ASSUME GateInv, RestartLog
  PROVE  GateInv'
<1> DEFINE t == Telemetry("RESTART")  b == maint.starved \/ Starved(t)
<1>0. LogOrdered /\ StageOrder /\ maint \in MaintType /\ Checkpointed \in Nat /\ Checkpointed <= wal.log
      /\ t \in TelemetryType /\ MaxFrames \in Nat
  BY GateFacts, CheckpointedFacts
<1>1. /\ UNCHANGED <<gatePc, gateQueue, gateReaders, ran, pin, stats, reports>>
      /\ maint.task = "restart"
      /\ wal' \in {[wal EXCEPT !.done = Checkpointed], [wal EXCEPT !.log = 0, !.done = 0]}
      /\ maint' = RestartWith(maint, b, t)
  BY DEF RestartLog, RestartWith
<1>2. b \in BOOLEAN
  BY <1>0 DEF Starved, MaintType
<1> HIDE DEF t, b
<1>3. maint' \in MaintType /\ maint'.asked = maint.asked \cup {"RESTART"} /\ maint'.task = "truncate"
      /\ maint'.started = maint.started /\ maint'.inProgress = maint.inProgress
  BY <1>0, <1>1, <1>2, RestartSet
<1>4. StageOrder' /\ TruncateAfterCleanRestart'
  BY <1>0, <1>1, <1>3 DEF StageOrder, TruncateAfterCleanRestart
<1>5. LogOrdered'
  <2>1. CASE wal' = [wal EXCEPT !.done = Checkpointed]
    BY <1>0, <1>1, <2>1 DEF LogOrdered, WalType
  <2>2. CASE wal' = [wal EXCEPT !.log = 0, !.done = 0]
    <3>1. wal \in [log : 0 .. MaxFrames, done : Nat, file : Nat] /\ 0 \in 0 .. MaxFrames
      BY <1>0 DEF LogOrdered, WalType
    <3>2. wal'.log = 0 /\ wal'.done = 0 /\ wal'.file = wal.file /\ wal.file >= 0
      BY <2>2, <3>1
    <3>3. wal' \in WalType
      BY Zenon, <2>2, <3>1 DEF WalType
    <3> QED
      BY <1>0, <1>1, <3>2, <3>3 DEF LogOrdered
  <2> QED
    BY <1>1, <2>1, <2>2
<1> QED
  BY <1>1, <1>3, <1>4, <1>5, TaskMoves DEF BetweenRuns

\* The TRUNCATE stage.
LEMMA TruncateKeeps ==
  ASSUME GateInv, TruncateLog
  PROVE  GateInv'
<1>0. LogOrdered /\ StageOrder /\ TruncateAfterCleanRestart /\ maint \in MaintType /\ MaxFrames \in Nat
  BY GateFacts
<1>1. /\ UNCHANGED <<gatePc, gateQueue, gateReaders, ran, pin, stats, reports>>
      /\ maint.task = "truncate" /\ "RESTART" \in maint.asked
  BY <1>0 DEF TruncateLog, StageOrder
<1>2. CASE maint' = [maint EXCEPT !.task = "report"] /\ UNCHANGED wal
  <2>1. /\ maint' \in MaintType /\ maint'.asked = maint.asked /\ maint'.restart = maint.restart
        /\ maint'.task = "report" /\ maint'.started = maint.started
        /\ maint'.inProgress = maint.inProgress
    <3>1. maint' = TaskWith(maint, "report")
      BY <1>2 DEF TaskWith
    <3> QED
      BY <1>0, <3>1, TaskSet
  <2>2. StageOrder' /\ TruncateAfterCleanRestart'
    BY <1>0, <1>1, <2>1 DEF StageOrder, TruncateAfterCleanRestart
  <2>3. LogOrdered'
    BY <1>0, <1>1, <1>2 DEF LogOrdered
  <2> QED
    BY <1>1, <2>1, <2>2, <2>3, TaskMoves DEF BetweenRuns
<1>3. CASE /\ MayTruncate(maint.restart)
           /\ maint' = [maint EXCEPT !.starved = @ \/ Starved(Telemetry("TRUNCATE")), !.task = "report",
                                     !.asked = @ \cup {"TRUNCATE"}]
           /\ wal' \in {wal, [log |-> 0, done |-> 0, file |-> 0]}
  <2> DEFINE b == maint.starved \/ Starved(Telemetry("TRUNCATE"))
  <2>1. b \in BOOLEAN /\ maint' = TruncateWith(maint, b)
    BY <1>3 DEF TruncateWith
  <2> HIDE DEF b
  <2>2. /\ maint' \in MaintType /\ maint'.asked = maint.asked \cup {"TRUNCATE"}
        /\ maint'.task = "report" /\ maint'.started = maint.started /\ maint'.restart = maint.restart
        /\ maint'.inProgress = maint.inProgress
    BY <1>0, <2>1, TruncateSet
  <2>3. StageOrder' /\ TruncateAfterCleanRestart'
    BY <1>0, <1>1, <1>3, <2>2 DEF StageOrder, TruncateAfterCleanRestart, MayTruncate
  <2>4. LogOrdered'
    BY <1>0, <1>1, <1>3 DEF LogOrdered, WalType
  <2> QED
    BY <1>1, <2>2, <2>3, <2>4, TaskMoves DEF BetweenRuns
<1> QED
  BY <1>2, <1>3 DEF TruncateLog

\* The report of a run.
LEMMA ReportKeeps ==
  ASSUME GateInv, ReportRun
  PROVE  GateInv'
<1>0. /\ QueueExact /\ LogOrdered /\ StageOrder /\ Counts /\ TruncateAfterCleanRestart
      /\ maint \in MaintType /\ "wal" \notin GateCalls /\ "wal" \in GateJobs
  BY GateFacts DEF GateJobs
<1>1. /\ UNCHANGED <<gateQueue, gateReaders, ran, wal, pin>>
      /\ gatePc["wal"] # "waiting" /\ gatePc' = [gatePc EXCEPT !["wal"] = "idle"]
      /\ maint' = ReportWith(maint)
      /\ maint.task # "none" /\ stats' = Counted(reports'[Len(reports')])
  BY DEF ReportRun, ReportWith
<1>2. PICK r \in ReportKind : reports' = Append(reports, r)
  BY DEF ReportRun, ReportKind
<1>3. Counts'
  BY <1>0, <1>1, <1>2, ReportCounted
<1>4. QueueExact' /\ "idle" \in GatePcs
  BY Zenon, <1>0, <1>1, QueueKept DEF GatePcs
<1>5. /\ maint' \in MaintType /\ maint'.asked = maint.asked /\ maint'.task = "sleep"
      /\ maint'.started = maint.started /\ maint'.restart = maint.restart
  BY <1>0, <1>1, ReportSet
<1>6. StageOrder' /\ TruncateAfterCleanRestart'
  BY <1>0, <1>1, <1>5 DEF StageOrder, TruncateAfterCleanRestart
<1>7. gatePc'["wal"] = "idle" /\ \A i \in GateCalls : gatePc'[i] = gatePc[i]
  BY <1>0, <1>1 DEF QueueExact, GateJobs
<1>8. LogOrdered' /\ WalOut'
  BY <1>0, <1>1, <1>7 DEF LogOrdered, WalOut
<1> QED
  BY <1>1, <1>3, <1>4, <1>6, <1>7, <1>8, MaintenanceMoves

\* The first state satisfies the invariant.
LEMMA GateStarts ==
  ASSUME GateInit
  PROVE  GateInv
<1>1. QueueExact /\ WalOut /\ NotRan
  BY DEF GateInit, QueueExact, WalOut, NotRan, GatePcs, GateJobs
<1>2. LogOrdered
  BY GateAssumption DEF GateInit, LogOrdered, WalType
<1>3. StageOrder /\ TruncateAfterCleanRestart
  BY DEF GateInit, StageOrder, MaintType, NoTelemetry, TelemetryType, TruncateAfterCleanRestart
<1>4. Counts
  <2>1. Streak(<<>>) = {}
    BY DEF Streak
  <2>2. Cardinality(Streak(<<>>)) = 0
    BY <2>1, FS_EmptySet
  <2>3. stats \in StatsType /\ stats.starvation = 0 /\ reports = <<>>
    BY DEF GateInit, StatsType
  <2> QED
    BY <2>2, <2>3 DEF Counts
<1>5. ReadersExact /\ gateReaders \subseteq GateReads /\ ran \subseteq GateCalls
  BY GateAssumption DEF GateInit, ReadersExact, GateJobs
<1> QED
  BY <1>1, <1>2, <1>3, <1>4, <1>5 DEF GateInv

\* Every step keeps the invariant.
LEMMA GateKept ==
  ASSUME GateInv, [GateNext]_gateVars
  PROVE  GateInv'
<1>1. CASE UNCHANGED gateVars
  BY <1>1 DEF gateVars, GateInv, QueueExact, WalOut, NotRan, LogOrdered, StageOrder, Counts, Streak,
              ReadersExact, TruncateAfterCleanRestart
<1>2. CASE GateNext
  <2>1. ASSUME NEW j \in GateCalls, GateCall(j) \/ AdmissionTimeout(j) \/ Abandon(j) \/ GateFinish(j)
        PROVE  GateInv'
    BY <2>1, GateCallKeeps, TimeoutKeeps, AbandonKeeps, FinishKeeps DEF GateJobs
  <2>2. AdmissionTimeout("wal") => GateInv'
    BY TimeoutKeeps DEF GateJobs
  <2> QED
    BY <1>2, <2>1, <2>2, AdmitKeeps, ReaderKeeps, RuntimeKeeps, SchedulerKeeps, EnqueueKeeps, PassiveKeeps,
       RestartKeeps, TruncateKeeps, ReportKeeps DEF GateNext
<1> QED
  BY <1>1, <1>2

\* For any set of calls and any length of the log: the permit has one holder, a call
\* that was refused before admission or dropped from the queue never runs, a reader is
\* counted as long as it reads, TRUNCATE is only asked for after a RESTART that found
\* the log free, and the starvation counter is the streak it claims to be.
THEOREM GateIsSafe == GateSpec => []GateSafe
<1>1. GateInv => GateSafe
  <2> SUFFICES ASSUME GateInv PROVE GateSafe
    OBVIOUS
  <2>1. GateTypeOK /\ RefusedNeverRuns
    BY GateFacts DEF GateTypeOK, RefusedNeverRuns, LogOrdered, NotRan, GatePcs
  <2>2. StarvationIsStreak
    BY GateFacts DEF Counts, Streak, StarvationIsStreak
  <2> QED
    BY <2>1, <2>2, GateFacts DEF GateSafe
<1> QED
  BY <1>1, GateStarts, GateKept, PTL DEF GateSpec

\* Told to stop, and on no way to the gate.
Stopped == maint.shutdown /\ maint.task \in BetweenRuns \ {"enqueue"}

\* A scheduler that is stopped stays so: a run claimed late is given up at the last check.
LEMMA StoppedStays ==
  ASSUME GateInv, Stopped, [GateNext]_gateVars
  PROVE  Stopped'
<1>0. maint \in MaintType /\ maint.shutdown /\ maint.task \in BetweenRuns /\ maint.task # "enqueue"
  BY GateFacts DEF Stopped
<1>1. CASE UNCHANGED maint
  BY <1>1 DEF Stopped
<1>2. CASE LoopHead \/ EntryCheck \/ Sleep
  <2>1. PICK t \in {"loop", "exited", "sleep"} : maint' = [maint EXCEPT !.task = t]
    BY <1>0, <1>2 DEF LoopHead, EntryCheck, Sleep, Task
  <2>2. maint'.shutdown /\ maint'.task = t
    BY <1>0, <2>1 DEF MaintType
  <2> QED
    BY <2>2 DEF Stopped, BetweenRuns
<1>3. CASE ClaimRun
  <2>1. maint'.shutdown /\ maint'.task \in {"sleep", "recheck"}
    BY Zenon, <1>0, <1>3 DEF ClaimRun, MaintType
  <2> QED
    BY <2>1 DEF Stopped, BetweenRuns
<1>4. CASE Recheck
  <2>1. maint'.shutdown /\ maint'.task = "sleep"
    BY Zenon, <1>0, <1>4 DEF Recheck, MaintType
  <2> QED
    BY <2>1 DEF Stopped, BetweenRuns
<1>5. ~(StartMaintenance \/ ShutdownMaintenance \/ EnqueueRun \/ Passive \/ RestartLog \/ TruncateLog \/ ReportRun)
  BY <1>0 DEF StartMaintenance, ShutdownMaintenance, EnqueueRun, Passive, RestartLog, TruncateLog,
              ReportRun, BetweenRuns
<1> QED
  BY Zenon, <1>1, <1>2, <1>3, <1>4, <1>5
     DEF GateNext, gateVars, Admit, AdmissionTimeout, PinReader, UnpinReader, GateCall, Abandon, GateFinish

\* Once the maintenance was told to stop and is seen not running, it never asks for the
\* gate again, whichever of its three looks at the shutdown had already passed.
THEOREM ShutdownHolds == GateSpec => NoRunOnceQuiet
<1>1. ASSUME GateInv, maint.shutdown, ~maint.inProgress PROVE Stopped
  BY <1>1, GateFacts DEF StageOrder, Stopped, BetweenRuns, MaintType
<1>2. ASSUME GateInv, Stopped PROVE gatePc["wal"] = "idle"
  BY <1>2, GateFacts DEF Stopped, WalOut
<1> QED
  BY <1>1, <1>2, GateStarts, GateKept, StoppedStays, PTL DEF GateSpec, NoRunOnceQuiet
-----------------------------------------------------------------------------
(* StreamStart                                                             *)

\* Where the row of a call is open.
OpenAt == {"credential", "send", "bridge", "retire", "recover"}

\* What holds at each point of a call: before begin_turn there is no row, from
\* there to the settling the row is running, and until the caller is answered
\* the call has not been handed to the bridge or to the recovery task.
CallConsistent(c) ==
  /\ turnPc[c] \in {"idle", "insert", "clock", "leaked", "begin"} => row[c] = NoRow
  /\ turnPc[c] \in OpenAt <=> row[c].status = "running"
  /\ row[c].status = "running" => row[c].durable = 0
  /\ turnPc[c] \in {"idle", "insert", "clock", "begin", "credential", "send", "retire"} =>
       response[c] = "pending"
  /\ turnPc[c] = "leaked" => response[c] = "rejected"
  /\ c \in registry.requests => turnPc[c] \notin {"idle", "insert", "done"}

\* The inductive invariant.
StartInv ==
  /\ StartTypeOK /\ ReservationExact
  /\ \A c \in Calls : CallConsistent(c)
-----------------------------------------------------------------------------
\* remove_if_same gives back exactly one stream's bytes, if the call has a slot.
LEMMA RemoveExact ==
  ASSUME StartInv, NEW c \in Calls
  PROVE  LET reg == RemoveIfSame(registry, c) IN
           /\ reg \in [requests : SUBSET Calls, reserved : Nat]
           /\ reg.requests = registry.requests \ {c}
           /\ reg.reserved = StreamBytes * Cardinality(reg.requests)
           /\ Cardinality(reg.requests) <= MaxActive
<1> DEFINE reg == RemoveIfSame(registry, c)
           n == Cardinality(registry.requests)
<1>1. /\ registry \in [requests : SUBSET Calls, reserved : Nat]
      /\ registry.reserved = StreamBytes * n /\ n <= MaxActive
  BY DEF StartInv, StartTypeOK, ReservationExact
<1>2. IsFiniteSet(registry.requests) /\ n \in Nat
  BY <1>1, StartAssumption, FS_Subset, FS_CardinalityType
<1>3. CASE c \in registry.requests
  <2>1. Cardinality(registry.requests \ {c}) = n - 1
    BY Zenon, <1>2, <1>3, FS_RemoveElement
  <2>2. n - 1 \in Nat
    <3>1. IsFiniteSet(registry.requests \ {c})
      BY <1>2, FS_RemoveElement
    <3> QED
      BY <3>1, <2>1, FS_CardinalityType
  <2>3. StreamBytes * n - StreamBytes = StreamBytes * (n - 1) /\ StreamBytes * (n - 1) \in Nat
    BY <1>2, <2>2, StartAssumption
  <2>4. reg = [requests |-> registry.requests \ {c}, reserved |-> registry.reserved - StreamBytes]
    BY <1>3 DEF RemoveIfSame
  <2> QED
    BY <1>1, <1>2, <2>1, <2>2, <2>3, <2>4, StartAssumption
<1>4. CASE c \notin registry.requests
  BY <1>1, <1>4 DEF RemoveIfSame
<1> QED
  BY <1>3, <1>4

\* The invariant holds before the first call.
LEMMA StartInitInv == StartInit => StartInv
<1> SUFFICES ASSUME StartInit PROVE StartInv
  OBVIOUS
<1>1. Cardinality({}) = 0
  BY FS_EmptySet
<1>2. StartTypeOK
  BY StartAssumption DEF StartInit, StartTypeOK, NoRow
<1>3. ReservationExact
  BY <1>1, StartAssumption DEF StartInit, ReservationExact
<1>4. \A c \in Calls : CallConsistent(c)
  BY DEF StartInit, CallConsistent, NoRow, OpenAt
<1> QED
  BY <1>2, <1>3, <1>4 DEF StartInv

\* A step of one call that leaves the registry alone keeps the reservation.
LEMMA SameRegistry ==
  ASSUME StartInv, registry' = registry
  PROVE  ReservationExact'
  BY DEF StartInv, ReservationExact

\* Every step of a call, of the window and of the process keeps the invariant.
LEMMA StartStepInv == StartInv /\ [StartNext]_startVars => StartInv'
<1> SUFFICES ASSUME StartInv, [StartNext]_startVars PROVE StartInv'
  OBVIOUS
<1> USE DEF StartInv
<1>1. ASSUME NEW c \in Calls, ReadHistory(c) PROVE StartInv'
  <2>1. StartTypeOK'
    BY <1>1 DEF ReadHistory, Goto, Reject, StartTypeOK
  <2>2. \A d \in Calls : CallConsistent(d)'
    BY <1>1 DEF ReadHistory, Goto, Reject, StartTypeOK, CallConsistent, OpenAt, NoRow
  <2> QED
    BY <1>1, <2>1, <2>2, SameRegistry DEF ReadHistory
<1>2. ASSUME NEW c \in Calls, InsertNew(c) PROVE StartInv'
  <2>1. CASE registry' = registry
    <3>1. StartTypeOK'
      BY Zenon, <1>2, <2>1, StartAssumption DEF InsertNew, Goto, Reject, StartTypeOK
    <3>2. \A d \in Calls : CallConsistent(d)'
      BY <1>2, <2>1 DEF InsertNew, Goto, Reject, StartTypeOK, CallConsistent, OpenAt, NoRow
    <3> QED
      BY <2>1, <3>1, <3>2, SameRegistry
  <2>2. CASE /\ Cardinality(registry.requests) < MaxActive
             /\ registry' = [requests |-> registry.requests \cup {c},
                             reserved |-> registry.reserved + StreamBytes]
             /\ Goto(c, "clock") /\ UNCHANGED response
    <3>1. StartTypeOK'
      BY <1>2, <2>2, StartAssumption DEF InsertNew, Goto, StartTypeOK
    <3>2. c \notin registry.requests
      BY <1>2 DEF InsertNew, CallConsistent
    <3>3. IsFiniteSet(registry.requests) /\ Cardinality(registry.requests) \in Nat
      BY StartAssumption, FS_Subset, FS_CardinalityType DEF StartTypeOK
    <3>4. Cardinality(registry.requests \cup {c}) = Cardinality(registry.requests) + 1
      BY Zenon, <3>2, <3>3, FS_AddElement
    <3>5. ReservationExact'
      BY <2>2, <3>3, <3>4, StartAssumption DEF ReservationExact
    <3>6. \A d \in Calls : CallConsistent(d)'
      BY <1>2, <2>2 DEF InsertNew, Goto, StartTypeOK, CallConsistent, OpenAt, NoRow
    <3> QED
      BY <3>1, <3>5, <3>6
  <2> QED
    BY <1>2, <2>1, <2>2 DEF InsertNew
<1>3. ASSUME NEW c \in Calls, ReadClock(c) PROVE StartInv'
  <2>1. StartTypeOK'
    BY <1>3 DEF ReadClock, StorageFails, Goto, Reject, StartTypeOK
  <2>2. \A d \in Calls : CallConsistent(d)'
    BY <1>3 DEF ReadClock, Goto, Reject, StartTypeOK, CallConsistent, OpenAt, NoRow
  <2> QED
    BY <1>3, <2>1, <2>2, SameRegistry DEF ReadClock
<1>4. ASSUME NEW c \in Calls, BeginTurn(c) PROVE StartInv'
  <2>1. CASE Goto(c, "credential") /\ row' = [row EXCEPT ![c].status = "running"]
             /\ UNCHANGED <<response, registry, budget>>
    <3>1. StartTypeOK'
      BY <1>4, <2>1 DEF BeginTurn, Goto, StartTypeOK
    <3>2. \A d \in Calls : CallConsistent(d)'
      BY <1>4, <2>1 DEF BeginTurn, Goto, StartTypeOK, CallConsistent, OpenAt, NoRow
    <3> QED
      BY <2>1, <3>1, <3>2, SameRegistry
  <2>2. CASE /\ UNCHANGED budget \/ StorageFails
             /\ registry' = RemoveIfSame(registry, c)
             /\ Goto(c, "done") /\ Reject(c) /\ UNCHANGED row
    <3>1. StartTypeOK'
      BY <1>4, <2>2, RemoveExact DEF BeginTurn, StorageFails, Goto, Reject, StartTypeOK
    <3>2. ReservationExact'
      BY <2>2, RemoveExact DEF ReservationExact
    <3>3. \A d \in Calls : CallConsistent(d)'
      BY SMTT(60), <1>4, <2>2, RemoveExact DEF BeginTurn, Goto, Reject, StartTypeOK, CallConsistent, OpenAt, NoRow
    <3> QED
      BY <3>1, <3>2, <3>3
  <2> QED
    BY <1>4, <2>1, <2>2 DEF BeginTurn
<1>5. ASSUME NEW c \in Calls, LoadCredential(c) PROVE StartInv'
  <2>1. StartTypeOK'
    BY <1>5 DEF LoadCredential, Goto, StartTypeOK
  <2>2. \A d \in Calls : CallConsistent(d)'
    BY <1>5 DEF LoadCredential, Goto, StartTypeOK, CallConsistent, OpenAt
  <2> QED
    BY <1>5, <2>1, <2>2, SameRegistry DEF LoadCredential
<1>6. ASSUME NEW c \in Calls, SendStarted(c) PROVE StartInv'
  <2>1. StartTypeOK'
    BY <1>6 DEF SendStarted, Goto, StartTypeOK
  <2>2. \A d \in Calls : CallConsistent(d)'
    BY <1>6 DEF SendStarted, Goto, StartTypeOK, CallConsistent, OpenAt
  <2> QED
    BY <1>6, <2>1, <2>2, SameRegistry DEF SendStarted
<1>7. ASSUME NEW c \in Calls, RecordDelivery(c) PROVE StartInv'
  <2>1. StartTypeOK'
    BY <1>7 DEF RecordDelivery, StartTypeOK
  <2>2. \A d \in Calls : CallConsistent(d)'
    BY <1>7 DEF RecordDelivery, Retiring, StartTypeOK, CallConsistent, OpenAt
  <2> QED
    BY <1>7, <2>1, <2>2, SameRegistry DEF RecordDelivery
<1>8. ASSUME NEW c \in Calls, FailTurn(c) PROVE StartInv'
  <2>1. StartTypeOK'
    BY <1>8, RemoveExact DEF FailTurn, Goto, Reject, StartTypeOK
  <2>2. ReservationExact'
    BY <1>8, RemoveExact DEF FailTurn, ReservationExact
  <2>3. \A d \in Calls : CallConsistent(d)'
    BY SMTT(60), <1>8, RemoveExact
    DEF FailTurn, Retiring, Goto, Reject, StartTypeOK, CallConsistent, OpenAt
  <2> QED
    BY <2>1, <2>2, <2>3
<1>9. ASSUME NEW c \in Calls, AttemptFails(c) PROVE StartInv'
  <2>3. tries' \in [Calls -> 0..(Attempts - 1)]
    <3>1. Attempts \in Nat \ {0} /\ tries[c] \in 0..(Attempts - 1)
      BY StartAssumption DEF StartTypeOK
    <3>2. (IF tries[c] + 1 = Attempts THEN 0 ELSE tries[c] + 1) \in 0..(Attempts - 1)
      BY <3>1
    <3> QED
      BY <1>9, <3>2 DEF AttemptFails, StartTypeOK
  <2>1. StartTypeOK'
    BY <1>9, <2>3 DEF AttemptFails, StorageFails, Goto, Reject, StartTypeOK
  <2>2. \A d \in Calls : CallConsistent(d)'
    BY <1>9 DEF AttemptFails, Retiring, Goto, Reject, StartTypeOK, CallConsistent, OpenAt
  <2> QED
    BY <1>9, <2>1, <2>2, SameRegistry DEF AttemptFails
<1>10. ASSUME NEW c \in Calls, BridgeSettles(c) PROVE StartInv'
  <2>1. StartTypeOK'
    BY SMTT(60), <1>10 DEF BridgeSettles, Goto, StartTypeOK
  <2>2. \A d \in Calls : CallConsistent(d)'
    BY SMTT(60), <1>10 DEF BridgeSettles, Goto, StartTypeOK, CallConsistent, OpenAt
  <2> QED
    BY <1>10, <2>1, <2>2, SameRegistry DEF BridgeSettles
<1>11. ASSUME NEW c \in Calls, RetentionOver(c) PROVE StartInv'
  <2>1. StartTypeOK'
    BY <1>11, RemoveExact DEF RetentionOver, Goto, StartTypeOK
  <2>2. ReservationExact'
    BY <1>11, RemoveExact DEF RetentionOver, ReservationExact
  <2>3. \A d \in Calls : CallConsistent(d)'
    BY SMTT(60), <1>11, RemoveExact DEF RetentionOver, Goto, StartTypeOK, CallConsistent, OpenAt
  <2> QED
    BY <2>1, <2>2, <2>3
<1>12. CASE CancelOwner
  <2>1. StartTypeOK'
    BY <1>12 DEF CancelOwner, StartTypeOK
  <2>2. \A d \in Calls : CallConsistent(d)'
    BY <1>12 DEF CancelOwner, CallConsistent
  <2> QED
    BY <1>12, <2>1, <2>2, SameRegistry DEF CancelOwner
<1>13. CASE Restart
  <2>1. StartTypeOK'
    BY ZenonT(60), <1>13 DEF Restart, StartTypeOK
  <2>2. ReservationExact'
    BY <1>13, FS_EmptySet, StartAssumption DEF Restart, ReservationExact
  <2>3. \A d \in Calls : CallConsistent(d)'
    BY <1>13 DEF Restart, StartTypeOK, CallConsistent, OpenAt, NoRow
  <2> QED
    BY <2>1, <2>2, <2>3
<1>14. CASE UNCHANGED startVars
  BY <1>14 DEF startVars, StartTypeOK, ReservationExact, CallConsistent
<1> QED
  BY <1>1, <1>2, <1>3, <1>4, <1>5, <1>6, <1>7, <1>8, <1>9, <1>10, <1>11, <1>12, <1>13, <1>14
  DEF StartNext

\* The inductive invariant holds throughout.
LEMMA StartInvariant == StartSpec => []StartInv
  BY StartInitInv, StartStepInv, PTL DEF StartSpec

\* However calls, windows, storage errors and restarts interleave, the byte
\* reservation is exact and bounded, a slot belongs to somebody who gives it
\* back or to a call rejected for its clock that opened no turn (the one path that
\* keeps it), and a running row to somebody who closes it (start_provider_stream,
\* retire_rejected_start and the ProviderStreamRegistry).
THEOREM StartAccountsForSlots == StartSpec => []SlotsAccounted
<1>1. StartInv => SlotsAccounted
  BY DEF StartInv, SlotsAccounted, CallConsistent, OnlyClockErrorLeaks, SlotOwned, RunningRowOwned, Running, OpenAt,
         StartTypeOK
<1> QED
  BY <1>1, StartInvariant, PTL
-----------------------------------------------------------------------------
(* The refinement of TurnContract.                                         *)

\* The turn the contract speaks of, as a function.
TurnsNow == [c \in Calls |-> TurnOf(c)]

\* A step that leaves the rows and the answers alone is no step of the contract.
LEMMA SameTurns ==
  ASSUME row' = row PROVE TurnsNow' = TurnsNow
  BY DEF TurnsNow, TurnOf

\* The first state of the start path is the first state of the contract.
LEMMA ContractStarts == StartInit => TurnPromise!ContractInit
  BY DEF StartInit, TurnPromise!ContractInit, TurnOf, NoRow

\* Every step of the start path is a step of the contract, or changes nothing the
\* contract speaks of.
LEMMA ContractStep ==
  ASSUME StartInv, [StartNext]_startVars
  PROVE  [TurnPromise!ContractNext]_<<TurnsNow, response>>
<1> USE DEF StartInv
<1>1. ASSUME NEW c \in Calls, ReadHistory(c) PROVE [TurnPromise!ContractNext]_<<TurnsNow, response>>
  <2>1. TurnsNow' = TurnsNow
    BY <1>1, SameTurns DEF ReadHistory
  <2>2. response' = response \/ TurnPromise!RejectCall(c)
    BY <1>1, <2>1 DEF ReadHistory, Reject, CallConsistent, StartTypeOK, TurnPromise!RejectCall, TurnsNow
  <2> QED
    BY <2>1, <2>2 DEF TurnPromise!ContractNext
<1>2. ASSUME NEW c \in Calls, InsertNew(c) PROVE [TurnPromise!ContractNext]_<<TurnsNow, response>>
  <2>1. TurnsNow' = TurnsNow
    BY <1>2, SameTurns DEF InsertNew
  <2>2. response' = response \/ TurnPromise!RejectCall(c)
    BY <1>2, <2>1 DEF InsertNew, Reject, CallConsistent, StartTypeOK, TurnPromise!RejectCall, TurnsNow
  <2> QED
    BY <2>1, <2>2 DEF TurnPromise!ContractNext
<1>3. ASSUME NEW c \in Calls, ReadClock(c) PROVE [TurnPromise!ContractNext]_<<TurnsNow, response>>
  <2>1. TurnsNow' = TurnsNow
    BY <1>3, SameTurns DEF ReadClock
  <2>2. response' = response \/ TurnPromise!RejectCall(c)
    BY <1>3, <2>1 DEF ReadClock, Reject, CallConsistent, StartTypeOK, TurnPromise!RejectCall, TurnsNow
  <2> QED
    BY <2>1, <2>2 DEF TurnPromise!ContractNext
<1>4. ASSUME NEW c \in Calls, BeginTurn(c) PROVE [TurnPromise!ContractNext]_<<TurnsNow, response>>
  <2>1. CASE row' = row
    <3>1. TurnsNow' = TurnsNow
      BY <2>1, SameTurns
    <3>2. response' = response \/ TurnPromise!RejectCall(c)
      BY <1>4, <3>1 DEF BeginTurn, Reject, CallConsistent, StartTypeOK, TurnPromise!RejectCall, TurnsNow
    <3> QED
      BY <3>1, <3>2 DEF TurnPromise!ContractNext
  <2>2. CASE /\ Running = {} /\ row' = [row EXCEPT ![c].status = "running"] /\ response' = response
    <3>1. TurnsNow' = [TurnsNow EXCEPT ![c] = "open"]
      BY Zenon, <2>2 DEF StartTypeOK, TurnsNow, TurnOf
    <3>2. \A d \in Calls : TurnsNow[d] # "open"
      BY <2>2 DEF Running, TurnsNow, TurnOf
    <3>3. TurnsNow[c] = "none" /\ response[c] = "pending"
      BY <1>4 DEF BeginTurn, CallConsistent, NoRow, TurnsNow, TurnOf
    <3>4. TurnPromise!OpenTurn(c)
      BY <2>2, <3>1, <3>2, <3>3 DEF TurnPromise!OpenTurn, TurnsNow
    <3> QED
      BY <3>4 DEF TurnPromise!ContractNext
  <2> QED
    BY <1>4, <2>1, <2>2 DEF BeginTurn
<1>5. ASSUME NEW c \in Calls, LoadCredential(c) PROVE [TurnPromise!ContractNext]_<<TurnsNow, response>>
  BY <1>5, SameTurns DEF LoadCredential
<1>6. ASSUME NEW c \in Calls, SendStarted(c) PROVE [TurnPromise!ContractNext]_<<TurnsNow, response>>
  <2>1. TurnsNow' = TurnsNow
    BY <1>6, SameTurns DEF SendStarted
  <2>2. TurnsNow[c] = "open" /\ response[c] = "pending"
    BY <1>6 DEF SendStarted, CallConsistent, OpenAt, TurnsNow, TurnOf
  <2>3. response' = response \/ TurnPromise!AcceptCall(c)
    BY <1>6, <2>1, <2>2 DEF SendStarted, TurnPromise!AcceptCall, TurnsNow
  <2> QED
    BY <2>1, <2>3 DEF TurnPromise!ContractNext
<1>7. ASSUME NEW c \in Calls, RecordDelivery(c) PROVE [TurnPromise!ContractNext]_<<TurnsNow, response>>
  <2>1. TurnsNow' = TurnsNow
    BY <1>7 DEF RecordDelivery, TurnsNow, TurnOf, StartTypeOK
  <2> QED
    BY <1>7, <2>1 DEF RecordDelivery
<1>8. ASSUME NEW c \in Calls, FailTurn(c) PROVE [TurnPromise!ContractNext]_<<TurnsNow, response>>
  <2>1. TurnsNow[c] = "open" /\ TurnsNow' = [TurnsNow EXCEPT ![c] = "closed"]
    BY <1>8 DEF FailTurn, TurnsNow, TurnOf, StartTypeOK
  <2>2. \/ response' = response
        \/ response[c] = "pending" /\ response' = [response EXCEPT ![c] = "rejected"]
    BY <1>8 DEF FailTurn, Reject, CallConsistent
  <2>3. TurnPromise!CloseTurn(c)
    BY <2>1, <2>2 DEF TurnPromise!CloseTurn, TurnsNow
  <2> QED
    BY <2>3 DEF TurnPromise!ContractNext
<1>9. ASSUME NEW c \in Calls, AttemptFails(c) PROVE [TurnPromise!ContractNext]_<<TurnsNow, response>>
  <2>1. TurnsNow' = TurnsNow
    BY <1>9, SameTurns DEF AttemptFails
  <2>2. response' = response \/ TurnPromise!RejectCall(c)
    BY <1>9, <2>1 DEF AttemptFails, Reject, CallConsistent, StartTypeOK, TurnPromise!RejectCall, TurnsNow, Retiring
  <2> QED
    BY <2>1, <2>2 DEF TurnPromise!ContractNext
<1>10. ASSUME NEW c \in Calls, BridgeSettles(c) PROVE [TurnPromise!ContractNext]_<<TurnsNow, response>>
  <2>3. PICK outcome \in {"complete", "failed", "cancelled"} :
          row' = [row EXCEPT ![c] = [status |-> outcome, delivered |-> 1, durable |-> 1]]
    BY Zenon, <1>10 DEF BridgeSettles
  <2>4. row[c].status = "running"
    BY <1>10 DEF BridgeSettles, CallConsistent, OpenAt
  <2>1. TurnsNow[c] = "open" /\ TurnsNow' = [TurnsNow EXCEPT ![c] = "closed"]
    BY ZenonT(60), <2>3, <2>4 DEF TurnsNow, TurnOf, StartTypeOK
  <2>2. TurnPromise!CloseTurn(c)
    BY <1>10, <2>1 DEF BridgeSettles, TurnPromise!CloseTurn, TurnsNow
  <2> QED
    BY <2>2 DEF TurnPromise!ContractNext
<1>11. ASSUME NEW c \in Calls, RetentionOver(c) PROVE [TurnPromise!ContractNext]_<<TurnsNow, response>>
  BY <1>11, SameTurns DEF RetentionOver
<1>12. CASE CancelOwner
  BY <1>12, SameTurns DEF CancelOwner
<1>13. CASE Restart
  <2> DEFINE ts == {c \in Calls : response[c] = "pending" /\ turnPc[c] # "idle"}
  <2>1. TurnsNow' = [c \in Calls |-> IF TurnsNow[c] = "open" THEN "closed" ELSE TurnsNow[c]]
    BY <1>13 DEF Restart, TurnsNow, TurnOf, StartTypeOK
  <2>2. /\ ts \in SUBSET {c \in Calls : response[c] = "pending"}
        /\ response' = [c \in Calls |-> IF c \in ts THEN "lost" ELSE response[c]]
    BY <1>13 DEF Restart
  <2>3. TurnPromise!Restarted
    BY Zenon, <2>1, <2>2 DEF TurnPromise!Restarted, TurnsNow
  <2> QED
    BY <2>3 DEF TurnPromise!ContractNext
<1>14. CASE UNCHANGED startVars
  BY <1>14, SameTurns DEF startVars
<1> QED
  BY <1>1, <1>2, <1>3, <1>4, <1>5, <1>6, <1>7, <1>8, <1>9, <1>10, <1>11, <1>12, <1>13, <1>14
  DEF StartNext

\* Starting a stream implements the contract of a turn: one turn is open at a
\* time, a closed turn stays closed, a call is answered at most once and only an
\* opened turn is accepted, whatever fails between the two.
THEOREM StartKeepsContract == StartSpec => KeepsContract
<1>1. StartInv /\ [StartNext]_startVars => [TurnPromise!ContractNext]_<<TurnsNow, response>>
  BY ContractStep
<1> QED
  BY <1>1, ContractStarts, StartInvariant, PTL
  DEF StartSpec, KeepsContract, TurnPromise!Contract, TurnsNow
=============================================================================
