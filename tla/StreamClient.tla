---------------------------- MODULE StreamClient ----------------------------
(***************************************************************************)
(* startFirstChatStream of the WebView                                     *)
(* (apps/desktop-mobile/src/lib/providers/stream.ts) against a native side *)
(* reduced to what StreamBridge shows of it.                               *)
(*                                                                         *)
(* Events arrive over a channel that may lose one.  Every event and every  *)
(* recovery poll is a task on one promise chain; a task waits for its      *)
(* snapshot and its acknowledgement, so native steps come in between.      *)
(* What the native side sends parses, and its limit on the visible text is *)
(* the client's own, 1 MiB, so it ends the stream before the client would. *)
(***************************************************************************)
EXTENDS Integers, Sequences

CONSTANTS
  Deltas,       \* text deltas the provider has
  Window,       \* MAX_IN_FLIGHT of the native side
  MaxBuffered,  \* MAX_BUFFERED_EVENTS
  MaxLost       \* events the channel loses, or commands that fail

VARIABLES
  nat,    \* the native stream
  wire,   \* sequence numbers on the channel
  sc,     \* the client's variables
  tasks,  \* the promise chain behind the task at work
  task,   \* the task at work
  shown   \* what onDelta got

clientVars == <<nat, wire, sc, tasks, task, shown>>

Poll == -1
NoTask == [seq |-> -2, stage |-> "none", terminal |-> "none", last |-> 0, acked |-> -1,
           cancel |-> FALSE]

ClientInit ==
  /\ nat = [start |-> "called", last |-> -1, acked |-> -1, terminal |-> "none",
            cancel |-> FALSE, asked |-> FALSE, lost |-> 0]
  /\ wire = <<>> /\ tasks = <<>> /\ task = NoTask /\ shown = <<>>
  /\ sc = [auth |-> FALSE, ready |-> FALSE, expected |-> 0, buffered |-> 0, settled |-> "no",
           timer |-> "off", unseen |-> 0, cancel |-> "none", aborted |-> FALSE, told |-> 0,
           rushed |-> FALSE, refused |-> FALSE]
-----------------------------------------------------------------------------
(* The native side, as StreamBridge has it.                                *)

NatStart ==
  /\ nat.start = "called" /\ UNCHANGED <<sc, tasks, task, shown>>
  /\ \/ nat' = [nat EXCEPT !.start = "accepted", !.last = 0] /\ wire' = <<0>>
     \/ nat' = [nat EXCEPT !.start = "rejected"] /\ UNCHANGED wire

\* A delta waits for room in the window; a terminal event does not.
NatSend ==
  /\ nat.last \in 0 .. Deltas - 1 /\ nat.terminal = "none" /\ ~nat.cancel
  /\ nat.last - nat.acked < Window
  /\ nat' = [nat EXCEPT !.last = @ + 1] /\ wire' = Append(wire, nat.last + 1)
  /\ UNCHANGED <<sc, tasks, task, shown>>

NatTerminal(kind) ==
  /\ nat.last >= 0 /\ nat.terminal = "none"
  /\ kind = "cancelled" => nat.cancel
  /\ kind = "completed" => ~nat.cancel /\ nat.last = Deltas
  /\ nat' = [nat EXCEPT !.last = @ + 1, !.terminal = kind]
  /\ wire' = Append(wire, nat.last + 1)
  /\ UNCHANGED <<sc, tasks, task, shown>>

\* cancel_provider_stream has no effect once there is a terminal receipt.
NatCancel ==
  /\ nat.asked /\ nat' = [nat EXCEPT !.asked = FALSE, !.cancel = @ \/ nat.terminal = "none"]
  /\ sc' = IF sc.cancel # "sent" THEN sc
           ELSE [sc EXCEPT !.cancel = IF nat.terminal = "none" THEN "accepted" ELSE "late"]
  /\ UNCHANGED <<wire, tasks, task, shown>>

NatCancelFails ==
  /\ nat.asked /\ sc.cancel = "sent" /\ nat.lost < MaxLost
  /\ nat' = [nat EXCEPT !.asked = FALSE, !.lost = @ + 1]
  /\ sc' = [sc EXCEPT !.cancel = "refused"] /\ UNCHANGED <<wire, tasks, task, shown>>

Lose ==
  /\ wire # <<>> /\ nat.lost < MaxLost
  /\ nat' = [nat EXCEPT !.lost = @ + 1] /\ wire' = Tail(wire)
  /\ UNCHANGED <<sc, tasks, task, shown>>
-----------------------------------------------------------------------------
(* The client.                                                             *)

Settled == sc.settled # "no"

\* armRecoveryPoll
Armed(s, delay) == IF s.settled = "no" /\ s.auth THEN [s EXCEPT !.timer = delay] ELSE s

\* notifyTerminal and finish; only finish looks at settled.
Finished(s, kind) ==
  [s EXCEPT !.settled = IF @ = "no" THEN kind ELSE @, !.timer = "off", !.auth = FALSE,
            !.told = @ + 1]

\* abortProtocol: the UI is told, and a stream that was authorised is cancelled.
AbortProtocol(s, n) ==
  IF s.settled # "no" THEN sc' = s /\ nat' = n
  ELSE /\ sc' = [Finished(s, "failed") EXCEPT !.aborted = TRUE]
       /\ nat' = [n EXCEPT !.asked = @ \/ s.auth]

Abort(s) == AbortProtocol(s, nat)

\* The answer of start_provider_stream.
StartResolves ==
  /\ nat.start \in {"accepted", "rejected"} /\ ~sc.ready
  /\ sc' = IF nat.start = "accepted"
           THEN Armed([sc EXCEPT !.ready = TRUE, !.auth = ~Settled], "later")
           ELSE Finished([sc EXCEPT !.ready = TRUE], "failed")
  /\ nat' = [nat EXCEPT !.asked = nat.start = "accepted" /\ Settled]
  /\ UNCHANGED <<wire, tasks, task, shown>>

\* channel.onmessage
Receive ==
  /\ wire # <<>> /\ wire' = Tail(wire)
  /\ IF Settled THEN UNCHANGED <<nat, sc, tasks>>
     ELSE IF sc.buffered = MaxBuffered THEN Abort(sc) /\ UNCHANGED tasks
     ELSE /\ sc' = [sc EXCEPT !.timer = "off", !.buffered = @ + 1]
          /\ tasks' = Append(tasks, Head(wire)) /\ UNCHANGED nat
  /\ UNCHANGED <<task, shown>>

\* An event arrives within the 250 ms to the second poll, unless it was lost.
DeliveredByThen == sc.unseen = 1 /\ sc.timer # "now" => wire = <<>>

\* A poll that does not wait for the one before it.
Rushed ==
  \/ task.seq = Poll \/ \E k \in DOMAIN tasks : tasks[k] = Poll
  \/ sc.unseen = 1 /\ sc.timer = "now"

RecoveryPoll ==
  /\ sc.timer # "off" /\ DeliveredByThen
  /\ sc' = [sc EXCEPT !.timer = "off", !.rushed = @ \/ Rushed]
  /\ tasks' = Append(tasks, Poll)
  /\ UNCHANGED <<nat, wire, task, shown>>

IsTerminal(seq) == nat.terminal # "none" /\ seq = nat.last

\* processEvent up to its first await, or recoverFromSnapshot's call.
TaskBegins ==
  /\ tasks # <<>> /\ task = NoTask /\ sc.ready
  /\ tasks' = Tail(tasks) /\ UNCHANGED wire
  /\ LET seq == Head(tasks)
         done == [sc EXCEPT !.buffered = IF seq = Poll THEN @ ELSE @ - 1] IN
     \/ Settled /\ sc' = done /\ UNCHANGED <<nat, task, shown>>
     \/ /\ ~Settled /\ seq = Poll /\ UNCHANGED <<nat, sc, shown>>
        /\ task' = [NoTask EXCEPT !.seq = Poll, !.stage = "snapshot"]
     \/ ~Settled /\ seq # Poll /\ seq # sc.expected /\ Abort(done) /\ UNCHANGED <<task, shown>>
     \/ /\ ~Settled /\ seq = sc.expected /\ UNCHANGED nat
        /\ sc' = [sc EXCEPT !.unseen = 0]
        /\ task' = [NoTask EXCEPT !.seq = seq,
                                  !.stage = IF IsTerminal(seq) THEN "snapshot" ELSE "ack"]
        /\ shown' = IF seq > 0 /\ ~IsTerminal(seq) THEN Append(shown, seq) ELSE shown

\* get_provider_stream_snapshot, read by the native side.
SnapshotRead ==
  /\ task.stage = "snapshot"
  /\ task' = [task EXCEPT !.stage = "got", !.terminal = nat.terminal, !.last = nat.last,
                          !.acked = nat.acked, !.cancel = nat.cancel]
  /\ UNCHANGED <<nat, wire, sc, tasks, shown>>

\* validateTerminalSnapshot
ReceiptFits(seq) ==
  /\ task.terminal # "none" /\ task.last = seq /\ task.acked = seq - 1
  /\ task.cancel = (task.terminal = "cancelled")

Leave(s) == [s EXCEPT !.buffered = IF task.seq = Poll THEN @ ELSE @ - 1]

\* Mutant: an event that was not seen is waited for, for ever.
PollPatient ==
  /\ task.stage = "got" /\ task.seq = Poll
  /\ sc' = Armed(sc, "later") /\ task' = NoTask
  /\ UNCHANGED <<nat, wire, tasks, shown>>

\* recoverFromSnapshot after its await.
PollApplies ==
  /\ task.stage = "got" /\ task.seq = Poll /\ UNCHANGED <<wire, tasks, shown>>
  /\ LET ahead == IF task.terminal = "none" THEN task.last >= sc.expected
                  ELSE task.last > sc.expected IN
     \/ /\ ahead /\ task' = NoTask
        /\ IF sc.unseen = 1 \/ task.acked # sc.expected - 1 THEN Abort(sc)
           ELSE sc' = Armed([sc EXCEPT !.unseen = 1], "later") /\ UNCHANGED nat
     \/ /\ ~ahead /\ task.terminal = "none" /\ task' = NoTask
        /\ IF task.last # sc.expected - 1 \/ task.acked # task.last THEN Abort(sc)
           ELSE sc' = Armed([sc EXCEPT !.unseen = 0], "later") /\ UNCHANGED nat
     \/ /\ ~ahead /\ task.terminal # "none"
        /\ IF ReceiptFits(sc.expected)
           THEN task' = [task EXCEPT !.stage = "ack", !.seq = sc.expected]
                /\ sc' = [sc EXCEPT !.buffered = @ + 1] /\ UNCHANGED nat
           ELSE Abort(sc) /\ task' = NoTask

\* The snapshot of a terminal event.
TerminalChecked ==
  /\ task.stage = "got" /\ task.seq # Poll
  /\ IF ReceiptFits(task.seq)
     THEN task' = [task EXCEPT !.stage = "ack"] /\ UNCHANGED <<nat, sc>>
     ELSE task' = NoTask /\ Abort(Leave(sc))
  /\ UNCHANGED <<wire, tasks, shown>>

\* Mutant: a stream the user cancelled is shown as cancelled.
AckTrustsUser ==
  /\ task.stage = "ack" /\ task' = NoTask
  /\ nat' = [nat EXCEPT !.acked = task.seq]
  /\ sc' = IF IsTerminal(task.seq)
           THEN Finished([Leave(sc) EXCEPT !.expected = @ + 1],
                         IF sc.cancel = "none" THEN nat.terminal ELSE "cancelled")
           ELSE Armed([Leave(sc) EXCEPT !.expected = @ + 1], "later")
  /\ UNCHANGED <<wire, tasks, shown>>

\* ack_provider_stream and the rest of the task.
AckReturns ==
  /\ task.stage = "ack" /\ task' = NoTask
  /\ nat' = [nat EXCEPT !.acked = task.seq]
  /\ sc' = IF IsTerminal(task.seq)
           THEN Finished([Leave(sc) EXCEPT !.expected = @ + 1], nat.terminal)
           ELSE Armed([Leave(sc) EXCEPT !.expected = @ + 1], "later")
  /\ UNCHANGED <<wire, tasks, shown>>

\* get_provider_stream_snapshot or ack_provider_stream is rejected, and the task's
\* catch aborts: the request is gone, a send does not commit, the durability barrier
\* times out or the acknowledgement is not stored.
CommandFails ==
  /\ task.stage \in {"snapshot", "ack"} /\ nat.lost < MaxLost
  /\ task' = NoTask /\ AbortProtocol(Leave(sc), [nat EXCEPT !.lost = @ + 1])
  /\ UNCHANGED <<wire, tasks, shown>>

\* An acknowledgement that waits for its delta to be durable is refused with
\* STREAM_CANCELLED when the stream is cancelled; Started waits for nothing.
AckCancelled ==
  /\ task.stage = "ack" /\ task.seq > 0 /\ nat.cancel /\ nat.terminal = "none"
  /\ task' = NoTask /\ Abort([Leave(sc) EXCEPT !.refused = ~Settled])
  /\ UNCHANGED <<wire, tasks, shown>>

\* handle.cancel: queued until the start is answered.
UserCancels ==
  /\ sc.cancel = "none" /\ ~Settled /\ sc' = [sc EXCEPT !.cancel = "wanted"]
  /\ UNCHANGED <<nat, wire, tasks, task, shown>>

CancelSends ==
  /\ sc.cancel = "wanted" /\ sc.ready
  /\ IF Settled THEN sc' = [sc EXCEPT !.cancel = "over"] /\ UNCHANGED nat
     ELSE sc' = [sc EXCEPT !.cancel = "sent"] /\ nat' = [nat EXCEPT !.asked = TRUE]
  /\ UNCHANGED <<wire, tasks, task, shown>>

CancelReturns ==
  /\ \/ /\ sc.cancel \in {"accepted", "late"}
        /\ sc' = Armed([sc EXCEPT !.cancel = "over"], IF sc.cancel = "late" THEN "now" ELSE "later")
     \/ /\ sc.cancel = "refused"
        /\ sc' = IF Settled THEN [sc EXCEPT !.cancel = "failed"]
                 ELSE Finished([sc EXCEPT !.cancel = "failed"], "failed")
  /\ UNCHANGED <<nat, wire, tasks, task, shown>>

ClientNext ==
  \/ NatStart \/ NatSend \/ NatCancel \/ NatCancelFails \/ Lose \/ UserCancels
  \/ \E kind \in {"completed", "cancelled", "failed"} : NatTerminal(kind)
  \/ StartResolves \/ Receive \/ RecoveryPoll \/ TaskBegins \/ SnapshotRead \/ PollApplies
  \/ TerminalChecked \/ AckReturns \/ CommandFails \/ AckCancelled \/ CancelSends \/ CancelReturns

ClientSpec == ClientInit /\ [][ClientNext]_clientVars
-----------------------------------------------------------------------------
(* Properties.                                                             *)

\* The deltas shown are a prefix of what the provider sent, in order, each once,
\* whatever was lost; a completed message shows them all.
ShownIsPrefix ==
  /\ shown = [k \in 1 .. Len(shown) |-> k] /\ (shown # <<>> => Len(shown) <= nat.last)
  /\ sc.settled = "completed" => Len(shown) = Deltas

\* The outcome the page is told is the one in the native receipt; only the client
\* itself may call a stream failed that ended otherwise.
OutcomeAgrees ==
  sc.settled \in {"completed", "cancelled"} => nat.terminal = sc.settled

\* The client aborts only when an event was lost or a command failed, when a
\* cancelled stream ended with a failure (snapshot.cancelRequested and the type
\* disagree) or refused the acknowledgement that was waiting, or when a second poll
\* did not wait for the first (a late cancel polls at once): the two then count the
\* same event on its way twice, without the 250 ms between them.
NoFalseAlarm ==
  sc.aborted =>
    nat.lost > 0 \/ sc.rushed \/ sc.refused \/ (nat.cancel /\ nat.terminal = "failed")

\* onTerminal is called once.  It is called twice only when the cancel command
\* itself failed while the terminal event was being verified.
ToldOnce == sc.told <= IF sc.cancel = "failed" THEN 2 ELSE 1

\* What the page is shown and told is what the native side sent and decided, whatever events
\* are lost and polls race.
ClientHonest ==
  /\ ShownIsPrefix
  /\ OutcomeAgrees
  /\ NoFalseAlarm
  /\ ToldOnce

\* Once the start command is decided the page gets an outcome, also when the last
\* event was lost.
ClientSettles == (nat.start # "called") ~> (sc.settled # "no")
=============================================================================
