----------------------------- MODULE HostBroker -----------------------------
(***************************************************************************)
(* The broker between a plugin frame and native actions                    *)
(* (spikes/channel-stream/src-tauri/src/host_broker.rs).                   *)
(*                                                                         *)
(* Calls come from several threads.  Each takes a permit, reads the clock, *)
(* passes the global window, and then registers, rotates or executes.  An  *)
(* execution holds a read lease on the session until its native action has *)
(* ended; registration and rotation take the write lock.  The clock is     *)
(* monotonic, but a thread may use a reading after another read a later    *)
(* one.                                                                    *)
(***************************************************************************)
EXTENDS Naturals, Sequences, FiniteSets

CONSTANTS
  BrokerCalls,     \* how many calls are made, 1..BrokerCalls in order of arrival
  BrokerFlights,   \* limits.max_in_flight
  GlobalAttempts,  \* limits.global_rate_limit.max_requests
  SessionAttempts, \* limits.rate_limit.max_requests
  BrokerWindow,    \* window_ms of both
  ReplayCapacity,  \* limits.replay_history_capacity
  BrokerClock      \* bounds the clock

ASSUME 0 \notin {BrokerFlights, GlobalAttempts, SessionAttempts, BrokerWindow, ReplayCapacity}

VARIABLES
  session,   \* the registered session: [token, policy, gen, ids, window]
  arrivals,  \* the global window
  flights,   \* in_flight
  clock,
  call,      \* the calls: [pc, op, stamp, gen]
  admitted,  \* stamps of the attempts each generation let through, in order
  executed   \* what was executed: [gen, id]

brokerVars == <<session, arrivals, flights, clock, call, admitted, executed>>

NoSession == [token |-> 0, policy |-> "", gen |-> 0, ids |-> {}, window |-> <<>>]
NoCall == [pc |-> "idle", op |-> [do |-> "none"], stamp |-> 0, gen |-> 0]

\* Two tokens, two policies of which "p" grants what "granted" needs.
BrokerOps ==
  {[do |-> "register", token |-> 1, policy |-> p] : p \in {"p", "q", "invalid"}}
  \cup {[do |-> "rotate", token |-> 1, next |-> n, expected |-> 1] : n \in {1, 2}}
  \cup {[do |-> "execute", token |-> t, id |-> "a", method |-> "granted"] : t \in {1, 2}}
  \cup {[do |-> "execute", token |-> 1, id |-> "b", method |-> m] : m \in {"denied", "malformed"}}

\* CanonicalRegistration::parse: the module's identifier and both permission lists.
ValidPolicy(policy) == policy # "invalid"
\* parse_request: size, schema, version and identifiers.
WellFormed(op) == op.method # "malformed"
\* authorize_method: the method's permission is both declared and approved, and its
\* payload fits; a method that no permission covers is denied.
Authorized(policy, op) == policy = "p" /\ op.method = "granted"

\* The broker is new, or a session was registered so long ago that the window its
\* call opened has lapsed, which is the same as none.
BrokerInit ==
  /\ session \in {NoSession, [NoSession EXCEPT !.token = 1, !.policy = "p", !.gen = 1]}
  /\ arrivals = <<>> /\ flights = 0 /\ clock = 0
  /\ call = [c \in 1..BrokerCalls |-> NoCall] /\ admitted = <<>> /\ executed = <<>>
-----------------------------------------------------------------------------
(* FixedWindowState: <<>> or <<start, attempts>>.                          *)

OpenWindow(w, now) == IF w = <<>> THEN <<now, 0>> ELSE IF now - w[1] >= BrokerWindow THEN <<now, 0>> ELSE w
Regressed(w, now) == w # <<>> /\ now < w[1]

\* An attempt that is refused leaves the window as it is.
Admits(w, now, limit) == ~Regressed(w, now) /\ OpenWindow(w, now)[2] < limit
Consumed(w, now) == <<OpenWindow(w, now)[1], OpenWindow(w, now)[2] + 1>>
-----------------------------------------------------------------------------
(* A call.                                                                 *)

Leased == {c \in DOMAIN call : call[c].pc \in {"attempt", "request", "executing"}}
Go(c, to) == call' = [call EXCEPT ![c].pc = to]

\* The call returns; its permit and its lease are dropped.
EndCall(c, to) == call' = [call EXCEPT ![c] = [NoCall EXCEPT !.pc = to]] /\ flights' = flights - 1

\* acquire_global_admission: the permit, then the clock.
EnterBroker(c, op) ==
  /\ call[c].pc = "idle" /\ (c > 1 => call[c - 1].pc # "idle")
  /\ IF flights < BrokerFlights
     THEN /\ flights' = flights + 1
          /\ call' = [call EXCEPT ![c] = [pc |-> "admission", op |-> op, stamp |-> clock, gen |-> 0]]
     ELSE call' = [call EXCEPT ![c].pc = "refused"] /\ UNCHANGED flights
  /\ UNCHANGED <<session, arrivals, clock, admitted, executed>>

\* ... and the global window, under its lock.
AdmitCall(c) ==
  /\ call[c].pc = "admission"
  /\ IF Admits(arrivals, call[c].stamp, GlobalAttempts)
     THEN arrivals' = Consumed(arrivals, call[c].stamp) /\ Go(c, "lock") /\ UNCHANGED flights
     ELSE EndCall(c, "refused") /\ UNCHANGED arrivals
  /\ UNCHANGED <<session, clock, admitted, executed>>

\* register: the first writer wins; the same token and policy again is idempotent.
RegisterSession(c) ==
  /\ call[c].pc = "lock" /\ call[c].op.do = "register"
  /\ LET op == call[c].op IN
     IF ~ValidPolicy(op.policy)
     THEN EndCall(c, "refused") /\ UNCHANGED session
     ELSE /\ Leased = {}
          /\ IF session = NoSession
             THEN /\ session' = [token |-> op.token, policy |-> op.policy, gen |-> 1, ids |-> {}, window |-> <<>>]
                  /\ EndCall(c, "answered")
             ELSE /\ UNCHANGED session
                  /\ EndCall(c, IF session.token = op.token /\ session.policy = op.policy
                                THEN "answered" ELSE "refused")
  /\ UNCHANGED <<arrivals, clock, admitted, executed>>

\* rotate: the right token and generation, and another token; replay history and
\* window start afresh.
RotateSession(c) ==
  /\ call[c].pc = "lock" /\ call[c].op.do = "rotate" /\ Leased = {}
  /\ LET op == call[c].op IN
     IF session # NoSession /\ session.token = op.token /\ session.gen = op.expected /\ op.next # op.token
     THEN /\ session' = [session EXCEPT !.token = op.next, !.gen = @ + 1, !.ids = {}, !.window = <<>>]
          /\ EndCall(c, "answered")
     ELSE EndCall(c, "refused") /\ UNCHANGED session
  /\ UNCHANGED <<arrivals, clock, admitted, executed>>

\* execute_json up to the second reading of the clock.
LeaseSession(c) ==
  /\ call[c].pc = "lock" /\ call[c].op.do = "execute"
  /\ IF session = NoSession \/ session.token # call[c].op.token THEN EndCall(c, "refused")
     ELSE /\ call' = [call EXCEPT ![c].pc = "attempt", ![c].stamp = clock, ![c].gen = session.gen]
          /\ UNCHANGED flights
  /\ UNCHANGED <<session, arrivals, clock, admitted, executed>>

\* consume_authenticated_attempt, under the runtime lock, before the request is parsed.
CountAttempt(c) ==
  /\ call[c].pc = "attempt"
  /\ IF Admits(session.window, call[c].stamp, SessionAttempts)
     THEN /\ session' = [session EXCEPT !.window = Consumed(@, call[c].stamp)]
          /\ admitted' = Append(admitted, [gen |-> call[c].gen, at |-> call[c].stamp])
          /\ Go(c, "request") /\ UNCHANGED flights
     ELSE EndCall(c, "refused") /\ UNCHANGED <<session, admitted>>
  /\ UNCHANGED <<arrivals, clock, executed>>

\* Mutant: an identifier counts as used only once the history is full.
FreshWhileRoom(ids, op) == Cardinality(ids) <= ReplayCapacity
FreshId(ids, op) == op.id \notin ids /\ Cardinality(ids) < ReplayCapacity

\* parse_request, consume_request_id under the runtime lock, authorize_method: an
\* identifier is used up whether or not the method is granted.
TakeRequest(c) ==
  /\ call[c].pc = "request"
  /\ LET op == call[c].op IN
     IF ~WellFormed(op) \/ ~FreshId(session.ids, op)
     THEN EndCall(c, "refused") /\ UNCHANGED <<session, executed>>
     ELSE /\ session' = [session EXCEPT !.ids = @ \cup {op.id}]
          /\ IF Authorized(session.policy, op)
             THEN /\ Go(c, "executing") /\ UNCHANGED flights
                  /\ executed' = Append(executed, [gen |-> call[c].gen, id |-> op.id])
             ELSE EndCall(c, "refused") /\ UNCHANGED executed
  /\ UNCHANGED <<arrivals, clock, admitted>>

\* The native action ends, well or not.
EndAction(c) ==
  /\ call[c].pc = "executing" /\ EndCall(c, "answered")
  /\ UNCHANGED <<session, arrivals, clock, admitted, executed>>

ClockTicks ==
  /\ clock < BrokerClock /\ clock' = clock + 1
  /\ UNCHANGED <<session, arrivals, flights, call, admitted, executed>>

BrokerStep(c) ==
  \/ AdmitCall(c) \/ RegisterSession(c) \/ RotateSession(c) \/ LeaseSession(c)
  \/ CountAttempt(c) \/ TakeRequest(c) \/ EndAction(c)
BrokerNext ==
  \/ ClockTicks
  \/ \E c \in 1..BrokerCalls : BrokerStep(c) \/ \E op \in BrokerOps : EnterBroker(c, op)

BrokerSpec == BrokerInit /\ [][BrokerNext]_brokerVars
-----------------------------------------------------------------------------
(* Properties.                                                             *)

\* "A successful rotation cannot overlap an old-generation native action": what
\* holds a lease belongs to the present generation.
LeaseIsCurrent == \A c \in Leased : call[c].gen = session.gen

\* The counter of calls in flight is exact on every path out of the broker.
FlightsExact ==
  /\ flights = Cardinality({c \in DOMAIN call : call[c].pc \notin {"idle", "refused", "answered"}})
  /\ flights <= BrokerFlights

\* Within a generation a request identifier leads to one native action at most,
\* however its calls overlap.
ExecutedOnce == \A j, k \in DOMAIN executed : executed[j] = executed[k] => j = k

\* A fixed window admits at most twice its limit in any stretch of its length, also
\* when threads use readings of the clock out of order.
RateBounded ==
  \A from \in 0..BrokerClock, g \in {admitted[k].gen : k \in DOMAIN admitted} :
    Cardinality({k \in DOMAIN admitted :
      admitted[k].gen = g /\ admitted[k].at \in from .. (from + BrokerWindow - 1)}) <= 2 * SessionAttempts

\* The calls never wait for each other in a circle: while one is inside, one can go
\* on.  Each has a bounded number of steps, so every call is answered or refused.
BrokerNeverStuck ==
  flights > 0 => \E c \in 1..BrokerCalls : ENABLED BrokerStep(c)

\* Leases, permits, rate windows and the replay history stay exact however calls of several
\* threads interleave, and a held permit is always given back.
BrokerSafe ==
  /\ LeaseIsCurrent
  /\ FlightsExact
  /\ ExecutedOnce
  /\ RateBounded
  /\ BrokerNeverStuck

=============================================================================
