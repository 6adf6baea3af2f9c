------------------------------ MODULE MCNative ------------------------------
(***************************************************************************)
(* The services of the native side that run beside each other and share no *)
(* state: a behaviour is that of the one that "which" names.               *)
(***************************************************************************)
EXTENDS Restore, StreamStart, StorageGate, ProviderRun, ImportSession

CONSTANT Parts   \* the services to check

VARIABLE which

Sse(bytes) == [protocol |-> "sse", bytes |-> bytes]
Nd(bytes) == [protocol |-> "ndjson", bytes |-> bytes]
MCResponses ==
    {Sse(<<"B", "d", "a", "n", "n", "d", "b", "r", "n", "n", "d", "end", "n", "n">>),
     Sse(<<":", "x", "n", "e", "m", "n", "d", "a", "n", "d", "b", "n", "n", "d", "end", "n", "n">>),
     Sse(<<"e", "m", "n", "n", "d", "a", "n", "n", "d", "?", "n", "n">>),
     Sse(<<"d", "a", "n", "n", "d", "end">>), Sse(<<"d", "a", "n", "n", "d", "end", "n", "n", "d", "!", "n", "n">>),
     Sse(<<"d", "a", "n", "d", "a", "n", "d", "a", "n", "d", "b", "n", "n">>),
     Nd(<<"a", "n", "b", "r", "n", "n", "end">>), Nd(<<"a", "b", "n", "b", "end", "n", "a">>),
     Nd(<<"a", "a", "b", "b", "a", "a", "b", "b", "a", "n">>), Nd(<<"a", "n", "!", "n">>)}

\* Where a service is not the one at work, it is in the first of its initial states.
MCInit ==
  /\ which \in Parts
  /\ Init /\ (which # "restore" => hadData)
  /\ StartInit /\ GateInit /\ ImportInit
  /\ RunInit /\ (which # "run" => ~run.prompt /\ run.response = CHOOSE r \in Responses : TRUE)

MCNext ==
  \/ /\ which = "restore" /\ Next
     /\ UNCHANGED <<which, startVars, gateVars, runVars, importVars>>
  \/ /\ which = "start" /\ StartNext
     /\ UNCHANGED <<which, vars, gateVars, runVars, importVars>>
  \/ /\ which = "gate" /\ GateNext
     /\ UNCHANGED <<which, vars, startVars, runVars, importVars>>
  \/ /\ which = "run" /\ RunNext
     /\ UNCHANGED <<which, vars, startVars, gateVars, importVars>>
  \/ /\ which = "import" /\ ImportNext
     /\ UNCHANGED <<which, vars, startVars, gateVars, runVars>>
-----------------------------------------------------------------------------
(* Fairness: what threads, tasks and timers get round to.                  *)

\* Restore's own Fairness, while it is the one at work.
RestoreFair ==
  /\ WF_vars(which = "restore" /\ Step)
  /\ WF_vars(which = "restore" /\ Copy(TRUE)) /\ WF_vars(which = "restore" /\ RemoveOld(TRUE))
  /\ WF_vars(which = "restore" /\ Validate(FALSE))
  /\ SF_vars(which = "restore" /\ Start("replace"))

\* The recovery task sleeps and tries again, for as long as the process lives.
StartFair == \A c \in Calls : WF_startVars(which = "start" /\ Retire(c))

\* Blocking closures end, the semaphore is fair, timers fire.
GateFair ==
  /\ WF_gateVars(which = "gate" /\ Admit) /\ WF_gateVars(which = "gate" /\ WalStep)
  /\ WF_gateVars(which = "gate" /\ SchedulerStep)
  /\ \A j \in GateCalls : WF_gateVars(which = "gate" /\ GateFinish(j))

\* The runtime's own steps are taken, the body having a read timer, and the deadline
\* passes.  Nothing is assumed of the consumer or the user.
RunFair == WF_runVars(which = "run" /\ RuntimeStep) /\ WF_runVars(which = "run" /\ Deadline)

\* A call runs to its end, and the clock runs on.
ImportFair ==
  /\ \A s \in Services : WF_importVars(which = "import" /\ ImportStep(s))
  /\ \A i \in Ids : WF_importVars(which = "import" /\ LeaseExpires(i))

MCVars == <<which, vars, startVars, gateVars, runVars, importVars>>
MCSpec ==
  /\ MCInit /\ [][MCNext]_MCVars
  /\ RestoreFair /\ StartFair /\ GateFair /\ RunFair /\ ImportFair
=============================================================================
