------------------------------- MODULE Cases --------------------------------
(* The caller of a pure function: it asks one function one question, and gets  *)
(* the answer in the next step.  The modules of the pure algorithms share it.  *)
EXTENDS Integers, Sequences, FiniteSets

VARIABLE case       \* [of: the function asked, in: its input, done, out: its answer]

\* What a function answers when it returns an error.
Err == [ok |-> FALSE]
Ok(v) == [ok |-> TRUE, v |-> v]

Asked(name, inputs) ==
    \E i \in inputs : case = [of |-> name, in |-> i, done |-> FALSE, out |-> Err]

Answers(name, F(_)) ==
    /\ case.of = name /\ ~case.done
    /\ case' = [case EXCEPT !.done = TRUE, !.out = F(case.in)]

Answered(name) == case.of = name /\ case.done
=============================================================================
