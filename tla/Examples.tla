------------------------------ MODULE Examples ------------------------------
(***************************************************************************)
(* A program that uses the two examples one at a time, as a test program   *)
(* does: first it starts rounds of threads, then it makes system calls.    *)
(* Children it had before that live on meanwhile.                          *)
(***************************************************************************)
EXTENDS SystemCalls, Threading

exampleVars == <<callVars, tvars>>

ExamplesInit == CallInit /\ TInit

AllJoined == \A t \in Threads : thread[t] = "none"

ThreadRound == call = "none" /\ TNext /\ UNCHANGED callVars
SystemCall  == AllJoined /\ CallerStep /\ UNCHANGED tvars
Children   == ChildSteps /\ UNCHANGED tvars

ExamplesNext == ThreadRound \/ SystemCall \/ Children

ExamplesSpec ==
    ExamplesInit /\ [][ExamplesNext]_exampleVars /\ TFairness /\ CallFairness
=============================================================================
