--------------------------- MODULE ExamplesProofs ---------------------------
(***************************************************************************)
(* Safety of the threading example for any number of threads and of the    *)
(* system calls example for any number of children, both when a program    *)
(* uses one of them and when it uses one behind the other.                 *)
(***************************************************************************)
EXTENDS Examples, TLAPS

HolderInv == \A t \in Threads : thread[t] = "hold" => mutex = t

TInv == TTypeOK /\ HolderInv /\ DataWhileRunning /\ SuccessFreesMutex

LEMMA TInvariance == TSpec => []TInv
<1> USE ThreadingAssumption
    DEF TInv, TTypeOK, HolderInv, DataWhileRunning, SuccessFreesMutex, HeldByNobody, Failed
<1>1. TInit => TInv
  BY DEF TInit
<1>2. TInv /\ [TNext]_tvars => TInv'
  <2> SUFFICES ASSUME TInv, [TNext]_tvars PROVE TInv'
    OBVIOUS
  <2>1. ASSUME NEW t \in Threads, Start(t) PROVE TInv'         BY <2>1 DEF Start
  <2>2. ASSUME NEW t \in Threads, StartFails(t) PROVE TInv'    BY <2>2 DEF StartFails, tvars
  <2>3. ASSUME NEW t \in Threads, Join(t) PROVE TInv'          BY <2>3 DEF Join
  <2>4. ASSUME NEW t \in Threads, Obtain(t) PROVE TInv'        BY <2>4 DEF Obtain, ThreadGoes
  <2>5. ASSUME NEW t \in Threads, ObtainFails(t) PROVE TInv'
    BY <2>5 DEF ObtainFails, ThreadGoes, Returns
  <2>6. ASSUME NEW t \in Threads, Release(t) PROVE TInv'
    BY <2>6 DEF Release, ThreadGoes, Returns
  <2>7. ASSUME NEW t \in Threads, ReleaseFails(t) PROVE TInv'
    BY <2>7 DEF ReleaseFails, ThreadGoes, Returns
  <2>8. CASE UNCHANGED tvars                                   BY <2>8 DEF tvars
  <2>q. QED
    BY <2>1, <2>2, <2>3, <2>4, <2>5, <2>6, <2>7, <2>8 DEF TNext, ThreadStep, Proceeds
<1>q. QED BY <1>1, <1>2, PTL DEF TSpec

(***************************************************************************)
(* No two threads are between the lock and the unlock (threading.c:24-32). *)
(***************************************************************************)
THEOREM MutualExclusion == TSpec => []OneHolds
<1>1. TInv => OneHolds  BY DEF TInv, HolderInv, OneHolds
<1>q. QED BY <1>1, TInvariance, PTL

(***************************************************************************)
(* Every thread works on memory that is still there and says how it ended  *)
(* before it is joined (threading.c:68-77, 41-45).                         *)
(***************************************************************************)
THEOREM DataStays == TSpec => []DataWhileRunning
<1>1. TInv => DataWhileRunning  BY DEF TInv
<1>q. QED BY <1>1, TInvariance, PTL

(***************************************************************************)
(* A mutex that nobody holds is free unless the user has been told of a    *)
(* failure (threading.c:32-42).                                            *)
(***************************************************************************)
THEOREM SuccessIsTrue == TSpec => []SuccessFreesMutex
<1>1. TInv => SuccessFreesMutex  BY DEF TInv
<1>q. QED BY <1>1, TInvariance, PTL

-----------------------------------------------------------------------------
(* The system calls.                                                       *)

CallTypeOK ==
    /\ version \in {"systemcalls", "systemcalls_1"}
    /\ pc \in {"idle", "open", "fork", "wait", "exit"}
    /\ call \in {"none", "system", "exec", "redirect"}
    /\ kid \in Pids \cup {NoPid}
    /\ returned \in {"none", "true", "false"}
    /\ sole \in BOOLEAN
    /\ kids \in [Pids -> {"none", "open", "exec", "run", "zombie", "clone"}]
    /\ status \in [Pids -> Endings]
    /\ redirected \in [Pids -> BOOLEAN]
    /\ offset \in [Pids -> 0 .. MaxOut]
    /\ file \in [1 .. MaxOut -> Pids \cup {NoPid}]

InACall == pc \in {"open", "fork", "wait"}

\* Where the program is tells which child it has, and that nothing has been
\* returned and no child waited for.
PcInv ==
    /\ InACall => call \in {"exec", "redirect"}
    /\ pc # "idle" => returned = "none" /\ outcome = "none"
    /\ pc = "fork" \/ (pc = "open" /\ OpensFirst) => kid = NoPid
    /\ pc = "wait" => kid \in Pids

\* A child of the version that opens first finds the file open.
NoChildOpens == OpensFirst => \A k \in Pids : kids[k] # "open"

\* As long as nothing has come between, the child of the call is the only one.
OnlyKid == InACall /\ sole => \A k \in Pids \ {kid} : kids[k] = "none"

\* What that child wrote is in the file, before and after the call returns.
KidsOutput ==
    OpensFirst /\ sole /\ call = "redirect" /\ (pc = "wait" \/ returned = "true") =>
        kid \in Pids /\ \A i \in 1 .. offset[kid] : file[i] = kid

CallInv ==
    /\ CallTypeOK /\ PcInv /\ NoChildOpens /\ OnlyKid /\ KidsOutput
    /\ TrueMeansSuccess /\ NothingLeft

LEMMA CallInitInv == CallInit => CallInv
<1> SUFFICES ASSUME CallInit PROVE CallInv
  OBVIOUS
<1> USE DEF CallInit
<1>1. PICK others \in SUBSET Background :
        kids = [k \in Pids |-> IF k \in others THEN "run" ELSE "none"]
  OBVIOUS
<1>2. kids \in [Pids -> {"none", "open", "exec", "run", "zombie", "clone"}]
  BY <1>1
<1>3. CallTypeOK
  <2>1. file \in [1 .. MaxOut -> Pids \cup {NoPid}]
    BY DEF Empty
  <2>2. offset \in [Pids -> 0 .. MaxOut]
    BY SystemCallsAssumption
  <2>3. version \in {"systemcalls", "systemcalls_1"}
    BY SystemCallsAssumption
  <2>q. QED
    BY <1>2, <2>1, <2>2, <2>3 DEF CallTypeOK, Endings
<1>4. NoChildOpens
  BY <1>1 DEF NoChildOpens
<1>q. QED
  BY <1>3, <1>4
     DEF CallInv, PcInv, OnlyKid, KidsOutput, InACall, TrueMeansSuccess, LooksAtStatus, NothingLeft

LEMMA CallerKeeps ==
    ASSUME CallInv, CallerStep PROVE CallInv'
<1> USE SystemCallsAssumption
    DEF CallInv, CallTypeOK, PcInv, NoChildOpens, OnlyKid, KidsOutput, InACall,
        TrueMeansSuccess, LooksAtStatus, NothingLeft, OpensFirst, CallerAt, children
<1>1. CASE DoSystem        BY <1>1 DEF DoSystem, Result, Endings
<1>2. CASE \E c \in {"exec", "redirect"} : Call(c)
  BY <1>2 DEF Call
<1>3. CASE Fork            BY <1>3 DEF Fork, ParentAfter, ChildStart
<1>4. CASE ForkFails       BY <1>4 DEF ForkFails, ParentAfter
<1>5. CASE ParentOpens     BY <1>5 DEF ParentOpens, Empty
<1>6. CASE ParentOpenFails BY <1>6 DEF ParentOpenFails
<1>7. CASE Wait            BY <1>7 DEF Wait, Awaited, Success, Result, Ended, Endings
<1>8. CASE WaitFails       BY <1>8 DEF WaitFails, Result
<1>q. QED
  BY <1>1, <1>2, <1>3, <1>4, <1>5, <1>6, <1>7, <1>8 DEF CallerStep, InCall, Goes

LEMMA ChildrenKeep ==
    ASSUME CallInv, ChildSteps PROVE CallInv'
<1> USE SystemCallsAssumption
    DEF CallInv, CallTypeOK, PcInv, NoChildOpens, OnlyKid, KidsOutput, InACall,
        TrueMeansSuccess, LooksAtStatus, NothingLeft, OpensFirst, ChildAt, caller
<1>1. PICK k \in Pids : ChildStep(k) \/ CloneEnds(k)
  BY DEF ChildSteps
<1>2. CASE ChildOpens(k)     BY <1>2 DEF ChildOpens, Empty
<1>3. CASE ChildOpenFails(k) BY <1>3 DEF ChildOpenFails
<1>4. CASE Exec(k)           BY <1>4 DEF Exec
<1>5. CASE ExecFails(k)      BY <1>5 DEF ExecFails, Endings
<1>6. CASE CommandWrites(k)  BY <1>6 DEF CommandWrites
<1>7. CASE CommandEnds(k)    BY <1>7 DEF CommandEnds
<1>8. CASE CloneEnds(k)      BY <1>8 DEF CloneEnds
<1>q. QED
  BY <1>1, <1>2, <1>3, <1>4, <1>5, <1>6, <1>7, <1>8 DEF ChildStep

LEMMA CallInvariance == CallSpec => []CallInv
<1>1. CallInv /\ [CallNext]_callVars => CallInv'
  <2>1. CallInv /\ UNCHANGED callVars => CallInv'
    BY DEF callVars, caller, children, CallInv, CallTypeOK, PcInv, NoChildOpens, OnlyKid,
           KidsOutput, InACall, TrueMeansSuccess, LooksAtStatus, NothingLeft, OpensFirst
  <2>q. QED BY <2>1, CallerKeeps, ChildrenKeep DEF CallNext
<1>q. QED BY CallInitInv, <1>1, PTL DEF CallSpec

(***************************************************************************)
(* do_exec and do_exec_redirect of systemcalls.c return true only if the   *)
(* command of this call exited with zero, provided the program has no      *)
(* other child and wait does not fail (86-93, 152-160); do_system of       *)
(* systemcalls_1.c needs no such provision (31-37).                        *)
(***************************************************************************)
THEOREM TrueIsTrue == CallSpec => []TrueMeansSuccess
<1>1. CallInv => TrueMeansSuccess  BY DEF CallInv
<1>q. QED BY <1>1, CallInvariance, PTL

(***************************************************************************)
(* If the program has no other child and wait does not fail, a call has    *)
(* waited for the child it forked when it returns, be it true or false     *)
(* (systemcalls.c:86-93, 152-160, systemcalls_1.c:103); the only child it  *)
(* may leave is one that do_exec_redirect forked before it failed to open  *)
(* the file (systemcalls.c:127-135).                                       *)
(***************************************************************************)
THEOREM NoChildStays == CallSpec => []NothingLeft
<1>1. CallInv => NothingLeft  BY DEF CallInv
<1>q. QED BY <1>1, CallInvariance, PTL

(***************************************************************************)
(* When the file is opened before the fork it holds what the command wrote *)
(* (systemcalls_1.c:153).                                                  *)
(***************************************************************************)
THEOREM OutputIsKept == CallSpec => []OutputKeptIfOpenedFirst
<1>1. CallInv => OutputKeptIfOpenedFirst
  BY DEF CallInv, KidsOutput, OutputKeptIfOpenedFirst, OutputKept
<1>q. QED BY <1>1, CallInvariance, PTL

(***************************************************************************)
(* A program that uses both examples uses each of them as its own          *)
(* specification says, so that what is proved of one holds in the other's  *)
(* company: the children of the system calls live on while threads run.    *)
(***************************************************************************)
THEOREM ExamplesUseBoth == ExamplesSpec => CallSpec /\ TSpec
<1>1. ExamplesInit => CallInit /\ TInit
  BY DEF ExamplesInit
<1>2. [ExamplesNext]_exampleVars => [CallNext]_callVars /\ [TNext]_tvars
  BY DEF ExamplesNext, exampleVars, ThreadRound, SystemCall, Children, CallNext
<1>q. QED BY <1>1, <1>2, PTL DEF ExamplesSpec, CallSpec, TSpec
=============================================================================
