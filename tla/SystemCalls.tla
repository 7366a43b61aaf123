---------------------------- MODULE SystemCalls -----------------------------
(***************************************************************************)
(* do_system, do_exec and do_exec_redirect of examples/systemcalls: a      *)
(* program that calls them one after the other, the children it forks, and *)
(* the file they redirect to.  There are two versions.  systemcalls.c and  *)
(* systemcalls_2.c differ in layout only; systemcalls_1.c opens the file   *)
(* before it forks, waits for the child it forked and reports success      *)
(* whatever the command returned.  Which arguments a command gets is left  *)
(* out.                                                                    *)
(***************************************************************************)
EXTENDS Naturals, FiniteSets

CONSTANTS
    Pids,           \* the children that can exist at a time
    NoPid,
    Versions,       \* the versions to look at
    Background,     \* children the program may have started by itself
    MaxOut,         \* bound: what a command writes to its standard output
    CallsMayFail    \* fork, open, dup2, execv and wait may fail

ASSUME SystemCallsAssumption ==
    /\ NoPid \notin Pids /\ Background \subseteq Pids
    /\ Versions \subseteq {"systemcalls", "systemcalls_1"}
    /\ MaxOut \in Nat /\ CallsMayFail \in BOOLEAN

VARIABLES
    version,
    pc,             \* where the calling program is
    call,           \* the function it called last
    kid,            \* what its fork returned
    returned,       \* what the call returned
    outcome,        \* history: how the command of the call ended, if it has
    sole,           \* history: no other child is around and wait did not fail
    kids,           \* per child: where it is
    status,         \* per child: how it ended
    redirected,     \* per child: is its standard output the file
    offset,         \* per child: its position in the file
    file            \* who wrote each position of the file

caller   == <<version, pc, call, kid, returned, outcome, sole>>
children == <<kids, status, redirected, offset>>
callVars == <<caller, children, file>>

Endings == {"ok", "fail", "killed"}     \* exit(0), another exit, a signal
Empty   == [i \in 1 .. MaxOut |-> NoPid]

CallInit ==
    /\ version \in Versions
    /\ pc = "idle" /\ call = "none" /\ kid = NoPid
    /\ returned = "none" /\ outcome = "none" /\ sole = FALSE
    /\ \E others \in SUBSET Background :
          kids = [k \in Pids |-> IF k \in others THEN "run" ELSE "none"]
    /\ status = [k \in Pids |-> "ok"]
    /\ redirected = [k \in Pids |-> FALSE]
    /\ offset = [k \in Pids |-> 0]
    /\ file = Empty

OpensFirst == version = "systemcalls_1"

CallerAt(from, to) == pc = from /\ pc' = to /\ UNCHANGED version

Result(b) == IF b THEN "true" ELSE "false"

Ended(k) == IF k # NoPid /\ kids[k] = "zombie" THEN status[k] ELSE "none"

-----------------------------------------------------------------------------
(* The program.                                                            *)

\* system waits for its own child; "error" is a fork that failed.
DoSystem ==
    /\ CallerAt("idle", "idle")
    /\ call' = "system"
    /\ \E o \in Endings \cup {"error"} :
          /\ outcome' = o
          /\ returned' = Result(IF OpensFirst THEN o = "ok" ELSE o \in {"ok", "fail"})
    /\ UNCHANGED <<kid, sole, children, file>>

Call(c) ==
    /\ CallerAt("idle", IF c = "redirect" /\ OpensFirst THEN "open" ELSE "fork")
    /\ call' = c
    /\ returned' = "none"
    /\ outcome' = "none"
    /\ kid' = NoPid
    /\ sole' = \A k \in Pids : kids[k] = "none"
    /\ UNCHANGED <<children, file>>

\* Where a child starts and what its parent does next.
ChildStart == IF call = "redirect" /\ ~OpensFirst THEN "open" ELSE "exec"

\* Mutant: the file is opened behind the fork as well.
ParentAfter_OpensAgain == IF call = "redirect" THEN "open" ELSE "wait"
ParentAfter == IF call = "redirect" /\ ~OpensFirst THEN "open" ELSE "wait"

Fork ==
    /\ CallerAt("fork", ParentAfter)
    /\ \E k \in Pids :
          /\ kids[k] = "none"
          /\ kid' = k
          /\ kids' = [kids EXCEPT ![k] = ChildStart]
          /\ redirected' = [redirected EXCEPT ![k] = call = "redirect"]
          /\ offset' = [offset EXCEPT ![k] = 0]
    /\ UNCHANGED <<call, returned, outcome, sole, status, file>>

\* systemcalls.c looks at the result of fork in do_exec_redirect only after it
\* has opened the file.
ForkFails ==
    /\ CallsMayFail \/ \A k \in Pids : kids[k] # "none"
    /\ CallerAt("fork", IF ParentAfter = "open" THEN "open" ELSE "exit")
    /\ UNCHANGED <<call, kid, returned, outcome, sole, children, file>>

ParentOpens ==
    /\ CallerAt("open", IF kid # NoPid THEN "wait" ELSE IF OpensFirst THEN "fork" ELSE "exit")
    /\ file' = Empty
    /\ UNCHANGED <<call, kid, returned, outcome, sole, children>>

\* systemcalls.c:132 returns and leaves its child alone; systemcalls_1.c:154 exits.
ParentOpenFails ==
    /\ CallsMayFail
    /\ CallerAt("open", IF OpensFirst THEN "exit" ELSE "idle")
    /\ returned' = IF OpensFirst THEN returned ELSE "false"
    /\ UNCHANGED <<call, kid, outcome, sole, children, file>>

\* Mutant: wait does not look at how the child ended.
Success_Any(k) == TRUE
Success(k) == OpensFirst \/ status[k] = "ok"

\* systemcalls.c waits for any child, systemcalls_1.c for the one it forked.
Awaited == IF OpensFirst THEN {kid} ELSE Pids

\* Mutant: the call does not block.
Wait_Polls ==
    /\ CallerAt("wait", "idle")
    /\ \/ \E k \in Awaited :
             /\ kids[k] = "zombie"
             /\ kids' = [kids EXCEPT ![k] = "none"]
             /\ returned' = Result(Success(k))
       \/ /\ returned' = "true"
          /\ UNCHANGED kids
    /\ outcome' = Ended(kid)
    /\ UNCHANGED <<call, kid, sole, status, redirected, offset, file>>

Wait ==
    /\ CallerAt("wait", "idle")
    /\ \E k \in Awaited :
          /\ kids[k] = "zombie"
          /\ kids' = [kids EXCEPT ![k] = "none"]
          /\ status' = [status EXCEPT ![k] = "ok"]
          /\ returned' = Result(Success(k))
    /\ outcome' = Ended(kid)
    /\ UNCHANGED <<call, kid, sole, redirected, offset, file>>

\* A wait that fails leaves status alone: in do_exec of systemcalls.c it is 0,
\* which reads as success, in do_exec_redirect uninitialized.
WaitFails ==
    /\ CallsMayFail
    /\ CallerAt("wait", "idle")
    /\ \E b \in BOOLEAN :
          /\ OpensFirst => ~b
          /\ ~OpensFirst /\ call = "exec" => b
          /\ returned' = Result(b)
    /\ outcome' = Ended(kid)
    /\ sole' = FALSE
    /\ UNCHANGED <<call, kid, children, file>>

Goes   == Fork \/ ForkFails \/ ParentOpens \/ ParentOpenFails \/ Wait
InCall == Goes \/ WaitFails

-----------------------------------------------------------------------------
(* A child.                                                                *)

ChildAt(k, from, to) ==
    /\ kids[k] = from
    /\ kids' = [kids EXCEPT ![k] = to]
    /\ UNCHANGED <<caller, redirected>>

ChildOpens(k) ==
    /\ ChildAt(k, "open", "exec")
    /\ file' = Empty
    /\ UNCHANGED <<status, offset>>

\* systemcalls.c:132-135: the child returns from do_exec_redirect as well, and
\* is a second copy of the program.
ChildOpenFails(k) ==
    /\ CallsMayFail
    /\ ChildAt(k, "open", "clone")
    /\ UNCHANGED <<status, offset, file>>

Exec(k) ==
    /\ ChildAt(k, "exec", "run")
    /\ UNCHANGED <<status, offset, file>>

\* Mutant: a child that cannot run its command returns too.
ExecFails_Returns(k) ==
    /\ CallsMayFail
    /\ ChildAt(k, "exec", "clone")
    /\ UNCHANGED <<status, offset, file>>

\* dup2 or execv fails.
ExecFails(k) ==
    /\ CallsMayFail
    /\ ChildAt(k, "exec", "zombie")
    /\ status' = [status EXCEPT ![k] = "fail"]
    /\ UNCHANGED <<offset, file>>

CommandWrites(k) ==
    /\ redirected[k]
    /\ ChildAt(k, "run", "run")
    /\ offset[k] < MaxOut
    /\ offset' = [offset EXCEPT ![k] = @ + 1]
    /\ file' = [file EXCEPT ![offset[k] + 1] = k]
    /\ UNCHANGED status

CommandEnds(k) ==
    /\ ChildAt(k, "run", "zombie")
    /\ \E e \in Endings : status' = [status EXCEPT ![k] = e]
    /\ UNCHANGED <<offset, file>>

\* The copy of the program ends as it likes.
CloneEnds(k) ==
    /\ ChildAt(k, "clone", "zombie")
    /\ \E e \in Endings : status' = [status EXCEPT ![k] = e]
    /\ UNCHANGED <<offset, file>>

ChildStep(k) ==
    \/ ChildOpens(k) \/ ChildOpenFails(k)
    \/ Exec(k) \/ ExecFails(k)
    \/ CommandWrites(k) \/ CommandEnds(k)

CallerStep == DoSystem \/ (\E c \in {"exec", "redirect"} : Call(c)) \/ InCall
ChildSteps == \E k \in Pids : ChildStep(k) \/ CloneEnds(k)

CallNext == CallerStep \/ ChildSteps

CallSpec == CallInit /\ [][CallNext]_callVars

\* The kernel schedules the program and its children, and a command ends.  No
\* wait has to fail.
CallFairness ==
    /\ WF_callVars(Goes)
    /\ \A k \in Pids : WF_callVars(ChildStep(k))

FairCallSpec == CallSpec /\ CallFairness

-----------------------------------------------------------------------------
(***************************************************************************)
(* "@return true if the command [...] was executed successfully [...],     *)
(* false if an error occurred, [...] or if a non-zero return value was     *)
(* returned by the command" (systemcalls.c:9-12, 43-46; 48-51 of           *)
(* systemcalls_1.c): whichever function it is, and whatever else failed.   *)
(***************************************************************************)
TrueMeansExecuted == returned = "true" => outcome = "ok"

\* The functions that look at the exit status of what they waited for: do_exec
\* and do_exec_redirect of systemcalls.c, do_system of systemcalls_1.c.
LooksAtStatus == IF call = "system" THEN OpensFirst ELSE ~OpensFirst

(***************************************************************************)
(* Of those the promise holds, but it is the status of the right child     *)
(* only while the program has no other one and wait does not fail          *)
(* (systemcalls.c:86-93, 152-160, systemcalls_1.c:31-37).                  *)
(***************************************************************************)
TrueMeansSuccess ==
    returned = "true" /\ LooksAtStatus /\ (call # "system" => sole) => outcome = "ok"

(***************************************************************************)
(* A call that found no child leaves none behind, whatever it returns, but *)
(* for the one that do_exec_redirect has forked when it cannot open the    *)
(* file and nobody waits for (systemcalls.c:127-135); and its wait must    *)
(* not fail.                                                               *)
(***************************************************************************)
NothingLeft ==
    returned # "none" /\ call # "system" /\ sole =>
        \A k \in Pids : kids[k] = "none" \/ (k = kid /\ outcome = "none")

(***************************************************************************)
(* "The full path to the file to write with command output"                *)
(* (systemcalls.c:100): when do_exec_redirect returns true, the file holds *)
(* what the command wrote.                                                 *)
(***************************************************************************)
OutputKept ==
    returned = "true" /\ call = "redirect" /\ sole =>
        \A i \in 1 .. offset[kid] : file[i] = kid

(***************************************************************************)
(* It does if the file is opened before the fork (systemcalls_1.c:153).    *)
(***************************************************************************)
OutputKeptIfOpenedFirst == OpensFirst => OutputKept

(***************************************************************************)
(* Every call returns or ends the program, unless do_exec_redirect of      *)
(* systemcalls.c waits for the copy of the program that its child has      *)
(* become (132-135).                                                       *)
(***************************************************************************)
WaitsForClone ==
    /\ call = "redirect" /\ ~OpensFirst
    /\ \E k \in Pids : k = kid /\ kids[k] = "clone"

CallEnds == pc \in {"fork", "open", "wait"} ~> pc \in {"idle", "exit"} \/ WaitsForClone
=============================================================================
