-------------------------- MODULE AesdSocketProofs --------------------------
(***************************************************************************)
(* Safety of the server's threads for every set of nodes and signals.  It  *)
(* rests on there being one connection at a time: whatever main, the       *)
(* thread and the handlers do, they do it to the node that main allocated  *)
(* last.                                                                   *)
(***************************************************************************)
EXTENDS AesdSocket, TLAPS

Quiet == \A t \in Threads : taken[t] = {}

\* A thread that is past its unlock has left nothing behind in the device.
InDevice  == {"open", "recv", "send", "unlock"}
HasFile   == {"recv", "send"}
HasSocket == {"none", "lock", "open", "recv", "send", "unlock", "close"}
UsesData  == {"lock", "open", "recv", "send", "unlock", "close", "clear"}

ThreadInv ==
    \A n \in Nodes :
        /\ g_mutex = n <=> worker[n] \in InDevice
        /\ n \in logFiles => worker[n] \in HasFile
        /\ n \in sockets => worker[n] \in HasSocket
        /\ worker[n] \in UsesData => clientSocketFd[n] /\ n \in nodes

\* g_datap is the node in play, and the list holds it or nothing.
OneNode ==
    /\ g_head = << >> \/ (g_head = <<g_datap>> /\ g_datap \in nodes)
    /\ g_datap \in Nodes =>
          \A m \in Nodes \ {g_datap} : worker[m] = "none" /\ m \notin nodes /\ m \notin sockets
    /\ \A m, n \in sockets : m = n

Clean ==
    /\ g_head = << >> /\ nodes = {} /\ sockets = {} /\ g_threadCount = 0
    /\ \A n \in Nodes : worker[n] = "none"

\* What main relies on until a signal comes.
MainInv ==
    Quiet =>
        /\ main = "accept" => Clean
        /\ main = "create" =>
              /\ g_head = << >> /\ nodes = {g_datap} /\ g_threadCount = 0
              /\ clientSocketFd[g_datap]
              /\ \A n \in Nodes : worker[n] = "none"
        /\ main \in {"count", "insert"} =>
              /\ g_head = << >> /\ nodes = {g_datap} /\ worker[g_datap] # "none"
              /\ g_threadCount = IF main = "count" THEN 0 ELSE 1
        /\ main = "while" /\ g_head = << >> => Clean
        /\ main \in {"check", "join"} => g_head # << >>
        /\ g_head # << >> =>
              nodes = {g_datap} /\ worker[g_datap] # "none" /\ g_threadCount = 1

\* Only main's handler joins, and a handler frees a node only when its thread is
\* past all use of it.
HandlerInv ==
    /\ \A t \in Threads : handler[t] # "off" <=> taken[t] # {}
    /\ taken[Main] = {} => Quiet
    /\ handler[Main] = "while" /\ g_head # << >> => g_threadCount > 0
    /\ handler[Main] \in {"first", "check", "join"} => g_threadCount > 0
    /\ \A n \in Nodes : handler[n] # "off" => worker[n] \notin Gone /\ handler[n] # "join"
    /\ \A t \in Threads : handler[t] = "remove" =>
          \A n \in Nodes : worker[n] \notin UsesData
    /\ (\A n \in Nodes : taken[n] = {}) =>
          /\ handler[Main] \in {"first", "check", "join", "remove"} => g_head # << >>
          /\ status # "crashed"

IInv == TypeOK /\ ThreadInv /\ OneNode /\ MainInv /\ HandlerInv

-----------------------------------------------------------------------------
(* Every step keeps it.                                                    *)

LEMMA MainKeepsIInv ==
    ASSUME IInv, MainStep \/ \E n \in Nodes : Accept(n)
    PROVE  IInv'
<1> USE ThreadsAssumption
    DEF IInv, TypeOK, ThreadInv, OneNode, MainInv, HandlerInv, Quiet, Clean,
           Threads, Gone, InDevice, HasFile, HasSocket, UsesData, list, work, sigs, vars,
        Runs, MainAt
<1>1. ASSUME NEW n \in Nodes, Accept(n) PROVE IInv'
  <2> USE <1>1 DEF Accept
  <2>1. TypeOK' /\ ThreadInv'   OBVIOUS
  <2>2. OneNode'                 OBVIOUS
  <2>3. MainInv'                 OBVIOUS
  <2>4. HandlerInv'              OBVIOUS
  <2>q. QED BY <2>1, <2>2, <2>3, <2>4
<1>2. CASE Create       BY <1>2 DEF Create
<1>3. CASE CountThread  BY <1>3 DEF CountThread
<1>4. CASE Insert
  <2> USE <1>4 DEF Insert
  <2>1. g_datap \in nodes /\ g_head' = <<g_datap>>
    <3>1. nodes = {g_datap} /\ g_head = << >>
      OBVIOUS
    <3>2. g_datap \in Nodes => <<g_datap>> \o << >> = <<g_datap>>
      OBVIOUS
    <3>q. QED BY <3>1, <3>2
  <2>2. TypeOK' /\ ThreadInv'   BY <2>1
  <2>3. OneNode'                 BY <2>1
  <2>4. MainInv' /\ HandlerInv' BY <2>1
  <2>q. QED BY <2>2, <2>3, <2>4
<1>5. CASE While        BY <1>5 DEF While
<1>6. CASE Check        BY <1>6 DEF Check
<1>7. CASE Reap
  <2> USE <1>7 DEF Reap
  <2>1. g_head = <<g_datap>> /\ nodes = {g_datap} /\ g_threadCount = 1 /\ g_head' = << >>
    OBVIOUS
  <2>2. TypeOK' /\ ThreadInv'   BY <2>1
  <2>3. OneNode'                 BY <2>1
  <2>4. MainInv' /\ HandlerInv' BY <2>1
  <2>q. QED BY <2>2, <2>3, <2>4
<1>q. QED BY <1>1, <1>2, <1>3, <1>4, <1>5, <1>6, <1>7 DEF MainStep

LEMMA ThreadKeepsIInv ==
    ASSUME IInv, NEW n \in Nodes, ThreadStep(n)
    PROVE  IInv'
<1> USE ThreadsAssumption
    DEF IInv, TypeOK, ThreadInv, OneNode, MainInv, HandlerInv, Quiet, Clean,
           Threads, Gone, InDevice, HasFile, HasSocket, UsesData, list, work, sigs, vars,
        Runs, ThreadAt
<1>1. CASE LockMutex(n)    BY <1>1 DEF LockMutex
<1>2. CASE OpenLog(n)      BY <1>2 DEF OpenLog
<1>3. CASE Receive(n)      BY <1>3 DEF Receive
<1>4. CASE Send(n)         BY <1>4 DEF Send
<1>5. CASE CloseLog(n)     BY <1>5 DEF CloseLog
<1>6. CASE UnlockMutex(n)  BY <1>6 DEF UnlockMutex
<1>7. CASE CloseSocket(n)  BY <1>7 DEF CloseSocket
<1>8. CASE ClearFd(n)      BY <1>8 DEF ClearFd
<1>9. CASE Return(n)       BY <1>9 DEF Return
<1>q. QED
  BY <1>1, <1>2, <1>3, <1>4, <1>5, <1>6, <1>7, <1>8, <1>9 DEF ThreadStep

LEMMA HandlerKeepsIInv ==
    ASSUME IInv, NEW t \in Threads, HandlerStep(t)
    PROVE  IInv'
<1> USE ThreadsAssumption
    DEF IInv, TypeOK, ThreadInv, OneNode, MainInv, HandlerInv, Quiet, Clean,
           Threads, Gone, InDevice, HasFile, HasSocket, UsesData, list, work, sigs, vars,
        HandlerAt, Exit
<1>1. CASE HCount(t)       BY <1>1 DEF HCount
<1>2. CASE HWhile(t)       BY <1>2 DEF HWhile
<1>3. CASE HFirst(t)       BY <1>3 DEF HFirst
<1>4. CASE HCheck(t)       BY <1>4 DEF HCheck
<1>5. CASE HCheckNull(t)   BY <1>5 DEF HCheckNull
<1>6. CASE HJoinFails(t)   BY <1>6 DEF HJoinFails
<1>7. CASE HJoin(t)        BY <1>7 DEF HJoin
<1>8. CASE HRemoveTwice(t) BY <1>8 DEF HRemoveTwice
<1>9. CASE HFinish(t)      BY <1>9 DEF HFinish
<1>10. CASE HRemove(t)
  <2> USE <1>10 DEF HRemove
  <2>1. g_head = <<g_datap>> /\ g_datap \in nodes /\ g_head' = << >>
    OBVIOUS
  <2>2. TypeOK' /\ ThreadInv'   BY <2>1
  <2>3. OneNode'                 BY <2>1
  <2>4. MainInv'                 BY <2>1
  <2>5. HandlerInv'              BY <2>1
  <2>q. QED BY <2>2, <2>3, <2>4, <2>5
<1>q. QED
  BY <1>1, <1>2, <1>3, <1>4, <1>5, <1>6, <1>7, <1>8, <1>9, <1>10 DEF HandlerStep

LEMMA StepKeepsIInv == IInv /\ [Next]_vars => IInv'
<1> SUFFICES ASSUME IInv, [Next]_vars PROVE IInv'
  OBVIOUS
<1>1. ASSUME NEW t \in Threads, NEW s \in Signals, Signal(t, s) PROVE IInv'
  BY <1>1, ThreadsAssumption
     DEF Signal, Alive, IInv, TypeOK, ThreadInv, OneNode, MainInv, HandlerInv, Quiet, Clean,
           Threads, Gone, InDevice, HasFile, HasSocket, UsesData, list, work, sigs, vars
<1>2. ASSUME NEW n \in Nodes, Fails \/ ClientLeaves(n) PROVE IInv'
  BY <1>2, ThreadsAssumption
     DEF Fails, ClientLeaves, Exit, Runs, IInv, TypeOK, ThreadInv, OneNode, MainInv, HandlerInv, Quiet, Clean,
           Threads, Gone, InDevice, HasFile, HasSocket, UsesData, list, work, sigs, vars
<1>3. CASE UNCHANGED vars
  BY <1>3 DEF IInv, TypeOK, ThreadInv, OneNode, MainInv, HandlerInv, Quiet, Clean,
           Threads, Gone, InDevice, HasFile, HasSocket, UsesData, list, work, sigs, vars
<1>4. CASE Fails
  BY <1>4, ThreadsAssumption
     DEF Fails, Exit, Runs, IInv, TypeOK, ThreadInv, OneNode, MainInv, HandlerInv, Quiet, Clean,
           Threads, Gone, InDevice, HasFile, HasSocket, UsesData, list, work, sigs, vars
<1>q. QED
  BY <1>1, <1>2, <1>3, <1>4, MainKeepsIInv, ThreadKeepsIInv, HandlerKeepsIInv DEF Next

LEMMA Invariance == Spec => []IInv
<1>1. Init => IInv
  BY ThreadsAssumption DEF Init, IInv, TypeOK, ThreadInv, OneNode, MainInv, HandlerInv, Quiet, Clean,
           Threads, Gone, InDevice, HasFile, HasSocket, UsesData, list, work, sigs, vars
<1>q. QED BY <1>1, StepKeepsIInv, PTL DEF Spec

-----------------------------------------------------------------------------
(* What follows from it.                                                   *)

(***************************************************************************)
(* Every variable keeps its type; in particular g_threadCount, which main  *)
(* and the handler both decrement, never gets below zero.                  *)
(***************************************************************************)
THEOREM ServerTypeCorrect == Spec => []TypeOK
<1>1. IInv => TypeOK  BY DEF IInv
<1>q. QED BY <1>1, Invariance, PTL

(***************************************************************************)
(* No two threads of the server are in the driver (202-206, 271-277).      *)
(***************************************************************************)
THEOREM DeviceCorrect == Spec => []DeviceUnderMutex
<1>1. IInv => DeviceUnderMutex
  BY DEF IInv, TypeOK, ThreadInv, HasFile, InDevice, DeviceUnderMutex
<1>q. QED BY <1>1, Invariance, PTL

(***************************************************************************)
(* Neither main nor a handler frees what a thread uses (97-110, 485-491).  *)
(***************************************************************************)
THEOREM DataCorrect == Spec => []ThreadKeepsItsData
<1>1. IInv => ThreadKeepsItsData
  BY DEF IInv, TypeOK, ThreadInv, UsesData, Gone, ThreadKeepsItsData
<1>q. QED BY <1>1, Invariance, PTL

(***************************************************************************)
(* A first signal finds every listed node counted (93).                    *)
(***************************************************************************)
THEOREM CountCorrect == Spec => []ListedIsCounted
<1>1. IInv => ListedIsCounted
  BY DEF IInv, MainInv, Quiet, ListedIsCounted
<1>q. QED BY <1>1, Invariance, PTL

(***************************************************************************)
(* main accepts a connection only when nothing is left of the one before   *)
(* (447-495).                                                              *)
(***************************************************************************)
THEOREM AcceptCorrect == Spec => []AcceptsClean
<1>1. ASSUME IInv PROVE AcceptsClean
  <2> SUFFICES ASSUME main = "accept", Quiet
               PROVE  Clean /\ logFiles = {} /\ g_mutex = None
    BY DEF AcceptsClean, Clean, Quiet
  <2>1. Clean
    BY <1>1 DEF IInv, MainInv
  <2>q. QED
    BY <1>1, <2>1 DEF IInv, TypeOK, ThreadInv, Clean, InDevice, HasFile
<1>q. QED BY <1>1, Invariance, PTL

(***************************************************************************)
(* As long as all signals reach main, its handler follows no stale pointer *)
(* (87-139).                                                               *)
(***************************************************************************)
THEOREM HandlerCorrect == Spec => []NotCrashed
<1>1. IInv => NotCrashed
  BY DEF IInv, TypeOK, HandlerInv, Threads, NotCrashed
<1>q. QED BY <1>1, Invariance, PTL

(***************************************************************************)
(* The server implements the service with one client at a time.            *)
(***************************************************************************)
THEOREM ServesOneAtATime == Spec => ImplementsSerialService
<1> DEFINE serving == IF sockets = {} THEN None ELSE CHOOSE n \in sockets : TRUE
           stays   == sockets' = sockets /\ status' = status
<1>1. Init => Service!Init
  BY DEF Init, Service!Init
<1>2. IInv /\ [Next]_vars => Service!Next \/ stays
  <2> HAVE IInv /\ [Next]_vars
  <2>1. ASSUME NEW n \in Nodes, Accept(n) PROVE Service!Next
    <3>1. sockets = {} /\ sockets' = {n} /\ status = "up" /\ status' = "up"
      BY <2>1 DEF Accept, MainAt, Runs, IInv, MainInv, HandlerInv, Clean, Threads
    <3>q. QED BY <3>1 DEF Service!Next, Service!Begin
  <2>2. CASE MainStep
    BY <2>2 DEF MainStep, Create, CountThread, Insert, While, Check, Reap, MainAt, work
  <2>3. ASSUME NEW n \in Nodes, CloseSocket(n) PROVE Service!Next \/ stays
    <3>1. /\ sockets' = {} \/ sockets' = sockets
          /\ status = "up" /\ status' = "up"
      BY <2>3 DEF CloseSocket, ThreadAt, Runs, IInv, OneNode
    <3>q. QED BY <3>1 DEF Service!Next, Service!End
  <2>4. ASSUME NEW n \in Nodes, ThreadStep(n), ~CloseSocket(n) PROVE stays
    BY <2>4 DEF ThreadStep, LockMutex, OpenLog, Receive, Send, CloseLog, UnlockMutex,
                ClearFd, Return, ThreadAt
  <2>5. ASSUME status = "up", NEW how, how # "up", Exit(how) PROVE Service!Next
    BY <2>5 DEF Exit, work, Service!Next, Service!Stop
  <2>6. CASE Fails
    BY <2>5, <2>6 DEF Fails, Runs
  <2>7. ASSUME NEW n \in Nodes, ClientLeaves(n) PROVE Service!Next
    BY <2>5, <2>7 DEF ClientLeaves, Runs
  <2>8. ASSUME NEW t \in Threads, NEW s \in Signals, Signal(t, s) PROVE stays
    BY <2>8 DEF Signal, work
  <2>9. ASSUME NEW t \in Threads, HandlerStep(t) PROVE Service!Next \/ stays
    <3>1. CASE HCheckNull(t) \/ HJoinFails(t) \/ HRemoveTwice(t) \/ HFinish(t)
      BY <2>5, <3>1 DEF HCheckNull, HJoinFails, HRemoveTwice, HFinish
    <3>2. CASE HCount(t) \/ HWhile(t) \/ HFirst(t) \/ HCheck(t) \/ HJoin(t) \/ HRemove(t)
      BY <3>2 DEF HCount, HWhile, HFirst, HCheck, HJoin, HRemove, HandlerAt
    <3>q. QED BY <2>9, <3>1, <3>2 DEF HandlerStep
  <2>10. CASE UNCHANGED vars
    BY <2>10 DEF vars, work
  <2>q. QED
    BY <2>1, <2>2, <2>3, <2>4, <2>6, <2>7, <2>8, <2>9, <2>10 DEF Next
<1>3. IInv /\ [Next]_vars => [Service!Next]_<<serving, status = "up">>
  <2> HAVE IInv /\ [Next]_vars
  <2>1. Service!Next \/ stays
    BY <1>2
  <2>2. stays => serving' = serving /\ (status' = "up") = (status = "up")
    OBVIOUS
  <2> HIDE DEF serving, stays
  <2>q. QED BY <2>1, <2>2
<1>q. QED
  BY <1>1, <1>3, Invariance, PTL DEF Spec, ImplementsSerialService, Service!Spec
=============================================================================
