----------------------------- MODULE AesdSocket -----------------------------
(***************************************************************************)
(* The threads of server/aesdsocket.c, built with USE_AESD_CHAR_DEVICE:    *)
(* main, which accepts a connection, starts a thread for it and looks for  *)
(* threads to join; the threads; and the handler of SIGTERM and SIGINT,    *)
(* which runs in the middle of any of them and never returns.              *)
(*                                                                         *)
(* A connection and its thread are named after the slist_data_t that main  *)
(* allocates for them; malloc hands out a node again once it is freed.     *)
(* What is sent and stored is left to AesdChar.                            *)
(***************************************************************************)
EXTENDS Naturals, Sequences, FiniteSets

CONSTANTS
    Nodes,          \* what malloc returns for an slist_data_t
    Main,           \* the thread that runs main
    None,           \* a NULL pointer, an unlocked mutex
    Signals,        \* SIGTERM and SIGINT
    Repeats,        \* a signal may reach another thread while main handles one
    MaxReads,       \* bound: reads of the device that return data
    CallsMayFail    \* a system call may fail, a client may leave

ASSUME ThreadsAssumption ==
    /\ Main \notin Nodes /\ None \notin Nodes \cup {Main}
    /\ Signals \subseteq {"SIGTERM", "SIGINT"}
    /\ MaxReads \in Nat /\ Repeats \in BOOLEAN /\ CallsMayFail \in BOOLEAN

VARIABLES
    status,         \* "up", "exit" (exit was called), "crashed" (a stale or NULL
                    \* pointer was followed), "SIGPIPE" (killed by one)
    main,           \* where main is
    g_head,         \* the list of nodes
    g_threadCount,
    g_datap,
    g_mutex,        \* the thread that holds it
    nodes,          \* allocated nodes
    clientSocketFd, \* per node: is tparms.clientSocketFd >= 0
    worker,         \* per node: where its thread is
    unread,         \* per node: reads that still return data
    joining,        \* per node: pthread_join was called for its thread
    sockets,        \* connections that are open
    logFiles,       \* threads that have the device open
    handler,        \* per thread: where its signal handler is
    taken           \* per thread: the signals it handles

list == <<g_head, g_threadCount, g_datap, nodes, clientSocketFd, joining>>
work == <<worker, unread, g_mutex, sockets, logFiles>>
sigs == <<handler, taken>>
vars == <<status, main, list, work, sigs>>

Threads == Nodes \cup {Main}
Gone    == {"none", "gone"}     \* no thread, or one that returned and was not joined

Init ==
    /\ status = "up"
    /\ main = "accept"
    /\ g_head = << >>
    /\ g_threadCount = 0
    /\ g_datap = None
    /\ g_mutex = None
    /\ nodes = {}
    /\ clientSocketFd = [n \in Nodes |-> FALSE]
    /\ worker = [n \in Nodes |-> "none"]
    /\ unread = [n \in Nodes |-> 0]
    /\ joining = [n \in Nodes |-> FALSE]
    /\ sockets = {}
    /\ logFiles = {}
    /\ handler = [t \in Threads |-> "off"]
    /\ taken = [t \in Threads |-> {}]

Runs(t) == status = "up" /\ handler[t] = "off"

Exit(how) == status' = how /\ UNCHANGED <<main, list, work, sigs>>

-----------------------------------------------------------------------------
(* main, from line 447 on.                                                 *)

MainAt(from, to) == Runs(Main) /\ main = from /\ main' = to

\* accept, malloc and the fields of the node.
Accept(n) ==
    /\ MainAt("accept", "create")
    /\ n \notin nodes /\ worker[n] = "none"
    /\ nodes' = nodes \cup {n}
    /\ g_datap' = n
    /\ clientSocketFd' = [clientSocketFd EXCEPT ![n] = TRUE]
    /\ joining' = [joining EXCEPT ![n] = FALSE]
    /\ sockets' = sockets \cup {n}
    /\ UNCHANGED <<status, g_head, g_threadCount, worker, unread, g_mutex, logFiles, sigs>>

Create ==
    /\ MainAt("create", "count")
    /\ worker' = [worker EXCEPT ![g_datap] = "lock"]
    /\ UNCHANGED <<status, list, unread, g_mutex, sockets, logFiles, sigs>>

\* Mutant: the thread is not counted before it is listed.
CountThread_Later ==
    /\ MainAt("count", "insert")
    /\ UNCHANGED <<status, list, work, sigs>>

CountThread ==
    /\ MainAt("count", "insert")
    /\ g_threadCount' = g_threadCount + 1
    /\ UNCHANGED <<status, g_head, g_datap, nodes, clientSocketFd, joining, work, sigs>>

Insert ==
    /\ MainAt("insert", "while")
    /\ g_head' = <<g_datap>> \o g_head
    /\ UNCHANGED <<status, g_threadCount, g_datap, nodes, clientSocketFd, joining, work, sigs>>

\* Lines 483 and 484.
While ==
    /\ MainAt("while", IF g_head = << >> THEN "accept" ELSE "check")
    /\ g_datap' = IF g_head = << >> THEN g_datap ELSE Head(g_head)
    /\ UNCHANGED <<status, g_head, g_threadCount, nodes, clientSocketFd, joining, work, sigs>>

\* Mutant: main does not wait for threads that are not done.
Check_NoWait ==
    /\ MainAt("check", "accept")
    /\ UNCHANGED <<status, list, work, sigs>>

\* Line 485: a thread that still runs is joined, a thread that is done is left
\* in the list, and main looks at it again.
Check ==
    /\ MainAt("check", IF clientSocketFd[g_datap] THEN "join" ELSE "while")
    /\ joining' = [joining EXCEPT ![g_datap] = clientSocketFd[g_datap]]
    /\ UNCHANGED <<status, g_head, g_threadCount, g_datap, nodes, clientSocketFd, work, sigs>>

\* Lines 486-492: the thread has returned and is taken off the list.
Reap ==
    /\ MainAt("join", "while")
    /\ worker[g_datap] = "gone"
    /\ worker' = [worker EXCEPT ![g_datap] = "none"]
    /\ g_head' = Tail(g_head)
    /\ nodes' = nodes \ {g_datap}
    /\ g_threadCount' = g_threadCount - 1
    /\ UNCHANGED <<status, g_datap, clientSocketFd, joining, unread, g_mutex, sockets, logFiles, sigs>>

MainStep ==
    \/ Create \/ CountThread \/ Insert
    \/ While \/ Check \/ Reap

-----------------------------------------------------------------------------
(* sendAndReceiveThread.                                                   *)

ThreadAt(n, from, to) ==
    /\ Runs(n)
    /\ worker[n] = from
    /\ worker' = [worker EXCEPT ![n] = to]
    /\ UNCHANGED <<status, main, g_head, g_threadCount, g_datap, nodes, joining, sigs>>

\* Mutant: the lock is not taken.
LockMutex_Not(n) ==
    /\ ThreadAt(n, "lock", "open")
    /\ UNCHANGED <<clientSocketFd, unread, g_mutex, sockets, logFiles>>

LockMutex(n) ==
    /\ ThreadAt(n, "lock", "open")
    /\ g_mutex = None
    /\ g_mutex' = n
    /\ UNCHANGED <<clientSocketFd, unread, sockets, logFiles>>

OpenLog(n) ==
    /\ ThreadAt(n, "open", "recv")
    /\ logFiles' = logFiles \cup {n}
    /\ UNCHANGED <<clientSocketFd, unread, g_mutex, sockets>>

\* Lines 220-250: the client ends its packet, or its side of the connection.
\* What it sends before that is written, or is a seek, and recv waits again.
Receive(n) ==
    /\ ThreadAt(n, "recv", "send")
    /\ \E reads \in 0 .. MaxReads : unread' = [unread EXCEPT ![n] = reads]
    /\ UNCHANGED <<clientSocketFd, g_mutex, sockets, logFiles>>

Send(n) ==
    /\ ThreadAt(n, "send", "send")
    /\ unread[n] > 0
    /\ unread' = [unread EXCEPT ![n] = @ - 1]
    /\ UNCHANGED <<clientSocketFd, g_mutex, sockets, logFiles>>

CloseLog(n) ==
    /\ ThreadAt(n, "send", "unlock")
    /\ unread[n] = 0
    /\ logFiles' = logFiles \ {n}
    /\ UNCHANGED <<clientSocketFd, unread, g_mutex, sockets>>

\* Mutant: the lock is kept.
UnlockMutex_Not(n) ==
    /\ ThreadAt(n, "unlock", "close")
    /\ UNCHANGED <<clientSocketFd, unread, g_mutex, sockets, logFiles>>

UnlockMutex(n) ==
    /\ ThreadAt(n, "unlock", "close")
    /\ g_mutex' = None
    /\ UNCHANGED <<clientSocketFd, unread, sockets, logFiles>>

\* Mutant: the connection is marked as closed and stays open.
CloseSocket_Not(n) ==
    /\ ThreadAt(n, "close", "clear")
    /\ UNCHANGED <<clientSocketFd, unread, g_mutex, sockets, logFiles>>

CloseSocket(n) ==
    /\ ThreadAt(n, "close", "clear")
    /\ sockets' = sockets \ {n}
    /\ UNCHANGED <<clientSocketFd, unread, g_mutex, logFiles>>

ClearFd(n) ==
    /\ ThreadAt(n, "clear", "return")
    /\ clientSocketFd' = [clientSocketFd EXCEPT ![n] = FALSE]
    /\ UNCHANGED <<unread, g_mutex, sockets, logFiles>>

Return(n) ==
    /\ ThreadAt(n, "return", "gone")
    /\ UNCHANGED <<clientSocketFd, unread, g_mutex, sockets, logFiles>>

ThreadStep(n) ==
    \/ LockMutex(n) \/ OpenLog(n) \/ Receive(n) \/ Send(n) \/ CloseLog(n)
    \/ UnlockMutex(n) \/ CloseSocket(n) \/ ClearFd(n) \/ Return(n)

-----------------------------------------------------------------------------
(* A call that fails ends the process in checkerr; a client that is gone   *)
(* ends it with SIGPIPE.                                                   *)

Fails ==
    /\ CallsMayFail
    /\ \/ Runs(Main) /\ main \in {"accept", "create"}
       \/ \E n \in Nodes : Runs(n) /\ worker[n] \in {"open", "recv", "send"}
    /\ Exit("exit")

ClientLeaves(n) ==
    /\ CallsMayFail
    /\ Runs(n) /\ worker[n] = "send" /\ unread[n] > 0
    /\ Exit("SIGPIPE")

-----------------------------------------------------------------------------
(* sigHandlerFunction.                                                     *)

Alive == {n \in Nodes : worker[n] \notin Gone}

\* The kernel gives a signal to the main thread, unless that has it blocked, which
\* is while it handles it, or has not yet got another one: then any thread may
\* get it.  The other signal is not blocked, and since the handler never returns,
\* to be interrupted is to start again.
Signal(t, s) ==
    /\ status = "up"
    /\ t = Main \/ (Repeats /\ t \in Alive /\ taken[Main] # {})
    /\ s \notin taken[t]
    /\ taken' = [taken EXCEPT ![t] = @ \cup {s}]
    /\ handler' = [handler EXCEPT ![t] = "count"]
    /\ UNCHANGED <<status, main, list, work>>

HandlerAt(t, from, to) ==
    /\ status = "up"
    /\ handler[t] = from
    /\ handler' = [handler EXCEPT ![t] = to]
    /\ UNCHANGED <<status, main, unread, g_mutex, sockets, logFiles, clientSocketFd, taken>>

HCount(t) ==
    /\ HandlerAt(t, "count", IF g_threadCount > 0 THEN "while" ELSE "finish")
    /\ UNCHANGED <<g_head, g_threadCount, g_datap, nodes, joining, worker>>

\* Mutant: the handler does not look whether the list is empty.
HWhile_NoTest(t) ==
    /\ HandlerAt(t, "while", "first")
    /\ UNCHANGED <<g_head, g_threadCount, g_datap, nodes, joining, worker>>

HWhile(t) ==
    /\ HandlerAt(t, "while", IF g_head = << >> THEN "finish" ELSE "first")
    /\ UNCHANGED <<g_head, g_threadCount, g_datap, nodes, joining, worker>>

HFirst(t) ==
    /\ HandlerAt(t, "first", "check")
    /\ g_datap' = IF g_head = << >> THEN None ELSE Head(g_head)
    /\ UNCHANGED <<g_head, g_threadCount, nodes, joining, worker>>

\* Mutant: the thread is not joined.
HCheck_NoJoin(t) ==
    /\ g_datap # None
    /\ HandlerAt(t, "check", "remove")
    /\ UNCHANGED <<g_head, g_threadCount, g_datap, nodes, joining, worker>>

\* Lines 97-102.  A join of the own thread fails (below); a second join of a
\* thread is undefined, and waits like the first or fails.
HCheck(t) ==
    /\ g_datap # None
    /\ clientSocketFd[g_datap] => t # g_datap
    /\ HandlerAt(t, "check", IF clientSocketFd[g_datap] THEN "join" ELSE "remove")
    /\ joining' = [joining EXCEPT ![g_datap] = @ \/ clientSocketFd[g_datap]]
    /\ UNCHANGED <<g_head, g_threadCount, g_datap, nodes, worker>>

HCheckNull(t) ==
    /\ status = "up" /\ handler[t] = "check" /\ g_datap = None
    /\ Exit("crashed")

HJoinFails(t) ==
    /\ status = "up" /\ handler[t] = "check" /\ g_datap # None
    /\ clientSocketFd[g_datap]
    /\ t = g_datap \/ joining[g_datap]
    /\ Exit("exit")

HJoin(t) ==
    /\ g_datap # None
    /\ worker[g_datap] \in Gone
    /\ HandlerAt(t, "join", "remove")
    /\ worker' = [worker EXCEPT ![g_datap] = "none"]
    /\ g_threadCount' = g_threadCount - 1
    /\ UNCHANGED <<g_head, g_datap, nodes, joining>>

\* Lines 108-110.  The close of line 105 is not reached: after a join the
\* thread has cleared clientSocketFd.
HRemove(t) ==
    /\ g_head # << >> /\ g_datap \in nodes
    /\ HandlerAt(t, "remove", "while")
    /\ g_head' = Tail(g_head)
    /\ nodes' = nodes \ {g_datap}
    /\ UNCHANGED <<g_threadCount, g_datap, joining, worker>>

\* Another thread has emptied the list or freed the node already.
HRemoveTwice(t) ==
    /\ status = "up" /\ handler[t] = "remove"
    /\ g_head = << >> \/ g_datap \notin nodes
    /\ Exit("crashed")

\* Mutant: the handler returns.
HFinish_Returns(t) ==
    /\ HandlerAt(t, "finish", "off")
    /\ UNCHANGED <<g_head, g_threadCount, g_datap, nodes, joining, worker>>

HFinish(t) ==
    /\ status = "up" /\ handler[t] = "finish"
    /\ Exit("exit")

HandlerStep(t) ==
    \/ HCount(t) \/ HWhile(t) \/ HFirst(t) \/ HCheck(t) \/ HCheckNull(t)
    \/ HJoinFails(t) \/ HJoin(t) \/ HRemove(t) \/ HRemoveTwice(t) \/ HFinish(t)

-----------------------------------------------------------------------------
Next ==
    \/ MainStep
    \/ \E n \in Nodes : Accept(n) \/ ThreadStep(n) \/ ClientLeaves(n)
    \/ Fails
    \/ \E t \in Threads : (\E s \in Signals : Signal(t, s)) \/ HandlerStep(t)

Spec == Init /\ [][Next]_vars

\* Threads are scheduled, and every client ends its packet or leaves.  Nobody
\* has to connect.
FairSpec ==
    /\ Spec
    /\ WF_vars(MainStep)
    /\ \A n \in Nodes : WF_vars(ThreadStep(n))
    /\ \A t \in Threads : WF_vars(HandlerStep(t))

-----------------------------------------------------------------------------
TypeOK ==
    /\ status \in {"up", "exit", "crashed", "SIGPIPE"}
    /\ main \in {"accept", "create", "count", "insert", "while", "check", "join"}
    /\ g_head \in Seq(Nodes)
    /\ g_threadCount \in Nat
    /\ g_datap \in Nodes \cup {None}
    /\ g_mutex \in Nodes \cup {None}
    /\ nodes \subseteq Nodes
    /\ clientSocketFd \in [Nodes -> BOOLEAN]
    /\ worker \in [Nodes -> Gone \cup {"lock", "open", "recv", "send", "unlock",
                                       "close", "clear", "return"}]
    /\ unread \in [Nodes -> 0 .. MaxReads]
    /\ joining \in [Nodes -> BOOLEAN]
    /\ sockets \subseteq Nodes
    /\ logFiles \subseteq Nodes
    /\ handler \in [Threads -> {"off", "count", "while", "first", "check", "join",
                                "remove", "finish"}]
    /\ taken \in [Threads -> SUBSET Signals]

(***************************************************************************)
(* The device is open in the thread that holds g_mutex and nowhere else,   *)
(* so no two calls of this server meet inside the driver (202-206,         *)
(* 271-277).                                                               *)
(***************************************************************************)
DeviceUnderMutex == logFiles \subseteq {g_mutex}

(***************************************************************************)
(* A node whose thread still uses its thread_data is not freed, neither by *)
(* main nor by the handler (97-110, 485-491).                              *)
(***************************************************************************)
ThreadKeepsItsData ==
    \A n \in Nodes : worker[n] \notin Gone \cup {"return"} => n \in nodes

(***************************************************************************)
(* The handler looks at the list only if g_threadCount is positive (93):   *)
(* a first signal, whenever it comes, finds every listed node counted.  (A *)
(* second one may not: it can come between lines 100 and 108.)             *)
(***************************************************************************)
ListedIsCounted ==
    g_head # << >> /\ (\A t \in Threads : taken[t] = {}) => g_threadCount > 0

(***************************************************************************)
(* When main waits for a connection and no signal has come, nothing is     *)
(* left of the ones before: no socket, device file, lock, node or count    *)
(* (447-495).                                                              *)
(***************************************************************************)
AcceptsClean ==
    main = "accept" /\ (\A t \in Threads : taken[t] = {}) =>
        /\ sockets = {} /\ logFiles = {} /\ g_mutex = None
        /\ nodes = {} /\ g_head = << >> /\ g_threadCount = 0

(***************************************************************************)
(* While all signals reach main, the handler follows no NULL and no freed  *)
(* pointer, wherever it interrupts main and the handler of the other       *)
(* signal, with which it shares g_datap and the list.                      *)
(***************************************************************************)
NotCrashed == status = "crashed" => \E n \in Nodes : taken[n] # {}

(***************************************************************************)
(* A signal ends the process, wherever it interrupts a thread.             *)
(***************************************************************************)
SignalEnds == (\E t \in Threads : taken[t] # {}) ~> status # "up"

(***************************************************************************)
(* A thread that main has found running is joined, and main accepts again, *)
(* unless the process ends first.                                          *)
(***************************************************************************)
JoinEnds == main = "join" ~> main = "accept" \/ status # "up"

(***************************************************************************)
(* "Find threads that are done and join" (482): a thread that is done does *)
(* not stay in the list.                                                   *)
(***************************************************************************)
DoneIsJoined == \A n \in Nodes : worker[n] = "gone" ~> worker[n] = "none"

(***************************************************************************)
(* "Clean up actions on sigint or sigterm" (92): a signal ends the process *)
(* with its list of threads taken apart.                                   *)
(***************************************************************************)
SignalCleansUp == status = "exit" => g_head = << >>

(***************************************************************************)
(* The server implements a service with one client at a time.              *)
(***************************************************************************)
Service == INSTANCE SerialService WITH
               Clients <- Nodes,
               Nobody  <- None,
               serving <- IF sockets = {} THEN None ELSE CHOOSE n \in sockets : TRUE,
               up      <- status = "up"

ImplementsSerialService == Service!Spec
=============================================================================
