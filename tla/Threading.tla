------------------------------ MODULE Threading -----------------------------
(***************************************************************************)
(* start_thread_obtaining_mutex of examples/threading and the threads it   *)
(* starts: each sleeps, takes the mutex, sleeps, gives it back and leaves  *)
(* word of how that went in the thread_data it returns.  Their user is the *)
(* one threading.h describes: it starts some threads on one mutex, joins   *)
(* them, looks at thread_complete_success and frees the memory.            *)
(***************************************************************************)
CONSTANTS
    Threads,        \* the threads of a round
    NoThread,
    MutexMayFail    \* pthread_mutex_lock and _unlock may return an error

ASSUME ThreadingAssumption ==
    /\ NoThread \notin Threads
    /\ MutexMayFail \in BOOLEAN

VARIABLES
    joining,        \* the user has begun to join
    thread,         \* per thread: where it is
    data,           \* per thread: thread_complete_success, or that there is no
                    \* thread_data, or that nobody has set it
    mutex,          \* the thread that holds the mutex
    reported        \* history: the user has seen a thread that did not succeed

tvars == <<joining, thread, data, mutex, reported>>

TInit ==
    /\ joining = FALSE
    /\ thread = [t \in Threads |-> "none"]
    /\ data = [t \in Threads |-> "none"]
    /\ mutex = NoThread
    /\ reported = FALSE

-----------------------------------------------------------------------------
(* The user.                                                               *)

Start(t) ==
    /\ ~joining /\ thread[t] = "none"
    /\ thread' = [thread EXCEPT ![t] = "obtain"]
    /\ data' = [data EXCEPT ![t] = "unset"]
    /\ UNCHANGED <<joining, mutex, reported>>

\* malloc or pthread_create fails; in the second case the thread_data is lost.
StartFails(t) ==
    /\ ~joining /\ thread[t] = "none"
    /\ UNCHANGED tvars

Join(t) ==
    /\ thread[t] = "done"
    /\ joining' = \E u \in Threads \ {t} : thread[u] # "none"
    /\ thread' = [thread EXCEPT ![t] = "none"]
    /\ data' = [data EXCEPT ![t] = "none"]
    /\ reported' = (reported \/ data[t] = "failed")
    /\ UNCHANGED mutex

-----------------------------------------------------------------------------
(* A thread.                                                               *)

ThreadGoes(t, from, to) ==
    /\ thread[t] = from
    /\ thread' = [thread EXCEPT ![t] = to]
    /\ UNCHANGED <<joining, reported>>

Returns(t, flag) == data' = [data EXCEPT ![t] = flag]

Obtain(t) ==
    /\ mutex = NoThread
    /\ ThreadGoes(t, "obtain", "hold")
    /\ mutex' = t
    /\ UNCHANGED data

ObtainFails(t) ==
    /\ MutexMayFail
    /\ ThreadGoes(t, "obtain", "done")
    /\ Returns(t, "failed")
    /\ UNCHANGED mutex

\* Mutant: the mutex is not released.
Release_Not(t) ==
    /\ ThreadGoes(t, "hold", "done")
    /\ Returns(t, "success")
    /\ UNCHANGED mutex

Release(t) ==
    /\ ThreadGoes(t, "hold", "done")
    /\ Returns(t, "success")
    /\ mutex' = NoThread

\* Mutant: the thread reports success whatever unlock returns.
ReleaseFails_Success(t) ==
    /\ MutexMayFail
    /\ ThreadGoes(t, "hold", "done")
    /\ Returns(t, "success")
    /\ UNCHANGED mutex

\* The mutex stays as it is.
ReleaseFails(t) ==
    /\ MutexMayFail
    /\ ThreadGoes(t, "hold", "done")
    /\ Returns(t, "failed")
    /\ UNCHANGED mutex

Proceeds(t) == Obtain(t) \/ Release(t) \/ ReleaseFails(t)
ThreadStep(t) == Proceeds(t) \/ ObtainFails(t)

TNext == \E t \in Threads : Start(t) \/ StartFails(t) \/ Join(t) \/ ThreadStep(t)

TSpec == TInit /\ [][TNext]_tvars

\* Threads are scheduled and their sleeps end.  No lock has to fail.
TFairness == \A t \in Threads : WF_tvars(Proceeds(t))

-----------------------------------------------------------------------------
TTypeOK ==
    /\ joining \in BOOLEAN
    /\ thread \in [Threads -> {"none", "obtain", "hold", "done"}]
    /\ data \in [Threads -> {"none", "unset", "success", "failed"}]
    /\ mutex \in Threads \cup {NoThread}
    /\ reported \in BOOLEAN

HeldByNobody(t) == mutex = t /\ thread[t] # "hold"

Failed == reported \/ \E t \in Threads : data[t] = "failed"

(***************************************************************************)
(* A mutex that no running thread holds is free, unless a thread reports   *)
(* or has reported that it did not succeed (threading.c:32-42): its user,  *)
(* who sees thread_complete_success only, may rely on that.                *)
(***************************************************************************)
SuccessFreesMutex == (\E t \in Threads : HeldByNobody(t)) => Failed

(***************************************************************************)
(* No two threads are between the lock and the unlock (threading.c:24-32). *)
(***************************************************************************)
OneHolds == \A t, u \in Threads : thread[t] = "hold" /\ thread[u] = "hold" => t = u

(***************************************************************************)
(* Every thread has its thread_data until it is joined, and what it leaves *)
(* there is set when it is done (threading.c:68-77, 41-45).                *)
(***************************************************************************)
DataWhileRunning ==
    \A t \in Threads :
        /\ thread[t] = "none" => data[t] = "none"
        /\ thread[t] \in {"obtain", "hold"} => data[t] = "unset"
        /\ thread[t] = "done" => data[t] \in {"success", "failed"}

(***************************************************************************)
(* Every thread that was started ends, unless some thread reports failure  *)
(* (threading.c:24-45).                                                    *)
(***************************************************************************)
ThreadsEnd == \A t \in Threads : thread[t] = "obtain" ~> thread[t] = "done" \/ Failed
=============================================================================
