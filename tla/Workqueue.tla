----------------------------- MODULE Workqueue ------------------------------
(***************************************************************************)
(* rt-thread/components/drivers/src/workqueue.c: a thread that does the     *)
(* works other threads put on a list.  rt_workqueue_cancel_work_sync waits  *)
(* on a semaphore for the end of the work that is being done; after each    *)
(* work the work thread releases the semaphore until nobody waits for it.   *)
(*                                                                          *)
(* A step is a critical section or the code between two of them.  The work  *)
(* thread tests the list and suspends itself without one, and a caller      *)
(* resumes it outside of the one in which it added the work.  Callers are   *)
(* threads, as in libc/aio/posix_aio.c: with the scheduler locked, in       *)
(* _workqueue_work_completion, none of them runs, and cancelling all works  *)
(* under the same lock is one step.  rt_workqueue_destroy is left out.      *)
(***************************************************************************)
EXTENDS Semaphore

CONSTANTS Works,
          NoWork      \* RT_NULL

ASSUME WorkqueueAssumption == NoWork \notin Works

VARIABLES
  work_thread,
  work_list,
  work_current,
  wq_at,       \* where the work thread is in _workqueue_thread_entry
  wq_call,     \* where a caller is
  wq_work,     \* the work whose end a caller of cancel_work_sync waits for
  wq_wild      \* the work thread has called what is not a work

wqVars == <<work_thread, work_list, work_current, wq_at, wq_call, wq_work, wq_wild>>

WqTypeOK ==
  /\ work_thread \in Threads
  /\ work_list \in Seq(Works)
  /\ work_current \in Works \cup {NoWork}
  /\ wq_at \in {"test", "suspend", "suspended", "take", "do_work", "clean", "ack"}
  /\ wq_call \in [Threads -> {"out", "resume", "sync"}]
  /\ wq_work \in [Threads -> Works \cup {NoWork}]
  /\ wq_wild \in BOOLEAN

\* rt_workqueue_create; the semaphore has no token.
WqInit ==
  /\ work_thread \in Threads
  /\ work_list = <<>>
  /\ work_current = NoWork
  /\ wq_at = "test"
  /\ wq_call = [t \in Threads |-> "out"]
  /\ wq_work = [t \in Threads |-> NoWork]
  /\ wq_wild = FALSE

-----------------------------------------------------------------------------
(* _workqueue_thread_entry *)

At(from, to) == wq_at = from /\ wq_at' = to

WqTest ==
  /\ At("test", IF work_list = <<>> THEN "suspend" ELSE "take")
  /\ UNCHANGED <<semVars, work_thread, work_list, work_current, wq_call, wq_work, wq_wild>>

\* The list was empty when it was tested: "suspend self".
WqSuspend ==
  /\ At("suspend", "suspended")
  /\ UNCHANGED <<semVars, work_thread, work_list, work_current, wq_call, wq_work, wq_wild>>

\* "we have work to do with"
WqTake ==
  /\ work_list # <<>>
  /\ At("take", "do_work")
  /\ work_current' = Head(work_list)
  /\ work_list' = Tail(work_list)
  /\ UNCHANGED <<semVars, work_thread, wq_call, wq_work, wq_wild>>

\* The list is empty: what rt_list_entry makes of the list head is not a
\* work, and what it holds as work_func is called.  Nothing is known of the
\* system after that.
WqTakeWild ==
  /\ work_list = <<>>
  /\ At("take", "do_work")
  /\ wq_wild' = TRUE
  /\ UNCHANGED <<semVars, work_thread, work_list, work_current, wq_call, wq_work>>

\* work_func returns: "clean current work".
WqClean ==
  /\ At("do_work", "clean")
  /\ work_current' = NoWork
  /\ UNCHANGED <<semVars, work_thread, work_list, wq_call, wq_work, wq_wild>>

\* _workqueue_work_completion: rt_enter_critical
WqLock ==
  /\ At("clean", "ack")
  /\ UNCHANGED <<semVars, work_thread, work_list, work_current, wq_call, wq_work, wq_wild>>

\* "try to take condition semaphore"
WqAckTry ==
  /\ wq_at = "ack"
  /\ SemTakeNow(work_thread) \/ SemTakeRefused(work_thread)
  /\ UNCHANGED wqVars

\* MUTANT of WqAckRelease: the semaphore is released once.
MutWqAckOnce ==
  /\ At("ack", "test")
  /\ sem_call[work_thread] = "take_error"
  /\ sem_waiting # <<>>
  /\ sem_waiting' = Tail(sem_waiting)
  /\ sem_call' = [sem_call EXCEPT ![Head(sem_waiting)] = "taken", ![work_thread] = "out"]
  /\ sem_credit' = sem_credit + 1
  /\ UNCHANGED <<sem_state, sem_value, sem_time, sem_overrun, work_thread, work_list,
                 work_current, wq_call, wq_work, wq_wild>>

\* "it's timeout, release this semaphore"; then it tries again.
WqAckRelease ==
  /\ wq_at = "ack"
  /\ sem_call[work_thread] = "take_error"
  /\ sem_call' = [u \in Threads |->
                    IF u = work_thread THEN "out"
                    ELSE IF sem_waiting # <<>> /\ u = Head(sem_waiting) THEN "taken"
                    ELSE sem_call[u]]
  /\ IF sem_waiting = <<>>
     THEN sem_value' = sem_value + 1 /\ UNCHANGED sem_waiting
     ELSE sem_waiting' = Tail(sem_waiting) /\ UNCHANGED sem_value
  /\ sem_credit' = sem_credit + 1
  /\ UNCHANGED <<sem_state, sem_time, sem_overrun, wqVars>>

\* "keep the sem value = 0"
WqAckDone ==
  /\ At("ack", "test")
  /\ sem_call[work_thread] = "taken"
  /\ SemReturn(work_thread)
  /\ UNCHANGED <<work_thread, work_list, work_current, wq_call, wq_work, wq_wild>>

-----------------------------------------------------------------------------
(* The callers *)

\* A caller that runs: not with the scheduler locked.
Caller(t) == t # work_thread /\ wq_at # "ack"

\* rt_list_remove(&work->list) for work w, which may be on no list.
Without(w) == IF w \in Waiting(work_list) THEN Unlink(work_list, w) ELSE work_list

\* rt_workqueue_dowork and rt_workqueue_critical_work, which add the work at
\* the same end; refused for the work that is being done.
WqDoWork(t, w) ==
  /\ Caller(t)
  /\ wq_call[t] = "out"
  /\ work_current # w
  /\ work_list' = Append(Without(w), w)
  /\ wq_call' = [wq_call EXCEPT ![t] = IF work_current = NoWork THEN "resume" ELSE "out"]
  /\ UNCHANGED <<semVars, work_thread, work_current, wq_at, wq_work, wq_wild>>

\* "resume work thread", which has no effect unless it is suspended.
WqResume(t) ==
  /\ Caller(t)
  /\ wq_call[t] = "resume"
  /\ wq_call' = [wq_call EXCEPT ![t] = "out"]
  /\ wq_at' = IF wq_at = "suspended" THEN "take" ELSE wq_at
  /\ UNCHANGED <<semVars, work_thread, work_list, work_current, wq_work, wq_wild>>

\* rt_workqueue_cancel_work; rt_workqueue_cancel_work_sync for a work that
\* is not being done is the same.
WqCancel(t, w) ==
  /\ Caller(t)
  /\ wq_call[t] = "out"
  /\ work_current # w
  /\ work_list' = Without(w)
  /\ UNCHANGED <<semVars, work_thread, work_current, wq_at, wq_call, wq_work, wq_wild>>

\* rt_workqueue_cancel_all_work
WqCancelAll(t) ==
  /\ Caller(t)
  /\ wq_call[t] = "out"
  /\ work_list' = <<>>
  /\ UNCHANGED <<semVars, work_thread, work_current, wq_at, wq_call, wq_work, wq_wild>>

\* rt_workqueue_cancel_work_sync: "it's current work in the queue"; the test
\* and the suspension are one critical section.
WqCancelSync(t, w) ==
  /\ Caller(t)
  /\ wq_call[t] = "out"
  /\ work_current = w
  /\ SemTakeNow(t) \/ SemTakeSuspend(t, "forever")
  /\ wq_call' = [wq_call EXCEPT ![t] = "sync"]
  /\ wq_work' = [wq_work EXCEPT ![t] = w]
  /\ UNCHANGED <<work_thread, work_list, work_current, wq_at, wq_wild>>

WqSyncReturn(t) ==
  /\ Caller(t)
  /\ wq_call[t] = "sync"
  /\ SemReturn(t)
  /\ wq_call' = [wq_call EXCEPT ![t] = "out"]
  /\ wq_work' = [wq_work EXCEPT ![t] = NoWork]
  /\ UNCHANGED <<work_thread, work_list, work_current, wq_at, wq_wild>>

-----------------------------------------------------------------------------
WqWorker ==
  \/ WqTest \/ WqSuspend \/ WqTake \/ WqTakeWild \/ WqClean \/ WqLock
  \/ WqAckTry \/ WqAckRelease \/ WqAckDone

WqCaller(t) ==
  \/ \E w \in Works : WqDoWork(t, w) \/ WqCancel(t, w) \/ WqCancelSync(t, w)
  \/ WqResume(t) \/ WqCancelAll(t) \/ WqSyncReturn(t)

WqNext == ~wq_wild /\ (WqWorker \/ \E t \in Threads : WqCaller(t))

WqSpec == SemInit(0) /\ WqInit /\ [][WqNext]_<<semVars, wqVars>>

-----------------------------------------------------------------------------
(* Properties *)

\* Whoever sleeps in rt_workqueue_cancel_work_sync is going to be woken at
\* the end of the work it waits for: that work is being done, or the work
\* thread has finished it and has yet to acknowledge it.  The semaphore
\* keeps no token from one work to the next, which would let the next one
\* return too early.
SyncAnswered ==
  /\ \A t \in Waiting(sem_waiting) : work_current = wq_work[t] \/ wq_at \in {"clean", "ack"}
  /\ wq_at # "ack" => sem_value = 0 /\ \A t \in Waiting(sem_waiting) : wq_call[t] = "sync"

\* A work is in the list at most once, and not while it is being done: no
\* work is run twice for one rt_workqueue_dowork, nor by both sides.
WorkInOnePlace ==
  /\ Distinct(work_list)
  /\ work_current # NoWork => work_current \notin Waiting(work_list)

\* "we have work to do with": the work thread takes works, not the list head.
WorkToDo == ~wq_wild

=============================================================================
