----------------------------- MODULE Semaphore ------------------------------
(***************************************************************************)
(* The counting semaphore of rt-thread/src/ipc.c.  A release either hands   *)
(* its token to the thread that has waited longest, which then does not     *)
(* look at the semaphore again, or adds it to a count of 16 bits.           *)
(*                                                                          *)
(* A step is a critical section; see MemPool.  Wait lists are FIFO: the     *)
(* semaphores of this system are created with RT_IPC_FLAG_FIFO.             *)
(***************************************************************************)
EXTENDS KernelWait

CONSTANTS SemModulus,   \* sem->value wraps here; 2^16 in the code
          MaxCredit     \* bound on sem_credit, which the code does not limit

ASSUME SemaphoreAssumption ==
  /\ SemModulus \in Nat \ {0, 1}
  /\ MaxCredit \in Nat

VARIABLES
  sem_state,     \* "live", "deleting", "resuming", "freed" or "lost": see MemPool
  sem_value,
  sem_waiting,   \* sem->parent.suspend_thread
  sem_call,      \* where a thread is in rt_sem_take
  sem_time,      \* its waiting time
  sem_credit,    \* history: the tokens released and not yet returned with
  sem_overrun    \* history: the value has wrapped

semVars == <<sem_state, sem_value, sem_waiting, sem_call, sem_time,
             sem_credit, sem_overrun>>

SemTypeOK ==
  /\ sem_state \in {"live", "deleting", "resuming", "lost", "freed"}
  /\ sem_value \in 0 .. SemModulus - 1
  /\ sem_waiting \in Seq(Threads)
  /\ sem_call \in [Threads -> {"out", "take_wait", "taken", "take_error"}]
  /\ sem_time \in [Threads -> Timeouts]
  /\ sem_credit \in Nat
  /\ sem_overrun \in BOOLEAN

\* rt_sem_create and rt_sem_init with the value v.
SemInit(v) ==
  /\ sem_state = "live"
  /\ sem_value = v
  /\ sem_waiting = <<>>
  /\ sem_call = [t \in Threads |-> "out"]
  /\ sem_time = [t \in Threads |-> "no_wait"]
  /\ sem_credit = v
  /\ sem_overrun = FALSE

-----------------------------------------------------------------------------
(* rt_sem_take (rt_sem_trytake is the same with no waiting time) *)

MaySemTake(t) == sem_state = "live" /\ sem_call[t] = "out"

\* "semaphore is available"
SemTakeNow(t) ==
  /\ MaySemTake(t)
  /\ sem_value > 0
  /\ sem_value' = sem_value - 1
  /\ sem_call' = [sem_call EXCEPT ![t] = "taken"]
  /\ UNCHANGED <<sem_state, sem_waiting, sem_time, sem_credit, sem_overrun>>

\* "no waiting, return with timeout"
SemTakeRefused(t) ==
  /\ MaySemTake(t)
  /\ sem_value = 0
  /\ sem_call' = [sem_call EXCEPT ![t] = "take_error"]
  /\ UNCHANGED <<sem_state, sem_value, sem_waiting, sem_time, sem_credit, sem_overrun>>

\* "semaphore is unavailable, push to suspend list"
SemTakeSuspend(t, time) ==
  /\ MaySemTake(t)
  /\ sem_value = 0
  /\ time # "no_wait"
  /\ sem_waiting' = EnqueueLast(sem_waiting, t)
  /\ sem_call' = [sem_call EXCEPT ![t] = "take_wait"]
  /\ sem_time' = [sem_time EXCEPT ![t] = time]
  /\ UNCHANGED <<sem_state, sem_value, sem_credit, sem_overrun>>

\* MUTANT of SemTimeout: the thread stays on the list.
MutSemTimeoutListed(t) ==
  /\ sem_call[t] = "take_wait"
  /\ sem_time[t] = "ticks"
  /\ sem_call' = [sem_call EXCEPT ![t] = "take_error"]
  /\ UNCHANGED <<sem_state, sem_value, sem_waiting, sem_time, sem_credit, sem_overrun>>

\* rt_thread_timeout for a thread that waits for a token.
SemTimeout(t) ==
  /\ sem_call[t] = "take_wait"
  /\ sem_time[t] = "ticks"
  /\ sem_waiting' = Unlink(sem_waiting, t)
  /\ sem_call' = [sem_call EXCEPT ![t] = "take_error"]
  /\ UNCHANGED <<sem_state, sem_value, sem_time, sem_credit, sem_overrun>>

\* The caller of rt_sem_take takes up its result; a token is used up.
SemReturn(t) ==
  /\ sem_call[t] \in {"taken", "take_error"}
  /\ sem_credit' = IF sem_call[t] = "taken" THEN sem_credit - 1 ELSE sem_credit
  /\ sem_call' = [sem_call EXCEPT ![t] = "out"]
  /\ sem_time' = [sem_time EXCEPT ![t] = "no_wait"]
  /\ UNCHANGED <<sem_state, sem_value, sem_waiting, sem_overrun>>

-----------------------------------------------------------------------------
(* rt_sem_release, by a thread or an interrupt handler *)

\* Nobody waits: "increase value".
SemReleaseCount ==
  /\ sem_state = "live"
  /\ sem_credit < MaxCredit
  /\ sem_waiting = <<>>
  /\ sem_value' = IF sem_value + 1 = SemModulus THEN 0 ELSE sem_value + 1
  /\ sem_overrun' = (sem_overrun \/ sem_value + 1 = SemModulus)
  /\ sem_credit' = sem_credit + 1
  /\ UNCHANGED <<sem_state, sem_waiting, sem_call, sem_time>>

\* MUTANT of SemReleaseHand: the value is increased as well.
MutSemReleaseTwice ==
  /\ sem_state = "live"
  /\ sem_credit < MaxCredit
  /\ sem_waiting # <<>>
  /\ sem_waiting' = Tail(sem_waiting)
  /\ sem_call' = [sem_call EXCEPT ![Head(sem_waiting)] = "taken"]
  /\ sem_value' = sem_value + 1
  /\ sem_credit' = sem_credit + 1
  /\ UNCHANGED <<sem_state, sem_time, sem_overrun>>

\* "resume the suspended thread", whose take has succeeded with that.
SemReleaseHand ==
  /\ sem_state = "live"
  /\ sem_credit < MaxCredit
  /\ sem_waiting # <<>>
  /\ sem_waiting' = Tail(sem_waiting)
  /\ sem_call' = [sem_call EXCEPT ![Head(sem_waiting)] = "taken"]
  /\ sem_credit' = sem_credit + 1
  /\ UNCHANGED <<sem_state, sem_value, sem_time, sem_overrun>>

SemRelease == SemReleaseCount \/ SemReleaseHand

-----------------------------------------------------------------------------
(* rt_sem_control, rt_sem_delete (rt_sem_detach is the same for static memory) *)

\* The threads that hold a token they have not returned with.
Taken == {t \in Threads : sem_call[t] = "taken"}

\* RT_IPC_CMD_RESET: everyone waiting is resumed with an error and the value
\* is v, in one critical section.
SemReset(v) ==
  /\ sem_state = "live"
  /\ sem_waiting' = <<>>
  /\ sem_call' = [t \in Threads |->
                    IF sem_call[t] = "take_wait" THEN "take_error" ELSE sem_call[t]]
  /\ sem_value' = v
  /\ sem_credit' = v + Cardinality(Taken)
  /\ sem_overrun' = FALSE
  /\ UNCHANGED <<sem_state, sem_time>>

SemDeleteCall ==
  /\ sem_state = "live"
  /\ sem_state' = "deleting"
  /\ UNCHANGED <<sem_value, sem_waiting, sem_call, sem_time, sem_credit, sem_overrun>>

\* The condition of the loop of rt_ipc_list_resume_all, tested with
\* interrupts enabled.
SemDeleteTest ==
  /\ sem_state = "deleting"
  /\ sem_waiting # <<>>
  /\ sem_state' = "resuming"
  /\ UNCHANGED <<sem_value, sem_waiting, sem_call, sem_time, sem_credit, sem_overrun>>

\* One round of the loop: a thread is resumed with an error.
SemDeleteResume ==
  /\ sem_state = "resuming"
  /\ sem_waiting # <<>>
  /\ sem_state' = "deleting"
  /\ sem_waiting' = Tail(sem_waiting)
  /\ sem_call' = [sem_call EXCEPT ![Head(sem_waiting)] = "take_error"]
  /\ UNCHANGED <<sem_value, sem_time, sem_credit, sem_overrun>>

\* The last thread on the list has timed out since the test: see MemPool.
SemDeleteHead ==
  /\ sem_state = "resuming"
  /\ sem_waiting = <<>>
  /\ sem_state' \in {"deleting", "lost"}
  /\ UNCHANGED <<sem_value, sem_waiting, sem_call, sem_time, sem_credit, sem_overrun>>

\* The semaphore object is freed.
SemDeleteFree ==
  /\ sem_state = "deleting"
  /\ sem_waiting = <<>>
  /\ sem_state' = "freed"
  /\ UNCHANGED <<sem_value, sem_waiting, sem_call, sem_time, sem_credit, sem_overrun>>

-----------------------------------------------------------------------------
\* A semaphore used directly.
SemNext ==
  /\ sem_state # "lost"
  /\ \/ \E t \in Threads : \/ SemTakeNow(t) \/ SemTakeRefused(t)
                           \/ \E time \in Timeouts : SemTakeSuspend(t, time)
                           \/ SemTimeout(t) \/ SemReturn(t)
     \/ SemRelease
     \/ \E v \in {0, 1} : SemReset(v)
     \/ SemDeleteCall \/ SemDeleteTest \/ SemDeleteResume \/ SemDeleteHead \/ SemDeleteFree

SemSpec == (\E v \in 0 .. SemModulus - 1 : SemInit(v)) /\ [][SemNext]_semVars

-----------------------------------------------------------------------------
(* Properties *)

\* Unless the 16 bits overflow, no token is lost or made up whatever the
\* order of hand-overs, timeouts and resets: those released are in the value
\* or with a thread that will return with one.  And none is in the value
\* while a thread sleeps, so no rt_sem_release goes unnoticed.
TokensConserved ==
  /\ ~sem_overrun => sem_credit = sem_value + Cardinality(Taken)
  /\ sem_waiting # <<>> => sem_value = 0

\* The threads on the list are those that wait, each once.
SemListExact ==
  /\ Distinct(sem_waiting)
  /\ Waiting(sem_waiting) = {t \in Threads : sem_call[t] = "take_wait"}

=============================================================================
