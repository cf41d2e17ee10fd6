------------------------------- MODULE Mutex --------------------------------
(***************************************************************************)
(* The mutexes of rt-thread/src/ipc.c, as rtos_lock_mutex and               *)
(* rtos_unlock_mutex of rtos_pub.c use them: a thread may take a mutex      *)
(* again, waits in the order of priorities, and lends its priority to the   *)
(* owner.  0 is the highest priority.                                       *)
(*                                                                          *)
(* rt_mutex_take up to rt_schedule and rt_mutex_release are one critical    *)
(* section each.  Deleting a mutex is left out, and so is its owner's end.  *)
(***************************************************************************)
EXTENDS KernelWait

CONSTANTS Mutexes,
          NoThread,       \* RT_NULL
          MaxPriority,    \* priorities are below it; RT_THREAD_PRIORITY_MAX
          init_priority,  \* the priority a thread is created with
          MaxHold,        \* bound on the times a thread takes a mutex; the
                          \* 8 bit counter of the code counts to 255
          Nested          \* whether a thread takes a mutex while it has another

ASSUME MutexAssumption ==
  /\ NoThread \notin Threads
  /\ MaxPriority \in Nat
  /\ init_priority \in [Threads -> 0 .. MaxPriority - 1]
  /\ MaxHold \in Nat \ {0}
  /\ Nested \in BOOLEAN

VARIABLES
  value, owner, original_priority, hold,    \* the fields of the mutexes
  suspend_thread,     \* the threads that wait for a mutex, first served first
  current_priority,   \* of the threads
  call,               \* where a thread is in rt_mutex_take
  taking,             \* the mutexes it is taking: one or none
  time,               \* the time it waits
  has                 \* how often it has been told that it took a mutex, and
                      \* has not released it since

fields == <<value, owner, original_priority, hold, suspend_thread>>
vars == <<fields, current_priority, call, taking, time, has>>

Priorities == 0 .. MaxPriority - 1

\* original_priority of a mutex without an owner; RT_THREAD_PRIORITY_MAX <= 0xff.
NoPriority == MaxPriority

MutexTypeOK ==
  /\ value \in [Mutexes -> {0, 1}]
  /\ owner \in [Mutexes -> Threads \cup {NoThread}]
  /\ original_priority \in [Mutexes -> Priorities \cup {NoPriority}]
  /\ hold \in [Mutexes -> 0 .. MaxHold]
  /\ suspend_thread \in [Mutexes -> Seq(Threads)]
  /\ current_priority \in [Threads -> Priorities]
  /\ call \in [Threads -> {"out", "suspended", "EOK", "ETIMEOUT"}]
  /\ taking \in [Threads -> SUBSET Mutexes]
  /\ time \in [Threads -> Timeouts]
  /\ has \in [Threads -> [Mutexes -> 0 .. MaxHold]]

\* rt_mutex_create and rt_mutex_init
Init ==
  /\ value = [m \in Mutexes |-> 1]
  /\ owner = [m \in Mutexes |-> NoThread]
  /\ original_priority = [m \in Mutexes |-> NoPriority]
  /\ hold = [m \in Mutexes |-> 0]
  /\ suspend_thread = [m \in Mutexes |-> <<>>]
  /\ current_priority = init_priority
  /\ call = [t \in Threads |-> "out"]
  /\ taking = [t \in Threads |-> {}]
  /\ time = [t \in Threads |-> "no_wait"]
  /\ has = [t \in Threads |-> [m \in Mutexes |-> 0]]

-----------------------------------------------------------------------------
(* rt_mutex_take *)

MayTake(t, m) ==
  /\ call[t] = "out"
  /\ has[t][m] < MaxHold
  /\ Nested \/ \A n \in Mutexes \ {m} : has[t][n] = 0

Has(t, m, n) == has' = [has EXCEPT ![t][m] = n]

\* MUTANT of TakeAgain: the takes of the owner are not counted.
MutTakeAgainUncounted(t, m) ==
  /\ MayTake(t, m)
  /\ owner[m] = t
  /\ Has(t, m, has[t][m] + 1)
  /\ UNCHANGED <<fields, current_priority, call, taking, time>>

\* "it's the same thread"
TakeAgain(t, m) ==
  /\ MayTake(t, m)
  /\ owner[m] = t
  /\ hold' = [hold EXCEPT ![m] = @ + 1]
  /\ Has(t, m, has[t][m] + 1)
  /\ UNCHANGED <<value, owner, original_priority, suspend_thread, current_priority,
                 call, taking, time>>

\* MUTANT of TakeFree: the mutex is taken whoever has it.
MutTakeStolen(t, m) ==
  /\ MayTake(t, m)
  /\ owner[m] # t
  /\ value' = [value EXCEPT ![m] = @ - 1]
  /\ owner' = [owner EXCEPT ![m] = t]
  /\ original_priority' = [original_priority EXCEPT ![m] = current_priority[t]]
  /\ hold' = [hold EXCEPT ![m] = @ + 1]
  /\ Has(t, m, has[t][m] + 1)
  /\ UNCHANGED <<suspend_thread, current_priority, call, taking, time>>

\* "mutex is available"
TakeFree(t, m) ==
  /\ MayTake(t, m)
  /\ owner[m] # t
  /\ value[m] > 0
  /\ value' = [value EXCEPT ![m] = @ - 1]
  /\ owner' = [owner EXCEPT ![m] = t]
  /\ original_priority' = [original_priority EXCEPT ![m] = current_priority[t]]
  /\ hold' = [hold EXCEPT ![m] = @ + 1]
  /\ Has(t, m, has[t][m] + 1)
  /\ UNCHANGED <<suspend_thread, current_priority, call, taking, time>>

\* "no waiting, return with timeout": nothing changes but the result.
TakeRefused(t, m) ==
  /\ MayTake(t, m)
  /\ owner[m] # t
  /\ value[m] = 0
  /\ call' = [call EXCEPT ![t] = "ETIMEOUT"]
  /\ taking' = [taking EXCEPT ![t] = {m}]
  /\ UNCHANGED <<fields, current_priority, time, has>>

\* MUTANT of EnqueueByPriority: RT_IPC_FLAG_FIFO.
MutEnqueueFifo(list, t) == EnqueueLast(list, t)

\* MUTANT of EnqueueByPriority: the comparison is the wrong way round.
MutEnqueueInverted(list, t) ==
  LET higher == {i \in DOMAIN list : current_priority[t] > current_priority[list[i]]}
      k == IF higher = {} THEN Len(list) + 1
           ELSE CHOOSE i \in higher : \A j \in higher : i <= j
  IN  EnqueueAt(list, k, t)

\* rt_ipc_list_suspend for RT_IPC_FLAG_PRIO: t waits behind the threads that
\* have its priority or a higher one.
EnqueueByPriority(list, t) ==
  LET lower == {i \in DOMAIN list : current_priority[t] < current_priority[list[i]]}
      k == IF lower = {} THEN Len(list) + 1
           ELSE CHOOSE i \in lower : \A j \in lower : i <= j
  IN  EnqueueAt(list, k, t)

\* The owner inherits the priority of t if that is higher.
Inherit(t, m) ==
  current_priority' =
    IF current_priority[t] < current_priority[owner[m]]
    THEN [current_priority EXCEPT ![owner[m]] = current_priority[t]]
    ELSE current_priority

TakeSuspend(t, m, tm) ==
  /\ MayTake(t, m)
  /\ owner[m] # t
  /\ value[m] = 0
  /\ Inherit(t, m)
  /\ suspend_thread' = [suspend_thread EXCEPT ![m] = EnqueueByPriority(@, t)]
  /\ call' = [call EXCEPT ![t] = "suspended"]
  /\ taking' = [taking EXCEPT ![t] = {m}]
  /\ time' = [time EXCEPT ![t] = tm]
  /\ UNCHANGED <<value, owner, original_priority, hold, has>>

\* MUTANT of TakeTimeout: the thread stays on the list.
MutTimeoutLinked(t, m) ==
  /\ call[t] = "suspended"
  /\ m \in taking[t]
  /\ time[t] = "ticks"
  /\ call' = [call EXCEPT ![t] = "ETIMEOUT"]
  /\ UNCHANGED <<fields, current_priority, taking, time, has>>

\* rt_thread_timeout: the thread leaves the list.  The owner keeps what it
\* inherited from it.
TakeTimeout(t, m) ==
  /\ call[t] = "suspended"
  /\ m \in taking[t]
  /\ time[t] = "ticks"
  /\ suspend_thread' = [suspend_thread EXCEPT ![m] = Unlink(@, t)]
  /\ call' = [call EXCEPT ![t] = "ETIMEOUT"]
  /\ UNCHANGED <<value, owner, original_priority, hold, current_priority, taking, time, has>>

\* The thread runs again and rt_mutex_take returns its error.
TakeReturn(t, m) ==
  /\ call[t] \in {"EOK", "ETIMEOUT"}
  /\ m \in taking[t]
  /\ Has(t, m, IF call[t] = "EOK" THEN has[t][m] + 1 ELSE has[t][m])
  /\ call' = [call EXCEPT ![t] = "out"]
  /\ taking' = [taking EXCEPT ![t] = {}]
  /\ time' = [time EXCEPT ![t] = "no_wait"]
  /\ UNCHANGED <<fields, current_priority>>

-----------------------------------------------------------------------------
(* rt_mutex_release, by a thread that took the mutex *)

ReleaseCall(t, m) ==
  /\ call[t] = "out"
  /\ owner[m] = t
  /\ has[t][m] > 0
  /\ Has(t, m, has[t][m] - 1)

\* The thread holds the mutex still.
ReleaseHeld(t, m) ==
  /\ ReleaseCall(t, m)
  /\ hold[m] > 1
  /\ hold' = [hold EXCEPT ![m] = @ - 1]
  /\ UNCHANGED <<value, owner, original_priority, suspend_thread, current_priority,
                 call, taking, time>>

\* MUTANT of Restore: the priority stays what it is.
MutRestoreNothing(t, m) == m \in Mutexes /\ t \in Threads /\ UNCHANGED current_priority

\* "change the owner thread to original priority"
Restore(t, m) ==
  current_priority' = [current_priority EXCEPT ![t] = original_priority[m]]

ReleaseFree(t, m) ==
  /\ ReleaseCall(t, m)
  /\ hold[m] = 1
  /\ suspend_thread[m] = <<>>
  /\ Restore(t, m)
  /\ hold' = [hold EXCEPT ![m] = 0]
  /\ value' = [value EXCEPT ![m] = @ + 1]
  /\ owner' = [owner EXCEPT ![m] = NoThread]
  /\ original_priority' = [original_priority EXCEPT ![m] = NoPriority]
  /\ UNCHANGED <<suspend_thread, call, taking, time>>

\* "set new owner and priority": the first thread that waits is the owner
\* before it runs.
ReleaseToWaiter(t, m) ==
  /\ ReleaseCall(t, m)
  /\ hold[m] = 1
  /\ suspend_thread[m] # <<>>
  /\ Restore(t, m)
  /\ LET w == Head(suspend_thread[m])
     IN  /\ owner' = [owner EXCEPT ![m] = w]
         /\ original_priority' = [original_priority EXCEPT ![m] = current_priority[w]]
         /\ call' = [call EXCEPT ![w] = "EOK"]
  /\ suspend_thread' = [suspend_thread EXCEPT ![m] = Tail(@)]
  /\ UNCHANGED <<value, hold, taking, time>>

Step(t) ==
  \E m \in Mutexes :
    \/ TakeAgain(t, m) \/ TakeFree(t, m) \/ TakeRefused(t, m)
    \/ \E tm \in {"ticks", "forever"} : TakeSuspend(t, m, tm)
    \/ TakeTimeout(t, m) \/ TakeReturn(t, m)
    \/ ReleaseHeld(t, m) \/ ReleaseFree(t, m) \/ ReleaseToWaiter(t, m)

Next == \E t \in Threads : Step(t)

Spec == Init /\ [][Next]_vars

\* The releases that give a mutex away.
GiveUp(t) == \E m \in Mutexes : ReleaseFree(t, m) \/ ReleaseToWaiter(t, m)

\* A thread that has a mutex gives it up in the end, and a thread that was
\* resumed returns from rt_mutex_take.
Fairness ==
  \A t \in Threads : /\ SF_vars(\E m \in Mutexes : ReleaseHeld(t, m))
                     /\ SF_vars(GiveUp(t))
                     /\ WF_vars(\E m \in Mutexes : TakeReturn(t, m))

FairSpec == Spec /\ Fairness

-----------------------------------------------------------------------------
(* Properties *)

\* A thread that was told that it took a mutex is its owner, alone, for as
\* many releases: what every rtos_lock_mutex relies on.
Exclusion ==
  \A t \in Threads, m \in Mutexes :
    has[t][m] > 0 => owner[m] = t /\ hold[m] = has[t][m]

\* The fields of a mutex agree whether it is taken, and nobody waits for a
\* mutex that is free.
FieldsAgree ==
  \A m \in Mutexes :
    /\ owner[m] = NoThread <=> value[m] = 1
    /\ owner[m] = NoThread <=> hold[m] = 0
    /\ owner[m] = NoThread => suspend_thread[m] = <<>>

\* A thread the release made the owner of a mutex is told so: it is not
\* waiting, nor returning with a timeout.
OwnerKnows ==
  \A m \in Mutexes :
    owner[m] # NoThread =>
      \/ has[owner[m]][m] > 0
      \/ m \in taking[owner[m]] /\ call[owner[m]] = "EOK"

\* "Mutex uses priority inheritance": no thread waits for one of a lower
\* priority.
PriorityInherited ==
  \A m \in Mutexes : \A t \in Waiting(suspend_thread[m]) :
    current_priority[owner[m]] <= current_priority[t]

\* "change the owner thread to original priority": a thread without a mutex
\* has the priority it was created with.
PriorityRestored ==
  \A t \in Threads :
    (\A m \in Mutexes : owner[m] # t) => current_priority[t] = init_priority[t]

\* A thread with a priority higher than all others does not wait for ever.
HighestIsServed ==
  \A t \in Threads :
    (\A u \in Threads \ {t} : init_priority[t] < init_priority[u])
      => (call[t] = "suspended" ~> call[t] # "suspended")

=============================================================================
