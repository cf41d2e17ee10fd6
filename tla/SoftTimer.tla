----------------------------- MODULE SoftTimer ------------------------------
(***************************************************************************)
(* The software timers of rt-thread/src/timer.c, as rtos_pub.c uses them:   *)
(* threads start, stop, initialise and deinitialise timers, and the timer   *)
(* thread sleeps until the next one is due and calls its function.          *)
(*                                                                          *)
(* A timer of rtos_pub.c (beken_timer_t, beken2_timer_t) is identified with *)
(* the thread that owns it and points to a kernel timer (rt_timer_t) in     *)
(* allocated memory.  Ticks are counted modulo TickMax + 1, as the 32 bit   *)
(* rt_tick_t is modulo RT_TICK_MAX + 1.  The upper rows of the skip list    *)
(* only speed up the search and are left out.                               *)
(*                                                                          *)
(* A step is a critical section, a test made outside of one, or runs with   *)
(* the scheduler locked.  Threads are scheduled by priority: an owner in    *)
(* high runs before the timer thread, every other owner only while the      *)
(* timer thread is asleep.                                                  *)
(***************************************************************************)
EXTENDS Naturals, Sequences, FiniteSets, SequencesExt

CONSTANTS Owners,       \* the threads with a timer each
          Preempting,   \* the sets of them that may have a higher priority than
                        \* the timer thread
          Periodic,     \* those whose timer is a beken_timer_t
          Objects,      \* memory for kernel timers
          Null,
          TickMax,      \* RT_TICK_MAX
          Delays,       \* the times a timer may be set to, in ticks
          MaxLate,      \* the ticks the timer thread may be kept from running
          CallbackOps   \* what timer functions do with their own timer

ASSUME SoftTimerAssumption ==
  /\ Preempting \subseteq SUBSET Owners
  /\ Periodic \subseteq Owners
  /\ Null \notin Owners \cup Objects
  /\ TickMax \in Nat
  /\ MaxLate \in Nat
  \* "It supposes that the new tick shall less than the half duration of tick max."
  /\ Delays # {}
  /\ \A d \in Delays : d \in Nat \ {0} /\ d + MaxLate < TickMax \div 2
  /\ CallbackOps \subseteq {"start", "stop", "deinit"}

VARIABLES
  high,                 \* the owners with a higher priority than the timer
                        \* thread; it never changes
  rt_tick,
  rt_soft_timer_list,   \* the linked kernel timers, first due first
  allocated,            \* the kernel timers that are allocated
  flag, timeout_tick, init_tick, user_timer,    \* their fields
  handle,               \* the kernel timer of an owner's timer; its magic word
                        \* and function are set and cleared with it
  op, op_timer,         \* where an owner is in a call, on which kernel timer
  cb_op, cb_timer,      \* the same for the timer function that runs
  entry_pc,             \* where the timer thread is in rt_thread_timer_entry
  next_timeout,         \* its local variable, until which rt_thread_delay sleeps
  current_tick,         \* the local variable of rt_soft_timer_check
  t,                    \* the timer whose function it runs
  stopped,              \* history: the owners who last asked for their timer
                        \* to be stopped, or have not started it yet
  overlooked            \* history: the timer thread takes the list for empty
                        \* though it is not, or does not know its first timer

fields == <<allocated, flag, timeout_tick, init_tick, user_timer>>
owned == <<handle, op, op_timer, stopped>>
callback == <<cb_op, cb_timer>>
thread == <<entry_pc, next_timeout, current_tick, t>>
vars == <<rt_tick, rt_soft_timer_list, fields, owned, callback, thread, overlooked>>

Ticks == 0 .. TickMax
Flags == {"ACTIVATED", "RUNNING", "FREE_PENDING"}

TimerTypeOK ==
  /\ high \in Preempting
  /\ rt_tick \in Ticks
  /\ rt_soft_timer_list \in Seq(Objects)
  /\ allocated \subseteq Objects
  /\ flag \in [Objects -> SUBSET Flags]
  /\ timeout_tick \in [Objects -> Ticks]
  /\ init_tick \in [Objects -> Delays]
  /\ user_timer \in [Objects -> Owners \cup {Null}]
  /\ handle \in [Owners -> Objects \cup {Null}]
  /\ op \in [Owners -> {"idle", "start_test", "start_insert", "start_look",
                        "start_resume", "stop_test", "stop_remove", "stop_clear",
                        "delete_free", "lost"}]
  /\ op_timer \in [Owners -> Objects \cup {Null}]
  /\ cb_op \in {"idle", "start_insert", "stop_clear"}
  /\ cb_timer \in Objects \cup {Null}
  /\ entry_pc \in {"next", "decide", "suspended", "sleeping", "check", "lock",
                   "locked", "function", "returned", "clear"}
  /\ next_timeout \in Ticks
  /\ t \in Objects \cup {Null}
  /\ current_tick \in Ticks
  /\ stopped \subseteq Owners
  /\ overlooked \in BOOLEAN

\* The timer thread is started by rt_system_timer_thread_init before there
\* are timers.
Init ==
  /\ high \in Preempting
  /\ rt_tick = 0
  /\ rt_soft_timer_list = <<>>
  /\ allocated = {}
  /\ flag = [o \in Objects |-> {}]
  /\ timeout_tick = [o \in Objects |-> 0]
  /\ init_tick = [o \in Objects |-> CHOOSE d \in Delays : TRUE]
  /\ user_timer = [o \in Objects |-> Null]
  /\ handle = [u \in Owners |-> Null]
  /\ op = [u \in Owners |-> "idle"]
  /\ op_timer = [u \in Owners |-> Null]
  /\ cb_op = "idle"
  /\ cb_timer = Null
  /\ entry_pc = "next"
  /\ next_timeout = 0
  /\ t = Null
  /\ current_tick = 0
  /\ stopped = {}
  /\ overlooked = FALSE

-----------------------------------------------------------------------------
(* The list *)

\* b - a, in unsigned arithmetic of the width of rt_tick_t.
Diff(b, a) == (b + TickMax + 1 - a) % (TickMax + 1)

\* MUTANT of Later: the tick counter is wider than rt_tick_t.
MutLaterUnbounded(n) == rt_tick + n

\* What rt_tick is n ticks later.
Later(n) == (rt_tick + n) % (TickMax + 1)

\* Tick b is a or is reached from a before half a turn is over.
Reached(b, a) == Diff(b, a) < TickMax \div 2

Linked == ToSet(rt_soft_timer_list)

\* _rt_timer_remove, which has no effect on a timer that is not linked.
Removed(list, o) ==
  IF o \in ToSet(list) THEN RemoveAt(list, CHOOSE i \in DOMAIN list : list[i] = o)
                       ELSE list

\* MUTANT of Inserted: timers are compared without regard to the turn.
MutInsertedPlain(list, o, ticks) ==
  LET k == Cardinality({i \in DOMAIN list : ticks[list[i]] <= ticks[o]})
  IN  InsertAt(list, k + 1, o)

\* The search of rt_timer_start: the timer goes behind those due no later.
Inserted(list, o, ticks) ==
  LET after == {i \in DOMAIN list : /\ ticks[list[i]] # ticks[o]
                                    /\ Reached(ticks[list[i]], ticks[o])}
      k == IF after = {} THEN Len(list) + 1
           ELSE CHOOSE i \in after : \A j \in after : i <= j
  IN  InsertAt(list, k, o)

-----------------------------------------------------------------------------
(* The scheduler *)

Asleep == entry_pc \in {"suspended", "sleeping"}

\* The timer thread runs unless an owner with a higher priority is busy.
TimerThreadRuns == \A u \in high : op[u] = "idle"

\* While the timer thread has the scheduler locked, nobody else runs.
OwnerRuns(u) ==
  IF u \in high THEN entry_pc \notin {"locked", "clear"} ELSE Asleep /\ TimerThreadRuns

\* The timer an owner is in a call on is its timer no longer: the timer's own
\* function has deinitialised it, and its memory is free or soon will be.
Overtaken(u) == op_timer[u] # handle[u]

-----------------------------------------------------------------------------
(* rt_timer_start *)

\* The timer is taken off the list.  Its timeout, which nobody looks at before
\* it is in the list again, is computed after the critical section.
StartRemove(o) ==
  /\ rt_soft_timer_list' = Removed(rt_soft_timer_list, o)
  /\ flag' = [flag EXCEPT ![o] = @ \ {"ACTIVATED"}]
  /\ timeout_tick' = [timeout_tick EXCEPT ![o] = Later(init_tick[o])]

StartInsert(o) ==
  /\ rt_soft_timer_list' = Inserted(rt_soft_timer_list, o, timeout_tick)
  /\ flag' = [flag EXCEPT ![o] = @ \cup {"ACTIVATED"}]

\* rt_thread_resume: the timer thread returns from rt_schedule and checks the
\* list.
ResumeTimerThread ==
  /\ entry_pc' = IF Asleep THEN "check" ELSE entry_pc
  /\ UNCHANGED <<next_timeout, current_tick, t>>

-----------------------------------------------------------------------------
(* What an owner does with its timer *)

\* rtos_init_oneshot_timer, rtos_init_timer: the new kernel timer has no flag
\* of those followed here and no timeout.
InitTimer(u) ==
  /\ OwnerRuns(u)
  /\ op[u] = "idle"
  /\ handle[u] = Null
  /\ \E o \in Objects \ allocated, d \in Delays :
       /\ allocated' = allocated \cup {o}
       /\ init_tick' = [init_tick EXCEPT ![o] = d]
       /\ user_timer' = [user_timer EXCEPT ![o] = u]
       /\ handle' = [handle EXCEPT ![u] = o]
  /\ stopped' = stopped \cup {u}
  /\ UNCHANGED <<rt_tick, rt_soft_timer_list, flag, timeout_tick, op, op_timer,
                 callback, thread, overlooked>>

\* rtos_start_oneshot_timer, rtos_start_timer and the reload functions read the
\* handle, and rtos_change_period sets a new time d.
StartTimer(u, d) ==
  /\ OwnerRuns(u)
  /\ op[u] = "idle"
  /\ handle[u] # Null
  /\ d = init_tick[handle[u]] \/ u \in Periodic
  /\ init_tick' = [init_tick EXCEPT ![handle[u]] = d]
  /\ op' = [op EXCEPT ![u] = "start_test"]
  /\ op_timer' = [op_timer EXCEPT ![u] = handle[u]]
  /\ UNCHANGED <<rt_tick, rt_soft_timer_list, allocated, flag, timeout_tick, user_timer,
                 handle, stopped, callback, thread, overlooked>>

\* rt_timer_start, up to its second critical section.
StartTimerRemove(u) ==
  /\ OwnerRuns(u)
  /\ op[u] = "start_test"
  /\ ~Overtaken(u)
  /\ StartRemove(op_timer[u])
  /\ op' = [op EXCEPT ![u] = "start_insert"]
  /\ stopped' = stopped \ {u}
  /\ UNCHANGED <<rt_tick, allocated, init_tick, user_timer, handle, op_timer, callback,
                 thread, overlooked>>

StartTimerInsert(u) ==
  /\ OwnerRuns(u)
  /\ op[u] = "start_insert"
  /\ StartInsert(op_timer[u])
  /\ op' = [op EXCEPT ![u] = "start_look"]
  /\ overlooked' = (overlooked \/ entry_pc = "decide")
  /\ UNCHANGED <<rt_tick, allocated, timeout_tick, init_tick, user_timer,
                 handle, op_timer, stopped, callback, thread>>

\* It reads the flags again, to see that this is a software timer.  What it
\* reads from a timer that its function has deinitialised meanwhile is open.
StartTimerLook(u) ==
  /\ OwnerRuns(u)
  /\ op[u] = "start_look"
  /\ \/ /\ op' = [op EXCEPT ![u] = "start_resume"]
        /\ UNCHANGED op_timer
     \/ /\ Overtaken(u)
        /\ op' = [op EXCEPT ![u] = "idle"]
        /\ op_timer' = [op_timer EXCEPT ![u] = Null]
  /\ UNCHANGED <<rt_tick, rt_soft_timer_list, fields, handle, stopped, callback, thread,
                 overlooked>>

\* MUTANT of StartTimerResume: only a suspended timer thread is resumed, not
\* one that sleeps until a later timer is due.
MutResumeSuspended(u) ==
  /\ OwnerRuns(u)
  /\ op[u] = "start_resume"
  /\ entry_pc' = IF entry_pc = "suspended" THEN "check" ELSE entry_pc
  /\ op' = [op EXCEPT ![u] = "idle"]
  /\ op_timer' = [op_timer EXCEPT ![u] = Null]
  /\ UNCHANGED <<rt_tick, rt_soft_timer_list, fields, handle, stopped, callback,
                 next_timeout, current_tick, t, overlooked>>

\* MUTANT of StartTimerResume: only a sleeping timer thread is resumed.
MutResumeSleeping(u) ==
  /\ OwnerRuns(u)
  /\ op[u] = "start_resume"
  /\ entry_pc' = IF entry_pc = "sleeping" THEN "check" ELSE entry_pc
  /\ op' = [op EXCEPT ![u] = "idle"]
  /\ op_timer' = [op_timer EXCEPT ![u] = Null]
  /\ UNCHANGED <<rt_tick, rt_soft_timer_list, fields, handle, stopped, callback,
                 next_timeout, current_tick, t, overlooked>>

StartTimerResume(u) ==
  /\ OwnerRuns(u)
  /\ op[u] = "start_resume"
  /\ ResumeTimerThread
  /\ op' = [op EXCEPT ![u] = "idle"]
  /\ op_timer' = [op_timer EXCEPT ![u] = Null]
  /\ UNCHANGED <<rt_tick, rt_soft_timer_list, fields, handle, stopped, callback, overlooked>>

\* rtos_stop_oneshot_timer, rtos_stop_timer read the handle.
StopTimer(u) ==
  /\ OwnerRuns(u)
  /\ op[u] = "idle"
  /\ handle[u] # Null
  /\ op' = [op EXCEPT ![u] = "stop_test"]
  /\ op_timer' = [op_timer EXCEPT ![u] = handle[u]]
  /\ UNCHANGED <<rt_tick, rt_soft_timer_list, fields, handle, stopped, callback, thread,
                 overlooked>>

\* rt_timer_stop refuses a timer that is not active.
StopRefused(u) ==
  /\ OwnerRuns(u)
  /\ op[u] = "stop_test"
  /\ Overtaken(u) \/ "ACTIVATED" \notin flag[op_timer[u]]
  /\ op' = [op EXCEPT ![u] = "idle"]
  /\ op_timer' = [op_timer EXCEPT ![u] = Null]
  /\ stopped' = stopped \cup {u}
  /\ UNCHANGED <<rt_tick, rt_soft_timer_list, fields, handle, callback, thread, overlooked>>

StopActive(u) ==
  /\ OwnerRuns(u)
  /\ op[u] = "stop_test"
  /\ Overtaken(u) \/ "ACTIVATED" \in flag[op_timer[u]]
  /\ op' = [op EXCEPT ![u] = "stop_remove"]
  /\ UNCHANGED <<rt_tick, rt_soft_timer_list, fields, handle, op_timer, stopped, callback,
                 thread, overlooked>>

StopTimerRemove(u) ==
  /\ OwnerRuns(u)
  /\ op[u] = "stop_remove"
  /\ ~Overtaken(u)
  /\ rt_soft_timer_list' = Removed(rt_soft_timer_list, op_timer[u])
  /\ op' = [op EXCEPT ![u] = "stop_clear"]
  /\ UNCHANGED <<rt_tick, fields, handle, op_timer, stopped, callback, thread, overlooked>>

StopTimerClear(u) ==
  /\ OwnerRuns(u)
  /\ op[u] = "stop_clear"
  /\ flag' = [flag EXCEPT ![op_timer[u]] = @ \ {"ACTIVATED"}]
  /\ op' = [op EXCEPT ![u] = "idle"]
  /\ op_timer' = [op_timer EXCEPT ![u] = Null]
  /\ stopped' = stopped \cup {u}
  /\ UNCHANGED <<rt_tick, rt_soft_timer_list, allocated, timeout_tick, init_tick,
                 user_timer, handle, callback, thread, overlooked>>

\* rt_timer_start or rt_timer_stop unlinks the rows and changes the flags of a
\* timer that its function has deinitialised since the handle was read.  What
\* becomes of the memory is not followed.
UseFreed(u) ==
  /\ OwnerRuns(u)
  /\ op[u] \in {"start_test", "stop_remove"}
  /\ Overtaken(u)
  /\ op' = [op EXCEPT ![u] = "lost"]
  /\ UNCHANGED <<rt_tick, rt_soft_timer_list, fields, handle, op_timer, stopped, callback,
                 thread, overlooked>>

\* rt_object_delete: the memory of a kernel timer is given back.  What it holds
\* stays there; what nobody has a use for any more is cleared, here its flags
\* and its timeout.
Free(o) ==
  /\ allocated' = allocated \ {o}
  /\ flag' = [flag EXCEPT ![o] = {}]
  /\ timeout_tick' = [timeout_tick EXCEPT ![o] = 0]

\* The pointer to the owner's timer is out of use.
Unowned(o) == user_timer' = [user_timer EXCEPT ![o] = Null]

\* What is left of an owner's timer once it is deinitialised.
Forget(u) == handle' = [handle EXCEPT ![u] = Null]

\* MUTANT of DeinitOneshot: the timer is deleted though its function runs.
MutDeinitAtOnce(u) ==
  /\ Free(handle[u])
  /\ Unowned(handle[u])
  /\ rt_soft_timer_list' = Removed(rt_soft_timer_list, handle[u])
  /\ Forget(u)

\* MUTANT of DeinitOneshot: nobody is told to delete a timer whose function
\* runs.
MutDeinitForgets(u) ==
  /\ Forget(u)
  /\ IF "RUNNING" \in flag[handle[u]]
     THEN UNCHANGED <<rt_soft_timer_list, fields>>
     ELSE /\ rt_soft_timer_list' = Removed(rt_soft_timer_list, handle[u])
          /\ Free(handle[u])
          /\ Unowned(handle[u])

\* rtos_deinit_oneshot_timer: the kernel timer is deleted, or left to the
\* timer thread if its function runs.
DeinitOneshot(u) ==
  /\ Forget(u)
  /\ IF "RUNNING" \in flag[handle[u]]
     THEN /\ flag' = [flag EXCEPT ![handle[u]] = @ \cup {"FREE_PENDING"}]
          /\ UNCHANGED <<rt_soft_timer_list, allocated, timeout_tick, user_timer>>
     ELSE /\ rt_soft_timer_list' = Removed(rt_soft_timer_list, handle[u])
          /\ Free(handle[u])
          /\ Unowned(handle[u])

\* The deinit functions do not look whether there is a timer, nor whether it
\* was started again while its function runs: the owner knows that.
MayDeinit(u) ==
  /\ OwnerRuns(u)
  /\ op[u] = "idle"
  /\ handle[u] # Null
  /\ ~("RUNNING" \in flag[handle[u]] /\ handle[u] \in Linked)

DeinitOneshotTimer(u) ==
  /\ u \notin Periodic
  /\ MayDeinit(u)
  /\ DeinitOneshot(u)
  /\ stopped' = stopped \ {u}
  /\ UNCHANGED <<rt_tick, init_tick, op, op_timer, callback, thread, overlooked>>

\* rtos_deinit_timer, which does not look whether the function runs: only an
\* owner that knows it does not may call it.
DeinitTimer(u) ==
  /\ u \in Periodic
  /\ MayDeinit(u)
  /\ t # handle[u]
  /\ rt_soft_timer_list' = Removed(rt_soft_timer_list, handle[u])
  /\ op' = [op EXCEPT ![u] = "delete_free"]
  /\ op_timer' = [op_timer EXCEPT ![u] = handle[u]]
  /\ UNCHANGED <<rt_tick, fields, handle, stopped, callback, thread, overlooked>>

DeinitTimerFree(u) ==
  /\ OwnerRuns(u)
  /\ op[u] = "delete_free"
  /\ Free(op_timer[u])
  /\ Unowned(op_timer[u])
  /\ Forget(u)
  /\ op' = [op EXCEPT ![u] = "idle"]
  /\ op_timer' = [op_timer EXCEPT ![u] = Null]
  /\ stopped' = stopped \ {u}
  /\ UNCHANGED <<rt_tick, rt_soft_timer_list, init_tick, callback, thread, overlooked>>

-----------------------------------------------------------------------------
(* What a timer function does with its own timer *)

\* The function of an owner that may preempt it leaves the timer to the owner:
\* calls of both on one timer at a time are not protected from each other.  So
\* nobody else comes to the timer between the tests of such a call, which are
\* one step with what follows them.
CallbackRuns(what) ==
  /\ what \in CallbackOps
  /\ TimerThreadRuns
  /\ entry_pc = "function"
  /\ cb_op = "idle"
  /\ user_timer[t] \notin high
  /\ handle[user_timer[t]] # Null

\* The timer thread is ready, so rt_timer_start does not resume it.
CallbackStart ==
  /\ CallbackRuns("start")
  /\ StartRemove(handle[user_timer[t]])
  /\ cb_op' = "start_insert"
  /\ cb_timer' = handle[user_timer[t]]
  /\ stopped' = stopped \ {user_timer[t]}
  /\ UNCHANGED <<rt_tick, allocated, init_tick, user_timer, handle, op, op_timer, thread,
                 overlooked>>

CallbackStartInsert ==
  /\ TimerThreadRuns
  /\ cb_op = "start_insert"
  /\ StartInsert(cb_timer)
  /\ cb_op' = "idle"
  /\ cb_timer' = Null
  /\ UNCHANGED <<rt_tick, allocated, timeout_tick, init_tick, user_timer, owned, thread,
                 overlooked>>

CallbackStopRefused ==
  /\ CallbackRuns("stop")
  /\ "ACTIVATED" \notin flag[handle[user_timer[t]]]
  /\ stopped' = stopped \cup {user_timer[t]}
  /\ UNCHANGED <<rt_tick, rt_soft_timer_list, fields, handle, op,
                 op_timer, callback, thread, overlooked>>

CallbackStop ==
  /\ CallbackRuns("stop")
  /\ "ACTIVATED" \in flag[handle[user_timer[t]]]
  /\ rt_soft_timer_list' = Removed(rt_soft_timer_list, handle[user_timer[t]])
  /\ cb_op' = "stop_clear"
  /\ cb_timer' = handle[user_timer[t]]
  /\ UNCHANGED <<rt_tick, fields, owned, thread, overlooked>>

CallbackStopClear ==
  /\ TimerThreadRuns
  /\ cb_op = "stop_clear"
  /\ flag' = [flag EXCEPT ![cb_timer] = @ \ {"ACTIVATED"}]
  /\ cb_op' = "idle"
  /\ cb_timer' = Null
  /\ stopped' = stopped \cup {user_timer[t]}
  /\ UNCHANGED <<rt_tick, rt_soft_timer_list, allocated, timeout_tick, init_tick,
                 user_timer, handle, op, op_timer, thread, overlooked>>

\* A function that has started its timer again stops it before it deinitialises
\* it, which else frees a timer that is in the list.
CallbackDeinit ==
  /\ CallbackRuns("deinit")
  /\ t \notin Linked
  /\ user_timer[t] \notin Periodic
  /\ DeinitOneshot(user_timer[t])
  /\ stopped' = stopped \ {user_timer[t]}
  /\ UNCHANGED <<rt_tick, init_tick, op, op_timer, callback, thread, overlooked>>

-----------------------------------------------------------------------------
(* rt_thread_timer_entry *)

\* rt_timer_list_next_timeout
NextTimeout ==
  IF rt_soft_timer_list = <<>> THEN TickMax ELSE timeout_tick[Head(rt_soft_timer_list)]

ReadNextTimeout ==
  /\ TimerThreadRuns
  /\ entry_pc = "next"
  /\ next_timeout' = NextTimeout
  /\ entry_pc' = "decide"
  /\ overlooked' = (rt_soft_timer_list # <<>> /\ NextTimeout = TickMax)
  /\ UNCHANGED <<rt_tick, rt_soft_timer_list, fields, owned, callback, current_tick, t>>

\* "no software timer exist, suspend self."
SuspendSelf ==
  /\ TimerThreadRuns
  /\ entry_pc = "decide"
  /\ next_timeout = TickMax
  /\ entry_pc' = "suspended"
  /\ UNCHANGED <<rt_tick, rt_soft_timer_list, fields, owned, callback, next_timeout,
                 current_tick, t, overlooked>>

\* rt_thread_delay until the timer is due; it ends with a tick interrupt.
\* Reading the tick, subtracting and falling asleep take less than a tick.
Delay ==
  /\ TimerThreadRuns
  /\ entry_pc = "decide"
  /\ next_timeout # TickMax
  /\ Reached(next_timeout, rt_tick)
  /\ entry_pc' = "sleeping"
  /\ UNCHANGED <<rt_tick, rt_soft_timer_list, fields, owned, callback, next_timeout,
                 current_tick, t, overlooked>>

NoDelay ==
  /\ TimerThreadRuns
  /\ entry_pc = "decide"
  /\ next_timeout # TickMax
  /\ ~Reached(next_timeout, rt_tick)
  /\ entry_pc' = "check"
  /\ UNCHANGED <<rt_tick, rt_soft_timer_list, fields, owned, callback, next_timeout,
                 current_tick, t, overlooked>>

\* rt_soft_timer_check reads the tick before it locks the scheduler.  Its
\* local variable and that of rt_thread_timer_entry are cleared when they are
\* out of use, as is what the latter overlooked.
ReadCurrentTick ==
  /\ TimerThreadRuns
  /\ entry_pc = "check"
  /\ current_tick' = rt_tick
  /\ next_timeout' = 0
  /\ overlooked' = FALSE
  /\ entry_pc' = "lock"
  /\ UNCHANGED <<rt_tick, rt_soft_timer_list, fields, owned, callback, t>>

\* rt_soft_timer_check finds the first timer due.  It calls
\* timer_oneshot_callback or timer_period_callback, which call the owner's
\* function if the owner's timer is still initialised.
Expire ==
  /\ TimerThreadRuns
  /\ entry_pc \in {"lock", "locked"}
  /\ rt_soft_timer_list # <<>>
  /\ LET o == Head(rt_soft_timer_list)
     IN  /\ Reached(current_tick, timeout_tick[o])
         /\ rt_soft_timer_list' = Removed(rt_soft_timer_list, o)
         /\ flag' = [flag EXCEPT ![o] = @ \cup {"RUNNING"}]
         /\ t' = o
         /\ entry_pc' = "function"
  /\ current_tick' = 0
  /\ UNCHANGED <<rt_tick, allocated, timeout_tick, init_tick, user_timer, owned,
                 callback, next_timeout, overlooked>>

\* rt_soft_timer_check finds no timer due.
CheckDone ==
  /\ TimerThreadRuns
  /\ entry_pc \in {"lock", "locked"}
  /\ rt_soft_timer_list # <<>> =>
       ~Reached(current_tick, timeout_tick[Head(rt_soft_timer_list)])
  /\ entry_pc' = "next"
  /\ current_tick' = 0
  /\ UNCHANGED <<rt_tick, rt_soft_timer_list, fields, owned, callback, next_timeout, t,
                 overlooked>>

\* The function returns, and the tick is read again.
FunctionReturns ==
  /\ TimerThreadRuns
  /\ entry_pc = "function"
  /\ cb_op = "idle"
  /\ current_tick' = rt_tick
  /\ entry_pc' = "returned"
  /\ UNCHANGED <<rt_tick, rt_soft_timer_list, fields, owned, callback, next_timeout, t,
                 overlooked>>

\* A timer deinitialised meanwhile is deleted.
DeletePending ==
  /\ TimerThreadRuns
  /\ entry_pc = "returned"
  /\ "FREE_PENDING" \in flag[t]
  /\ Free(t)
  /\ entry_pc' = "clear"
  /\ UNCHANGED <<rt_tick, rt_soft_timer_list, init_tick, user_timer, owned, callback,
                 next_timeout, current_tick, t, overlooked>>

\* Then rtos_deinit_free_beken_timer clears the owner's timer, whatever it is
\* now.  It reads the pointer to it from the memory just freed.
ClearOwner ==
  /\ TimerThreadRuns
  /\ entry_pc = "clear"
  /\ Forget(user_timer[t])
  /\ Unowned(t)
  /\ entry_pc' = "locked"
  /\ t' = Null
  /\ UNCHANGED <<rt_tick, rt_soft_timer_list, allocated, flag, timeout_tick, init_tick, op,
                 op_timer, stopped, callback, next_timeout, current_tick, overlooked>>

\* MUTANT of Restart: a periodic timer is started again though it was stopped.
MutRestartStopped ==
  /\ "FREE_PENDING" \notin flag[t]
  /\ user_timer[t] \in Periodic
  /\ timeout_tick' = [timeout_tick EXCEPT ![t] = Later(init_tick[t])]
  /\ rt_soft_timer_list' = Inserted(Removed(rt_soft_timer_list, t), t, timeout_tick')
  /\ flag' = [flag EXCEPT ![t] = (@ \ {"RUNNING"}) \cup {"ACTIVATED"}]
  /\ UNCHANGED <<allocated, user_timer>>

\* A periodic timer that nobody stopped is started again.
Restart ==
  /\ "FREE_PENDING" \notin flag[t]
  /\ user_timer[t] \in Periodic
  /\ "ACTIVATED" \in flag[t]
  /\ timeout_tick' = [timeout_tick EXCEPT ![t] = Later(init_tick[t])]
  /\ rt_soft_timer_list' = Inserted(Removed(rt_soft_timer_list, t), t, timeout_tick')
  /\ flag' = [flag EXCEPT ![t] = (@ \ {"RUNNING"}) \cup {"ACTIVATED"}]
  /\ UNCHANGED <<allocated, user_timer>>

\* Any other timer is marked as stopped.
MarkStopped ==
  /\ "FREE_PENDING" \notin flag[t]
  /\ ~(user_timer[t] \in Periodic /\ "ACTIVATED" \in flag[t])
  /\ flag' = [flag EXCEPT ![t] = @ \ {"RUNNING", "ACTIVATED"}]
  /\ UNCHANGED <<rt_soft_timer_list, timeout_tick, allocated, user_timer>>

AfterFunction ==
  /\ TimerThreadRuns
  /\ entry_pc = "returned"
  /\ Restart \/ MarkStopped
  /\ entry_pc' = "locked"
  /\ t' = Null
  /\ UNCHANGED <<rt_tick, init_tick, owned, callback, next_timeout, current_tick,
                 overlooked>>

-----------------------------------------------------------------------------
\* rt_tick_increase, in the tick interrupt: the thread timer of the timer
\* thread ends its delay.  No timer gets later than MaxLate, in the list or
\* while it is being started.
Starting == {op_timer[u] : u \in {v \in Owners : op[v] = "start_insert"}}
            \cup (IF cb_op = "start_insert" THEN {cb_timer} ELSE {})

Tick ==
  /\ \A o \in Linked \cup Starting :
       Reached(rt_tick, timeout_tick[o]) => Diff(rt_tick, timeout_tick[o]) < MaxLate
  /\ rt_tick' = Later(1)
  /\ entry_pc' = IF entry_pc = "sleeping" /\ Reached(rt_tick', next_timeout)
                 THEN "check" ELSE entry_pc
  /\ UNCHANGED <<rt_soft_timer_list, fields, owned, callback, next_timeout,
                 current_tick, t, overlooked>>

TimerThread ==
  \/ ReadNextTimeout \/ SuspendSelf \/ Delay \/ NoDelay
  \/ ReadCurrentTick \/ Expire \/ CheckDone \/ FunctionReturns
  \/ AfterFunction \/ DeletePending \/ ClearOwner
  \/ CallbackStart \/ CallbackStartInsert
  \/ CallbackStopRefused \/ CallbackStop \/ CallbackStopClear \/ CallbackDeinit

\* An owner goes on with a call it is in.
OwnerStep(u) ==
  \/ StartTimerRemove(u) \/ StartTimerInsert(u)
  \/ StartTimerLook(u) \/ StartTimerResume(u)
  \/ StopRefused(u) \/ StopActive(u) \/ StopTimerRemove(u) \/ StopTimerClear(u)
  \/ UseFreed(u) \/ DeinitTimerFree(u)

OwnerCalls(u) ==
  \/ InitTimer(u)
  \/ \E d \in Delays : StartTimer(u, d)
  \/ StopTimer(u)
  \/ DeinitOneshotTimer(u) \/ DeinitTimer(u)

Next ==
  /\ \A u \in Owners : op[u] # "lost"
  /\ UNCHANGED high
  /\ \/ Tick
     \/ TimerThread
     \/ \E u \in Owners : OwnerStep(u) \/ OwnerCalls(u)

Spec == Init /\ [][Next]_<<high, vars>>

\* The tick interrupt keeps coming, the timer thread runs whenever no owner
\* with a higher priority does, owners finish their calls, and a timer
\* function returns in the end.
Fairness ==
  /\ WF_vars(Tick)
  /\ WF_vars(ReadNextTimeout \/ SuspendSelf \/ Delay \/ NoDelay
             \/ ReadCurrentTick \/ Expire \/ CheckDone)
  /\ SF_vars(FunctionReturns)
  /\ WF_vars(AfterFunction \/ DeletePending \/ ClearOwner)
  /\ WF_vars(CallbackStartInsert \/ CallbackStopClear)
  /\ \A u \in Owners : WF_vars(OwnerStep(u))

FairSpec == Spec /\ Fairness

-----------------------------------------------------------------------------
(* Properties *)

\* An owner has put a timer into the list and is about to resume the timer
\* thread.
ResumeUnderWay == \E u \in Owners : op[u] \in {"start_look", "start_resume"}

\* No timer is due at the tick RT_TICK_MAX, which rt_timer_list_next_timeout
\* returns if there is no timer.
NoneAtLastTick == \A o \in Linked \cup Starting : timeout_tick[o] # TickMax

\* The timer thread never sleeps past the first timer: if it is suspended, or
\* sleeps until a later tick, the thread that started that timer is about to
\* resume it.  There are two exceptions, which are the code's (overlooked):
\* the first timer was due at RT_TICK_MAX when the timer thread looked, or an
\* owner preempted the timer thread and started a timer after it had looked.
\* They last until it looks again.
TimerThreadAwake ==
  Asleep /\ rt_soft_timer_list # <<>> /\ ~ResumeUnderWay /\ ~overlooked =>
    /\ entry_pc = "sleeping"
    /\ Reached(timeout_tick[Head(rt_soft_timer_list)], next_timeout)

\* "no software timer exist, suspend self.": the timer thread is suspended
\* without a time limit only while there is no timer.
SuspendedWithoutTimers ==
  entry_pc = "suspended" /\ ~ResumeUnderWay => rt_soft_timer_list = <<>>

\* The list is in the order in which the timers are due, across the turn of
\* the tick counter, and no timer is linked twice.
ListSorted ==
  \A i, j \in DOMAIN rt_soft_timer_list :
    i < j => /\ rt_soft_timer_list[i] # rt_soft_timer_list[j]
             /\ Reached(timeout_tick[rt_soft_timer_list[j]],
                        timeout_tick[rt_soft_timer_list[i]])

\* "This function will stop the timer": once rtos_stop_oneshot_timer or
\* rtos_stop_timer has returned, the timer is not in the list and so its
\* function is not called again until the timer is started.  Left out are the
\* one-shot timers that are started again while their function runs, by the
\* function or by an owner that preempts it: they lose ACTIVATED when the
\* function returns, and the next stop is refused.
StopStops ==
  \A u \in stopped :
    /\ u \in Periodic \/ (u \notin high /\ "start" \notin CallbackOps)
    => handle[u] \notin Linked

\* The calls that have taken a timer off the list and have still to change it.
Changing == {"start_insert", "stop_clear", "delete_free"}

\* Nothing of a deleted timer is used or changed: those in the list, those of
\* the owners, those a call has still to change and the one whose function the
\* timer thread runs are allocated; and the memory of the timer it has deleted
\* is nobody else's until it has read the owner from there.  A call reads no
\* flag of a deleted timer and does not start or stop one, unless the timer is
\* one that its own function deinitialises while the thread is in that call.
NoneFreed ==
  /\ Linked \subseteq allocated
  /\ t # Null => (t \in allocated <=> entry_pc # "clear")
  /\ \A u \in Owners :
       /\ handle[u] # Null => handle[u] \in allocated
       /\ op[u] \in Changing => op_timer[u] \in allocated
       /\ u \in Periodic \cup high \/ "deinit" \notin CallbackOps =>
            /\ op[u] # "lost"
            /\ op[u] \notin {"idle", "start_resume"} => op_timer[u] \in allocated

\* No kernel timer leaks: each is some owner's, or the timer thread is about
\* to delete it.  An owner that initialises its timer anew while the timer
\* thread runs the function of the old one loses the new one to
\* rtos_deinit_free_beken_timer; the others cannot run then.
NoneLeaked ==
  \A o \in allocated : \/ \E u \in Owners : handle[u] = o
                       \/ t = o /\ "FREE_PENDING" \in flag[o]
                       \/ user_timer[o] \in high

\* A timer that is started does not stay in the list for ever: it expires,
\* or is stopped or started anew.
TimersExpire == []NoneAtLastTick => \A o \in Objects : o \in Linked ~> o \notin Linked

=============================================================================
