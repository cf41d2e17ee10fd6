# Verification of the Beken RT-Thread kernel services

The repository is the SDK of the Beken BK7231/BK7251 Wi-Fi chips: the RT-Thread
kernel (`rt-thread/`), Beken's drivers, Wi-Fi and BLE glue (`beken378/`) with its
own RTOS interface on top of the kernel (`beken378/rttos/`), and many vendored
libraries. Nearly everything above the drivers is threads that exchange messages,
take mutexes and wait for timers. This project models those services: the code
where an interleaving nobody wrote a test for decides whether a message is lost,
a thread sleeps for ever or freed memory is used.

All paths below are relative to `src/`.

## 1. Inventory

### 1.1 Components

| Component | Source | State | Operations |
|---|---|---|---|
| Memory pool | `rt-thread/src/mempool.c` | list and number of free blocks, list and number of waiting threads | `rt_mp_create`, `rt_mp_alloc`, `rt_mp_free`, `rt_mp_delete` |
| Mailbox | `rt-thread/src/ipc.c` | ring of mails, two offsets, `entry`, waiting receivers, waiting senders | `rt_mb_send_wait`, `rt_mb_recv`, `rt_mb_control`, `rt_mb_delete` |
| RTOS queue | `beken378/rttos/source/rtos_pub.c` | a pool and a mailbox of the same size | `rtos_init_queue`, `rtos_push_to_queue`, `rtos_pop_from_queue`, `rtos_deinit_queue` |
| Semaphore | `rt-thread/src/ipc.c` | `value`, waiting threads | `rt_sem_take`, `rt_sem_release`, `rt_sem_control`, `rt_sem_delete` |
| Event | `rt-thread/src/ipc.c` | set of flags, waiting threads with what they ask for | `rt_event_recv`, `rt_event_send`, `rt_event_control`, `rt_event_delete` |
| Message queue | `rt-thread/src/ipc.c` | free slots, linked messages, `entry`, waiting receivers | `rt_mq_send`, `rt_mq_urgent`, `rt_mq_recv`, `rt_mq_control`, `rt_mq_delete` |
| Mutex | `rt-thread/src/ipc.c` | `value`, `owner`, `hold`, `original_priority`, waiting threads; the threads' priorities | `rt_mutex_take`, `rt_mutex_release`, `rt_mutex_delete` |
| Software timers | `rt-thread/src/timer.c`, `rtos_pub.c` | the sorted list of timers, their flags and timeouts, the timer thread | `rtos_init_timer`, `_start_`, `_stop_`, `_reload_`, `_deinit_` and the one-shot variants; `rt_thread_timer_entry` |
| Data queue | `rt-thread/components/drivers/src/dataqueue.c` | ring, two indices of 16 bits, waiting pushers and poppers | `rt_data_queue_push`, `_pop`, `_peak`, `_reset` |
| Work queue | `rt-thread/components/drivers/src/workqueue.c` | list of works, the one being done, a semaphore | `rt_workqueue_dowork`, `_critical_work`, `_cancel_work`, `_cancel_work_sync`, `_cancel_all_work`, its thread |
| Core message bus | `beken378/app/app.c` | an RTOS queue, `bmsg_rx_count`, references to packets | `bmsg_*_sender`, `core_thread_main`, `bmsg_*_handler` |
| Requests to the MAC | `beken378/func/rwnx_intf/rw_msg_tx.c`, `rw_msg_rx.c` | lists of requests and answers, a semaphore for each request | `rw_msg_send`, `mr_kmsg_fwd`, `rwnx_recv_msg` |
| Threads and scheduler | `thread.c`, `scheduler.c`, `idle.c` | ready queue, states, thread timers, scheduler lock | suspend, resume, timeout, delete |
| Clock | `clock.c` | `rt_tick` | `rt_tick_increase`, `rt_tick_from_millisecond` |
| Completion, ring buffer, pipe, wait queue | `rt-thread/components/drivers/src/` | a flag and a waiting thread; bytes | wait/done, put/get |
| Heap | `mem.c`, `memheap.c`, `slab.c` | blocks of a heap | malloc, free |
| Kernel objects, start-up, power save, WLAN framework, audio/video, drivers, vendored and binary code, applications | see `PROJECT.json` | | |

`PROJECT.json` gives each of them its status and, where it is not or not wholly
modelled, the reason.

### 1.2 How they interact

```
 IP stack    MAC interrupts    rw_msg_send <------ answers ------ kmsgbk
      \            |            /                                   ^
       `--- core message bus --'  (app.c) --- core_thread --- MAC --'
                   |
   timer owners    |        rtos_lock_mutex   drivers, POSIX layer
        |          |               |                |
  rtos timers   RTOS queue         |         data queue, work queue
        |       /        \         |                |
  soft timers  pool   mailbox    mutex    semaphore, event, message queue
        \        \       |         |                |
         `-------- suspend / resume / thread timeout (thread.c)
                               |
                   scheduler, tick interrupt
```

A call takes the interrupt lock, looks at the object and either finishes or puts
its thread on a wait list, starts the thread's timer and calls `rt_schedule`.
Another call resumes the first thread of that list; the thread timer, which runs
in the tick interrupt, resumes it with an error. The resumed thread looks at the
object again (pool, mailbox, message queue, data queue) or finds that it has been
given what it waited for (mutex, semaphore, event).

### 1.3 What is hard

- *Wake-ups*: a thread is resumed long before it runs. What it was resumed for
  may be taken by a third thread; its timer may expire instead; the object may be
  reset or deleted.
- *Counts kept beside lists*: `suspend_thread_count` beside the list of a pool,
  `entry` beside the offsets of a ring, `hold` beside the owner, `bmsg_rx_count`
  beside the messages under way.
- *Calls of several critical sections*: a push allocates, copies and sends; a pop
  receives, copies and frees; a message is linked after its slot was taken;
  starting a timer is five steps; the work thread tests its list, suspends itself
  and takes a work; deleting an object resumes the threads that wait one after
  the other and then frees it.
- *Tests made before the lock is taken*: the loops of deletions and resets look
  whether a list is empty, `rt_timer_stop` whether the timer is active and
  `kmsgbk` which answer is the first, and act on it when it may have changed.
- *Callbacks*: a timer function may stop, start or delete its own timer while the
  timer thread still holds a pointer to it.
- *Retries and late answers*: a request to the MAC is given up after five seconds,
  and the answer may come while it is.
- *The turn of counters*: of the tick counter with its reserved tick
  `RT_TICK_MAX`, of indices and semaphores of 16 bits.
- *Priority inheritance* with timeouts and with several mutexes.

`PROJECT.json` lists every hazard found, at its line, with the properties that
cover it or the reason why none does.

### 1.4 What makes each component correct

| Component | Properties |
|---|---|
| Memory pool | every block free or held, once (`MpCounters`); no waiter overslept (`MpNoLostWakeup`); a freed pool is not touched (`FreedUntouched`) |
| Mailbox | offsets and count agree; no mail without a receiver coming, no room without a sender coming (`MbNoLostWakeup`); lists exact (`ListsExact`) |
| RTOS queue | bounded FIFO of messages (`IsBoundedFifo`); no block lost, shared or overwritten; a block always finds room; deletion |
| Semaphore | as many takes succeed as were released, no waiter beside a positive count (`TokensConserved`) |
| Event | a cleared flag is given once (`ClearedOnce`); no thread sleeps over flags that satisfy it (`NoneOversleeps`) |
| Message queue | no slot lost or shared (`SlotsConserved`), FIFO with urgent messages (`MqIsFifo`), no receiver oversleeps (`MqNoLostMessage`) |
| Mutex | exclusion with counted takes; hand-over is heard of; inheritance and its end; the highest thread is served |
| Software timers | list in order across the turn; timer thread never sleeps past the first timer; stop stops; nothing freed is used; nothing leaks; started timers expire |
| Data queue | FIFO (`DqIsFifo`) and, in spite of the low water mark, nobody sleeps for ever (`DqSomeoneComes`) |
| Work queue | works, not the list head, are run (`WorkToDo`); whoever waits for the end of a work is woken (`WorkqueueAnswers`) |
| Core message bus | `bmsg_rx_count` agrees with the messages about (`RxCounted`); a packet is freed once and not while it is used (`PbufHeld`) |
| Requests to the MAC | no freed request is walked over, every sleeping one can be answered (`NodesLive`, `SemaphoreExists`) |

## 2. Modules

| Module | Models | Uses |
|---|---|---|
| `KernelWait` | wait lists, kinds of waiting time, what is left of one | |
| `MemPool`, `Mailbox`, `Semaphore`, `Event`, `MsgQueue`, `Mutex` | the kernel object of that name | `KernelWait` |
| `RtosQueue` | RTOS queue: composes pool and mailbox | `MemPool`, `Mailbox` |
| `BoundedFifo` | what a queue promises its callers (abstract) | |
| `DataQueue` | data queue | `KernelWait` |
| `Workqueue` | work queue: its thread, its callers and their semaphore | `Semaphore` |
| `SoftTimer` | soft timers, timer thread, timers of `rtos_pub.c` | |
| `CoreBus` | senders, bus and `core_thread` | `BoundedFifo` (as the bus) |
| `MsgConfirm` | requests to the MAC and `kmsgbk`, over the bus | `CoreBus` |
| `KernelWaitProofs` | lemmas on wait lists | `KernelWait` |
| `RtosQueueProofs`, `MsgQueueProofs`, `MutexProofs` | theorems on the module of that name | `KernelWaitProofs` |
| `IpcProofs` | theorems on the pool, the mailbox, the semaphore and the event | `KernelWaitProofs` |
| `DeviceIpcProofs` | theorems on `DataQueue` and `Workqueue`, and on the objects together | `MCIpc`, `IpcProofs`, `MsgQueueProofs` |
| `SoftTimerProofs` | theorems on the soft timers | `SoftTimer` |
| `CoreBusProofs` | theorems about `CoreBus` and `MsgConfirm` | `MsgConfirm` |
| `MCIpc` | one instance for all kernel objects, chosen in the initial state | the objects |
| `MCMemPool`, `MCRtosQueue`, `MCSoftTimer`, `MCMutex`, `MCCoreBus` | definitions for TLC: symmetry, priorities, views | |

Operators named `Mut...` are mutants: definitions with a plausible slip of the
code in them, each beside the definition it changes. No specification uses them;
`PROJECT.json` names the property each of them breaks.

### 2.1 Steps and waiting

A step is a critical section, the code from `rt_hw_interrupt_disable` to
`rt_hw_interrupt_enable`, or a test or an access to shared state outside one, and
between two steps of a thread any other thread may take one. An interrupt handler is a thread that only makes calls that do not
wait. Where the code relies on priorities rather than on a lock (timers) the
model has the priorities.

`KernelWait` takes time as one of three kinds, the ones
`rt_tick_from_millisecond` tells apart: `"no_wait"`, `"ticks"`, `"forever"`. A
wait with a limit may time out at any moment, as nothing is known of how long
other threads take. A thread that was resumed and has to wait again has some or
no time left (`Remaining`).

A program point of a thread (`mp_call`, `mb_call`, `pc`, `call`, ...) tells where in
a call it is; for example `mp_call = "alloc"` is a thread about to enter the
critical section of `rt_mp_alloc`, for the first time or after a resume, and
`"alloc_wait"` one that waits on the list. A thread that was given an error or a
result reports it in a step of its own (`MbReturn`, `SemReturn`, ...), as it runs
only later.

**The loops of deletions and resets.** `rt_mp_delete`, `rt_ipc_list_resume_all` and
`rt_data_queue_reset` test the list with interrupts enabled and take its first
thread after they have disabled them. A round of the loop is therefore two steps:
the test (`MpDeleteTest`, `MbDeleteTestRecv`, `SemDeleteTest`, `DqResetTest`, ...) and,
if the list was not empty, one of two: a thread is resumed with an error
(`MpDeleteResume`, ...), or the last one has timed out since and the list head is
taken for a thread (`MpDeleteHead`, `MbDeleteHead`, ...). What then happens is
decided by the memory around the list head. The error that is written lies, seen
from the head, beyond all fields the deletion still reads, but for the message
queue, where it may be `msg_queue_free`, which nobody reads any more. What is read
as the state of the "thread" is arbitrary. Mostly it is not `RT_THREAD_SUSPEND`:
`rt_thread_resume` refuses (`thread.c:698`), and the loop goes on and ends, as the
list is empty. Else the list head is inserted into the scheduler's ready table;
then the object is in the state `"lost"`, and the model stops, as nothing is known
of what the scheduler does next. Both are in the runs and in the proofs: what the
properties say of a freed object holds in every behaviour up to there. The same two
outcomes are those of `MpFreeWild`.

### 2.2 MemPool

| Action | Code (`mempool.c`) |
|---|---|
| `MpAllocTake`, `MpAllocNull`, `MpAllocSuspend` | the three ways through `rt_mp_alloc` |
| `MpTimeout` | `rt_thread_timeout` for a thread that waits in it |
| `MpFreeQuiet`, `MpFreeResume`, `MpFreeWild` | `rt_mp_free` without waiters, with one, and with a counted thread on an empty list |
| `MpDeleteCall`, `MpDeleteTest`, `MpDeleteResume`, `MpDeleteHead`, `MpDeleteFree` | `rt_mp_delete` |

The list of waiting threads is last in first out (`rt_list_insert_after`), as in
the code. `suspend_thread_count` is not decremented by a timeout, as in the code,
so it only grows; `MaxSuspendCount` bounds it. `MpFreeWild` is what the code does
next: it takes the list head for a thread. `wild` then says what came of it:
`"written"`, when `rt_thread_resume` refuses the "thread" because what it reads as
its `stat` is not that of a suspended thread, or `"scheduled"`, after which
nothing is known of the system and the model stops.

### 2.3 Mailbox

| Action | Code (`ipc.c`) |
|---|---|
| `MbSendFull`, `MbSendSuspend`, `MbSendPut` | `rt_mb_send_wait` |
| `MbRecvEmpty`, `MbRecvSuspend`, `MbRecvTake` | `rt_mb_recv` |
| `MbSendTimeout`, `MbRecvTimeout` | `rt_thread_timeout` |
| `MbReset` | `rt_mb_control` with `RT_IPC_CMD_RESET` |
| `MbDeleteCall`, `MbDeleteTest...`, `MbDeleteResume...`, `MbDeleteHead`, `MbDeleteFree` | `rt_mb_delete`, with `rt_ipc_list_resume_all` for the receivers and for the senders |

Wait lists are FIFO: the mailboxes of `rtos_pub.c` are created with
`RT_IPC_FLAG_FIFO`.

### 2.4 RtosQueue and BoundedFifo

`RtosQueue` EXTENDS both and adds `pc`, the caller's buffer `message`, what is in
each block (`content`) and what the call returned. `PushCall`, `PushAlloc`,
`PushCopy`, `PushSend`, `PushSent` are `rtos_push_to_queue`, with the time-out
used for the allocation and once more for the send; `PopRecv`, `PopCopy`, `Free`
are `rtos_pop_from_queue`; `Free` is also the undo of a failed send.
`Deinit...` are `rtos_deinit_queue`.

`BoundedFifo` is what callers may rely on: each push and pop takes effect at one
moment between call and return, in FIFO order, with the content that was pushed,
and a call without time limit fails only because of a deletion. `IsBoundedFifo`
instantiates it with the mapping at the end of `RtosQueue`: the abstract queue is
the content of the blocks in the ring, in ring order.

### 2.5 SoftTimer

A timer of `rtos_pub.c` is identified with the thread that owns it; it points to a
kernel timer (`handle`) in allocated memory (`Objects`, `allocated`).

| Action | Code |
|---|---|
| `InitTimer` | `rtos_init_timer`, `rtos_init_oneshot_timer` |
| `StartTimer` | start, reload and `rtos_change_period` read the handle |
| `StartTimerRemove`, `StartTimerInsert`, `StartTimerLook`, `StartTimerResume` | `rt_timer_start`: its two critical sections, the flags it reads again, its look at the timer thread |
| `StopTimer` | `rtos_stop_timer`, `rtos_stop_oneshot_timer` read the handle |
| `StopRefused`, `StopActive`, `StopTimerRemove`, `StopTimerClear` | `rt_timer_stop`: the test of `RT_TIMER_FLAG_ACTIVATED`, its critical section, the change of the flag |
| `UseFreed` | `rt_timer_start`, `rt_timer_stop` on memory that was freed since the handle was read |
| `DeinitOneshotTimer` | `rtos_deinit_oneshot_timer`, with the deletion left to the timer thread if the function runs |
| `DeinitTimer`, `DeinitTimerFree` | `rtos_deinit_timer` |
| `ReadNextTimeout`, `SuspendSelf`, `Delay`, `NoDelay` | the loop of `rt_thread_timer_entry` |
| `ReadCurrentTick`, `Expire`, `FunctionReturns`, `AfterFunction`, `CheckDone` | `rt_soft_timer_check` |
| `DeletePending`, `ClearOwner` | its `rt_object_delete` of a timer deinitialised meanwhile, and `rtos_deinit_free_beken_timer`, which reads the owner from the memory just freed |
| `Callback...` | what a timer function does with its own timer |
| `Tick` | `rt_tick_increase`, with the thread timer of the timer thread |

Owners in `high`, a set chosen in the initial state from `Preempting`, preempt the timer
thread wherever the scheduler is not locked; the others run only while it sleeps. Ticks are counted modulo `TickMax + 1` and
compared as the code does, in unsigned arithmetic. `MaxLate` bounds how far the
clock gets ahead of the timer thread; with unbounded delay the comparison by
half a turn would be wrong in the code too (its own comment demands less than
half of the range).

Handle and flags are read with interrupts enabled, so a timer may expire, and its
function deinitialise it, between two steps of a call of its owner. The call is
then on a timer that is its owner's no longer (`Overtaken`): what it reads there is
open, and if it goes on to unlink the timer or to change it, it works on freed
memory and the model stops (`"lost"`). Only an owner that does not preempt the timer
thread, with a one-shot timer whose function deinitialises it, can be overtaken.

The model assumes of the owners:
a timer has one owner; an owner does not deinitialise a timer it has started again
while its function runs (`MayDeinit`; the code would free a linked timer, hazard at
`timer.c:620`); a periodic timer is not deinitialised while its function runs
(`DeinitTimer`), which the code does not look at. A timer function works on the
timer of an owner only if that owner does not preempt it (`CallbackRuns`): two
calls on one timer at a time are not protected from each other.

### 2.6 Mutex

| Action | Code (`ipc.c`) |
|---|---|
| `TakeAgain`, `TakeFree`, `TakeRefused`, `TakeSuspend` | the ways through `rt_mutex_take` up to `rt_schedule` |
| `TakeTimeout` | `rt_thread_timeout` |
| `TakeReturn` | the thread runs again and the call returns |
| `ReleaseHeld`, `ReleaseFree`, `ReleaseToWaiter` | `rt_mutex_release` |

`has` is not in the code: it is what a thread was told, the number of takes that
returned success less its releases. The properties compare it with `owner` and
`hold`. `MaxHold` bounds nested takes (the 8 bit counter of the code is a
hazard, not modelled). `Nested` says whether a thread may take a mutex while it
has another.

### 2.7 Semaphore, Event, MsgQueue

| Action | Code (`ipc.c`) |
|---|---|
| `SemTakeNow`, `SemTakeRefused`, `SemTakeSuspend`, `SemTimeout`, `SemReturn` | `rt_sem_take`, `rt_thread_timeout` |
| `SemReleaseCount`, `SemReleaseHand` | `rt_sem_release` without and with a waiting thread |
| `SemReset`, `SemDelete...` | `rt_sem_control`, `rt_sem_delete` |
| `EvRecvNow`, `EvRecvRefused`, `EvRecvSuspend`, `EvTimeout`, `EvReturn` | `rt_event_recv`, `rt_thread_timeout` |
| `EvSend` | `rt_event_send`: one critical section with a loop over the list |
| `EvReset`, `EvDelete...` | `rt_event_control`, `rt_event_delete` |
| `MqSendCall`, `MqSendFull`, `MqSendTake`, `MqSendLink` | `rt_mq_send`, `rt_mq_urgent`: the slot is taken, filled and linked |
| `MqRecvCall`, `MqRecvEmpty`, `MqRecvSuspend`, `MqRecvUnlink`, `MqRecvFree` | `rt_mq_recv` |
| `MqTimeout`, `MqReturn`, `MqReset`, `MqDelete...` | `rt_thread_timeout`, `rt_mq_control`, `rt_mq_delete` |

`sem_credit` is not in the code: it is what callers were promised, the releases
less the takes that returned. `sem_overrun` tells that the value has wrapped at
`SemModulus`, the 16 bits of the code, after which nothing is promised: the
maximal count that `rtos_init_semaphore` is given is ignored by it.

`EvSend` gives each thread of the list the flags that those before it have left
(`SendLoop`): a thread that clears flags takes them from the threads behind it.

A message queue refines `BoundedFifo` with the services `"urgent"` and `"reset"`:
a send takes effect when the slot is linked, a receive when it is unlinked.
`rt_mq_delete` is called when no thread is between two critical sections of a
call (`MqQuiet`); with any other, the code would use freed memory.

### 2.8 DataQueue and Workqueue

| Action | Code |
|---|---|
| `DqPushCall`, `DqPushFull`, `DqPushSuspend`, `DqPushPut` | `rt_data_queue_push` |
| `DqPopCall`, `DqPopEmpty`, `DqPopSuspend`, `DqPopTake` | `rt_data_queue_pop`; `Awakened` is the test of the low water mark |
| `DqTimeout`, `DqReturn` | `rt_thread_timeout` |
| `DqResetCall`, `DqResetTest`, `DqResetPopper`, `DqResetPusher`, `DqResetHead` | `rt_data_queue_reset`, two loops (section 2.1) with the scheduler locked: meanwhile only callers that do not wait and timeouts run |
| `WqTest`, `WqSuspend`, `WqTake`, `WqTakeWild`, `WqClean` | `_workqueue_thread_entry` |
| `WqLock`, `WqAckTry`, `WqAckRelease`, `WqAckDone` | `_workqueue_work_completion`, with the scheduler locked |
| `WqDoWork`, `WqResume` | `rt_workqueue_dowork` and `_critical_work`: the work is added, then the thread resumed |
| `WqCancel`, `WqCancelAll`, `WqCancelSync`, `WqSyncReturn` | `rt_workqueue_cancel_...` |

The indices of a data queue count modulo `IndexModulus` as in the code, in signed
subtraction, and the runs go past the turn. There a full ring no longer looks full,
and a push may overwrite an item that was not popped (hazard at `dataqueue.c:80`).
`dq_overrun`, which is not in the code, remembers that. It only happens once
`put_index` has wrapped (`Overrun`). Up to there the data queue
refines `BoundedFifo` with the service `"expel"`: a reset sends callers home and
keeps the items. After it nothing is said of the items, but the lists stay exact
and no pusher sleeps without somebody to come.

`WqTakeWild` is what the work thread does with an empty list (finding 4); the
model stops there. The semaphore of the work queue is the one of `Semaphore`.

### 2.9 CoreBus and MsgConfirm

| Action | Code |
|---|---|
| `RxSend`, `RxSent`, `RxRefused` | `bmsg_rx_sender` |
| `TxSend`, `TxSent`, `TxRefused` | `bmsg_tx_sender` and its caller in the IP stack |
| `BusStep` | a step of the queue, as `BoundedFifo` specifies it |
| `CorePop`, `CorePopped`, `CoreHandleRx`, `CoreHandleTx`, `CoreWake`, `CoreWoken`, `CoreTransfer`, `CoreHandleNull`, `CoreScheduled` | `core_thread_main` and the handlers |
| `CoreHandleIoctl`, `Forward`, `Forwarded` | `bmsg_ioctl_handler`; the MAC answers through `mr_kmsg_fwd` |
| `ReqSend`, `ReqSendOnly`, `ReqSent`, `ReqRefused`, `ReqGet`, `ReqTimeout`, `ReqExtract`, `ReqReturn` | `rw_msg_send` |
| `RecvWake`, `RecvPop`, `RecvPopped`, `RecvPick`, `RecvMatch`, `RecvNext`, `RecvHandle`, `RecvExtract`, `RecvSet` | `kmsg_bk_thread_main`, `rwnx_recv_msg` |

`CoreBus` stands on the abstract queue, not on `RtosQueue`: what the bus needs of
it is what `IsBoundedFifo` shows. A push without waiting may be refused although
the abstract queue has room, since a block may be on its way back.

`rwnx_recv_msg` pops the list of answers with interrupts enabled, unlike all else
that is done with it: `core_thread`, of higher priority, may link another answer
while the last one is being popped, and that answer is lost with the link
(`RecvPop`, `RecvPopped`, hazard at `rw_msg_rx.c:1047`). Its requester times out.

Priorities matter in `MsgConfirm`: `rwnx_recv_msg` walks over the requests with one
critical section for each node and takes the one it finds off the list in another,
and nothing but its priority keeps the requester from
timing out and freeing it in between. `Urgent` is the set of requesters that
preempt `kmsgbk`; it is empty in the runs, because `kmsgbk` has priority 3 and
the threads that call `rw_msg_send` (lwIP 4, wpa_supplicant and hostapd 5,
`beken378/app/config/sys_config_*.h:19-29`) have lower ones. `rx_refused` is not in the code; it counts the
messages that were counted and then refused.


## 3. Model checking

### 3.1 Runs

| Run | Instance | Distinct states | Shows |
|---|---|---|---|
| `ipc_objects` | 3 threads; pool, mailbox, semaphore, work queue, message queue, event or data queue with 2 blocks, slots, works, flags or places | 461 312 | all properties of the kernel objects and of the device queues of section 1.4, the refinements `MqIsFifo` and `DqIsFifo` |
| `mempool_count` | 2 threads, 1 block | | **violation**, finding 1 |
| `rtos_queue` | 3 threads, 2 blocks, 2 messages | about 855 000 | block ownership, room for every block, deletion, refinement of `BoundedFifo` |
| `rtos_queue_live` | a server and 2 threads, 1 block | 57 920 | messages are taken, waiting pushers served |
| `soft_timers` | a one-shot and a periodic timer, with owners that preempt the timer thread or not, 2 kernel timers, 9 ticks; functions that stop or deinitialise | about 2 233 000 | order, wake-ups of the timer thread (but for what it overlooks), stop, deletion while the function runs, leaks |
| `soft_timer_live` | the same timers, 7 ticks, functions that start | 250 336 | started timers expire |
| `soft_timer_preempt` | one preempting owner | | **violation**, finding 2 |
| `mutex` | 4 threads of 3 priorities, 1 mutex | 3 279 | exclusion, hand-over, inheritance, service of the highest |
| `mutex_inherit` | the same, 2 mutexes | | **violation**, finding 3 |
| `workqueue_wild` | as in `ipc_objects` | | **violation**, finding 4 |
| `core_bus` | an interrupt, 2 threads of the IP stack with 2 packets, or 2 requesters with 2 kinds of requests; 2 places | 570 903 | counts and references of the bus, requests and late answers |
| `confirm_refused` | requesters whose request the bus may refuse | | **violation**, finding 5 |

### 3.2 Bounds and why they are enough

- *Kernel objects*: three threads are one that was resumed and has not run, one
  that takes what it was resumed for, and one that waits behind or that resumes;
  a fourth shows no further behaviour of a list, and the theorems of section 4
  hold for any number. Two blocks or slots give an empty, a full and a partly full
  object and let the ring turn.
- `MaxSuspendCount` is 5 in `ipc_objects`, more timeouts than there are threads,
  and 2 in `rtos_queue`: what matters of the count is whether it exceeds the
  length of the list, which one timeout makes it do.
- `SemModulus` 3 with `MaxCredit` 4: the value wraps. `IndexModulus` 4 with
  `MaxPushes` 5 and `RingSize` 2: the ring turns and so do the indices, with an item
  overwritten or not. A size that does not divide `IndexModulus` is in the proofs
  only. `Lwm` 1 of 2: some pops resume a pusher and some do not.
- *Mails* in `ipc_objects` are one value: the properties of the mailbox do not
  look at what a mail is. In `RtosQueue` they are the blocks.
- *Timers*: two timers make an order and a wrong first one; two kernel timers
  let one owner initialise its timer anew while the old one is still to be deleted
  and the other has none. `TickMax` is the least that leaves `SoftTimerAssumption` true for the
  delays and lateness of the instance, and each run passes the turn of the
  counter many times.
- *Mutex*: two threads of equal priority between a higher and a lower one show
  the order of the list and inheritance in a chain of releases. Two takes of one
  mutex (`MaxHold`) show the counting.
- *Bus*: two places for up to three senders make it full; the limit of two
  messages in `bmsg_rx_sender` is the code's. `MaxSema` and `MaxPending` leave two
  answers on their way, so that one may be late and meet a request of the same
  kind. `core_bus` uses the bus for frames and packets or for requests
  (`users`), not for both: they share only the queue, and what the others do to
  it shows as refusals, which it may answer at any time. `BusHasRoom` keeps out
  finding 5, which has its own run.

No state is left out by a constraint. Two failures of the code are in the
instances of the timers and excepted in the property: `rt_timer_list_next_timeout`
returns `RT_TICK_MAX` when there is no timer, but also for a timer that is due at
that tick (hazard at `timer.c:659`), and a preempting owner may start a timer after
the timer thread has looked (finding 2). `overlooked`, which is not in the code,
remembers either from the step in which it happens until the timer thread looks
at the list again, and `TimerThreadAwake` says nothing meanwhile. Everything else
that could make the timer thread sleep past a timer, it does say.
`TimersExpire` has the premise that no timer is ever due at that tick
(`NoneAtLastTick`).

### 3.3 Symmetry, views, deadlock

Where a run has both a symmetry and a view the number of states found varies a
little with the order of the search, as TLC picks the representative of a state
before it applies the view.

Symmetry sets are used only in runs without liveness properties, over threads of
the same role, blocks, slots, works, flags, messages, nodes, ids, packets and
kernel timers. None of them is used in an ordering. In `ipc_objects` blocks,
slots, works and flags share their names, which is sound because only one object
is in use in a behaviour. The initial states pick one message for all buffers,
which every permutation maps to another initial state. `Size`, `Mails` and
`NoMail` of `RtosQueue` are tied to the blocks by assumption. `CHOOSE` in
`Unlink`, `Inserted` and `EnqueueByPriority` picks positions, never members of a
permuted set.

The views named `LiveState` drop values that are written again before they are
read. For the timers: timeouts of timers that are not started, `init_tick` of
memory that is not allocated, the timer a call is on where it is the owner's no
longer or is only looked up again, and a local variable of the timer thread where
it is dead. For the queues: results, the buffers of threads that neither send
nor have just received, the content of free blocks, slots and empty places; no
step and no property, nor the refinement mapping's effect on later steps, depends
on them. `rtos_queue_live` has no view and no symmetry, `soft_timer_live` a view and no
symmetry. Its view is one for liveness too: two states with the same view take the
same actions to states with the same view (what is left out is not read before it is
written), so that they enable the same actions, no step of an action with fairness
changes only what is left out, and `Linked`, of which the property speaks, is in
the view.

Deadlock is checked for the live and the violating run of the timers and for one
mutex. It is not in `soft_timers`, which stops when an operation is `"lost"`, nor for
objects that can be deleted, which stop then (or after one is `"lost"`, `wild` is
`"scheduled"` or `wq_wild`),
nor for the data queue and the bus, whose counts are bounded, nor for two mutexes,
which two threads may take in opposite orders.

### 3.4 Fairness

- *Queue*: weak fairness of each thread's steps inside a call: the scheduler runs
  a ready thread in the end and a started thread timer expires; a wait without
  limit has no step. Servers call `rtos_pop_from_queue` in a loop, as
  `core_thread_main` does. Nothing is assumed of when other threads call.
- *Timers*: the tick interrupt comes, the timer thread runs when no thread of
  higher priority does, owners finish their calls. Strong fairness of
  `FunctionReturns`: a function that starts and stops timers does so only
  finitely often and returns.
- *Mutex*: a thread that has a mutex gives it up in the end, whatever else it
  does in between, hence strong fairness of the releases; a resumed thread
  returns. Timeouts, takes and refusals need no fairness.

`WaitersAreServed` says only that free blocks and a waiter do not stay together;
a single waiter may starve, as the list is last in first out. `HighestIsServed`
says it for the thread of the highest priority only: others may starve. For the
other objects the question is put as a safety property: whoever sleeps has
someone on the way who will resume it or take what it waits for
(`MbNoLostWakeup`, `MqNoLostMessage`, `DqSomeoneComes`, `WorkqueueAnswers`).

### 3.5 Findings

1. `mempool.c:431`. A thread that times out in `rt_mp_alloc` is not subtracted
   from `suspend_thread_count`. The next `rt_mp_free` takes the head of an empty
   list for a thread. (`MpResumesAThread`, run `mempool_count`.)
2. `timer.c:401`. The timer thread looks at the list and suspends itself without
   locking anything. A thread of higher priority that starts a timer in between
   finds it ready and does not resume it; it sleeps with a timer in its list
   until another one is started. (`SuspendedWithoutTimers`, run
   `soft_timer_preempt`.)
3. `ipc.c:815`. `rt_mutex_release` restores the priority saved when that mutex
   was taken, whatever the thread inherited through another one it still has.
   (`PriorityInherited`, run `mutex_inherit`.)
4. `workqueue.c:72`. The work thread does not test its list again after it was
   resumed. A work cancelled in between, or one taken before its
   `rt_workqueue_dowork` resumes the thread, leaves it with an empty list, whose
   head it takes for a work. (`WorkToDo`, run `workqueue_wild`.)
5. `rw_msg_tx.c:69`. A request that the bus refuses is freed and stays linked in
   `rw_msg_tx_head`. The next answer with its id finds it. (`SemaphoreExists`,
   run `confirm_refused`.)

`PROJECT.json` quotes the lines these contradict.

## 4. Proofs

All theorems hold for every value of the constants that the named assumptions
allow: any finite set of threads, any number of blocks, slots, messages, mutexes,
priorities, nodes and packets. None of the modules proved about has a recursive
operator.

Every proof has the same form: an inductive invariant, a lemma `Init... => Inv`,
one lemma for each action, `[Next]_vars` as the sum of those, and the theorem. The
invariant is always more than the property, and what has to be added is what makes
the code work.

| Module | Invariant | What it adds and why | Theorems |
|---|---|---|---|
| `IpcProofs` | `SemInv` | who waits is on the list once; the threads counted in `Taken` are those resumed and not yet back | `TokensAreConserved`, `SemListIsExact` |
| | `MpInv` | a thread in `rt_mp_alloc` has no block (`MpEmptyHanded`); nobody looks for one once the pool is being deleted (`MpLeftAlone`), and nobody sleeps when it is freed (`MpNoneLeft`) | `CountersAreRight`, `NoWakeupIsLost`, `FreedPoolIsUntouched` |
| | `MbInv` | each list holds exactly those who sleep for it (`MbPlaced`); a deletion finds nobody about to look and resumes all before it frees (`MbDeserted`) | `NeitherSideOversleeps`, `FreedMailboxIsUntouched` |
| | `EvInv` | the list is exact; inside one `EvSend`, `EvPassed` is the invariant of its loop | `NobodyOversleeps`, `FlagsAreClearedOnce` |
| `MsgQueueProofs` | `MqInv` | a thread has a slot exactly between its two critical sections (`Hands`) | `SlotsAreConserved`, `NoMessageIsMissed`, `MqListIsExact`, `QueueIsFifo` |
| `RtosQueueProofs` | `QueueInv`, `FifoInv` | see below | `TypeCorrect`, `OwnershipIsUnique`, `BlocksAreConserved`, `RoomForEveryBlock`, `NothingFreedIsTouched`, `QueueIsFifo` |
| `MutexProofs` | `MutexInv`, `PriorityInv` | see below | `TypeCorrect`, `MutualExclusion`, `FreeWithoutWaiters`, `HandOverReceived`, `Inherited`, `Restored` |
| `SoftTimerProofs` | `TimerInv` | see below | `TimerTypes`, `StaysSorted`, `StopIsFinal`, `NothingFreedIsUsed`, `NoTimerLeaks`, `SleepsNotPastTimer` |
| `DeviceIpcProofs` | `DqInv` | the lists are exact; nobody has popped more than was pushed, nor, until an item is overwritten, pushed more than fits; none is before `put_index` has wrapped | `SomeoneComes`, `DataQueueIsFifo` |
| | `WqInv` | who may be in the semaphore of a work queue, and when it has a token | `SyncIsAnswered`, `WorksAreInOnePlace` |
| | `IpcInv` | the invariants above and `MqInv`, and who is in an object that is being deleted (`SemDeserted`, `MqDeserted`) | `IpcTypes`, `ListsAreExact`, `NothingFreedIsTouched`, `CancelIsAnswered` |
| `CoreBusProofs` | `CountInv`, `ReqInv`, `TypeInv` | see below | `FramesAreCounted`, `PacketsAreHeld`, `RequestsAreLive`, `SemaphoreIsThere`, `BusIsTyped` |
| `KernelWaitProofs` | | lemmas: what the operations on wait lists do to their members, and that they keep them distinct | |

**No lost wake-up.** `NoWakeupIsLost`, `NeitherSideOversleeps` and
`NoMessageIsMissed` are about numbers: as many threads are about to look as there
are things for them to find, or nobody sleeps. Each step adds or removes at most
one thread and one thing, and the lemmas compare the cardinalities before and
after.

**RTOS queue.** `OneOwner` alone is not inductive: to know that a send does not
overwrite a slot one has to know that there is room, and there is room because the
sender's own block is not in the ring and the ring is as large as the pool.
`QueueInv` therefore adds: where a thread is in the queue determines where it is in
pool and mailbox and whether it has a block (`Points`); the lists hold exactly the
waiting threads (`Lists`); the offsets agree with `entry` (`Ring`). `PutFills` and
`TakeEmpties` say what the two operations do to the set of occupied slots.
`FifoInv` goes on from there: a call waits as long as it was told (`Timed`), the
block that is sent holds the caller's message (`Written`), and who is inside while
the queue is deinitialised (`Deserted`). With it every step of the queue maps to a
step or a stutter of `BoundedFifo`: putting a block into the ring appends its
content to the abstract queue, taking one removes its head, and all else is a call,
a return, a refusal or invisible.

**Message queue.** The same for `MqIsFifo`; that a send finds room in the abstract
queue is a fact about slots: the one in hand is not in the list. `InNoTime`
says that no time is left to calls that have none to wait.

**Mutex.** A release makes a thread the owner before that thread runs; so besides
what threads were told, the invariant says that a thread that was resumed, and
only such a thread, is an owner that does not know (`Calls`), and that the lists
hold exactly those that wait (`Lists`), since otherwise a thread that timed out
could still be handed the mutex. These theorems hold for nested mutexes too.
`Inherited` and `Restored` have the premise `~Nested`, without which the code does
not do what they say (finding 3). `PriorityInv` adds that a thread owns at most one
mutex, that the priority a mutex has noted for its owner is the one the owner was
created with, and that each list is in the order of priorities, so that a mutex is
handed to a thread that nobody left on the list surpasses.

**Software timers.** The list is in order as the code compares ticks, by half a
turn of the counter, which is transitive only as long as all timers are close
enough together. `AllInTime` says that they are: each is at most `MaxLate` ticks
past, or so far ahead that `MaxLate` more fit into half a turn. There the
comparison is that of the integers `Ahead`, and an insertion by `Inserted` keeps
the order. For the memory, `TimerInv` says who still points to each kernel timer:
its owner (`HandlesHeld`), a call of its owner (`CallsHeld`), the timer thread and
the function it runs (`ThreadWorksOn`), and what the timer's flags say then
(`FlagsHeld`, `ActiveHeld`); in particular a timer marked to be deleted is the one
whose function runs, and in no list. A call that its timer's function may overtake points to the
owner's timer or the owner has none (`MayBeOvertaken`). `SleepsNotPastTimer` holds
for owners of any priority: once the timer thread has decided to sleep, each timer
that comes to the front of the list was put there by an owner that resumes it or
finds it awake, or `overlooked` has been set.

**Event.** `rt_event_send` goes along the list with what is left of the flags.
`EvPassed` is what holds when it has passed `i` threads: those it left are not
satisfied by what is left, and nobody got flags that another one has cleared. As
flags only go, whom it passed by is not satisfied at the end either. The loop is a
recursive function of the model; the proof steps along it by `CountingUp`, an
induction over the places of a list for a set, not an operator.

**Data queue.** Its theorems hold for any width of the indices and past their turn.
As long as no item was overwritten there are no more than `RingSize` of them, and
the ring that does not look full has a place for another, or the push is the one
that sets `dq_overrun` (`Overruns`). Before `put_index` wraps the indices are the
counts, and then the first is always the case (`DqNoneOverwritten`). A pop resumes a pusher only at the low
water mark; that nobody sleeps for ever follows from `DqRoomFilled`: while a pusher
sleeps the items and the pushers on their way are more than the mark, so pops down
to it are still to come.

**Work queue.** Whoever sleeps in `rt_workqueue_cancel_work_sync` waits for the
work that is being done, since it looks and suspends itself in one critical
section. The work thread leaves its loop over the semaphore only by taking back a
token, which it finds only if nobody waited when it released it (`WqToken`): so the
value is 0 whenever it is not acknowledging, no call returns too early, and none
sleeps when it goes on.

**The objects together.** `MCIpc` is a specification like the others, and
`DeviceIpcProofs` states of it what the run `ipc_objects` checks of several objects
under one name. Each object takes steps of its own or none (`IpcSteps`), so that
its invariant is kept. `FreedUntouched` needs in addition who may be inside while
an object is deleted.

**Core bus.** `CountInv` counts, for any set of messages, how many are on the way
into the bus, in it, on the way out, refused and being handled. A step moves at
most one message, so `OnlyCounts` reduces it to the caller that takes it; queue
lengths follow from `PlacesAppend` and `PlacesTail`. `RxCounted` and `PbufHeld` are
two instances. `ReqInv` says where the node of a request is at each point of
`rw_msg_send` and `rwnx_recv_msg`: linked, found, signalled or nowhere. Its theorems
have premises: the bus refuses no request that is waited for (finding 5 is what
happens otherwise) and no requester preempts `kmsgbk`. `TypeInv`, which
`BusIsTyped` rests on, has neither: that `bmsg_rx_count` stays within two and no
packet is freed below zero follows from the counts (`LimitInv`), and that the MAC
has no more than `MaxPending` requests from counting those under way with those it
has not answered; those the bus has refused are counted on the other side until
their requesters look (`AskedInv`).

Assumptions: `ThreadsAssumption` (finitely many threads), `MemPoolAssumption`,
`MailboxAssumption`, `SemaphoreAssumption`, `MsgQueueAssumption`, `MutexAssumption`
(sizes are positive, the names of nothing are not names of something),
`RtosQueueAssumption` (pool and mailbox are of the same size), `CoreBusAssumption`
(callers are finitely many and have one name for each kind of call),
`MsgConfirmAssumption`, `DataQueueAssumption` (the low water mark lies below the size),
`WorkqueueAssumption`, `SoftTimerAssumption` (delays and lateness fit into half a
turn). TLC evaluates them in every run of the modules that declare
them.

Some theorems state, for an object by itself, a part of what a run checks for all
of them under one name: `MqListIsExact` and `SemListIsExact` are parts of
`ListsExact`, `FreedPoolIsUntouched` and `FreedMailboxIsUntouched` of
`FreedUntouched`, `SyncIsAnswered` of `WorkqueueAnswers`. `FreeWithoutWaiters`
states `FieldsAgree`, which no run lists: a free mutex has nobody waiting for it.

Only model-checked:

- the liveness properties (`HeadIsServed`, `WaitersAreServed`, `TimersExpire`,
  `HighestIsServed`), which need fairness and ENABLED.

Every invariant and every other action property or refinement of a passing run is
stated by a theorem, some under the premises named above.

## 5. What is not modelled

- *Of kernel objects*: an error of a waiting thread other than timeout, reset and
  deletion (signals); `rt_mutex_delete` and `rt_mutex_detach`; the end of a thread
  that owns a mutex; a release by a thread that is not the owner (the code refuses
  it and changes nothing).
- *Of timers*: hard timers, of which the thread timers are present as timeouts at
  any moment; `rt_timer_detach`; several users of one timer; the upper rows of the
  skip list.
- *Of queues*: `rtos_push_to_queue_front`, which returns an error; the callback
  and `rt_data_queue_peak` of the data queue, and `rt_workqueue_destroy`.
- *Of the core bus*: messages of power save, media and raw frames, which do no more
  than let the kernel of the MAC run; the kernel of the MAC itself (`ke_msg`,
  `co_list`), a library of which the models have what its callers see.
- *Completion, ring buffer, pipe, wait queue*: one flag or one reader and one
  writer. *Heap*: sequential allocators under one lock.
- *Numbers*: the 32 bit arithmetic of `rt_tick_from_millisecond`, the 8 bits of
  `hold`.
- *Memory after it was freed*: what becomes of it is not followed. Where the code
  uses it (`UseFreed`) or takes a list head for a thread or a work and schedules or
  runs it, the models stop.
- *Stated as hazards and left out of the runs' inputs*: a timer deinitialised by an
  owner that started it again while its function runs; a periodic timer
  deinitialised while its function runs; two users of one timer.
- *Work functions* and timer functions are taken not to wait.
- *Drivers, radio, vendored libraries, applications*: decided by hardware or by
  other projects' code. They are nearly all of the repository's lines, so that the
  modelled part is a small share of them.

Some properties make allowances: `TimerThreadAwake` those of section 3.2; `NoneFreed`
leaves out what a call does that the function of its timer overtakes by deinitialising
it (hazard at `rtos_pub.c:516`); `DqIsFifo` and, for poppers, `DqSomeoneComes` hold
until an item is overwritten, after the wrap; `NoneLeaked` leaves out owners that
preempt the timer thread, and `StopStops` one-shot timers that are started again while
their function runs, by the function or by such an owner: the code does not do it for
them. `RxCounted` counts refused messages for ever because the code does.

## 6. State of the project

Done: all kernel objects but the completion, the RTOS queue, the data queue, the
work queue, software timers, the core bus and the requests to the MAC; the three
implementations of `BoundedFifo` proved.

What a continuation could add, by value:

1. `rt_mutex_delete` with waiters (hazard at `ipc.c:623`) and the 8 bit `hold`
   (`ipc.c:670`).
2. The thread life cycle: ready queue, deferred deletion by the idle thread.
3. The heaps as operators on a list of blocks.
