----------------------------- MODULE DataQueue ------------------------------
(***************************************************************************)
(* rt-thread/components/drivers/src/dataqueue.c: the ring of items between  *)
(* a device driver and its users.  Two indices of 16 bits count the pushes  *)
(* and the pops; a pop resumes a waiting pusher only when no more than      *)
(* Lwm items are left.                                                      *)
(*                                                                          *)
(* A step is a critical section; see MemPool.  rt_data_queue_reset resumes  *)
(* the waiting threads one by one with the scheduler locked: meanwhile only *)
(* interrupt handlers, which never wait, and thread timers run.  It keeps   *)
(* the items.  rt_data_queue_peak changes nothing and is left out, and so   *)
(* is the callback evt_notify.                                              *)
(***************************************************************************)
EXTENDS KernelWait, Integers

CONSTANTS Items,          \* the items
          RingSize,       \* queue->size
          Lwm,            \* queue->lwm, the low water mark
          IndexModulus,   \* the indices wrap here; 2^16 in the code
          MaxPushes       \* bound on the number of pushes

ASSUME DataQueueAssumption ==
  /\ RingSize \in Nat \ {0}
  /\ Lwm \in 0 .. RingSize - 1
  /\ IndexModulus \in Nat
  /\ RingSize < IndexModulus
  /\ MaxPushes \in Nat

VARIABLES
  dq_puts, dq_gets,     \* the pushes and pops so far
  dq_item,              \* queue->queue
  dq_pushers,           \* queue->suspended_push_list
  dq_poppers,           \* queue->suspended_pop_list
  dq_call,              \* where a thread is in a call, or how its last ended
  dq_time,              \* its waiting time, the same at every wait
  dq_buffer,            \* what it pushes or has popped
  dq_reset,             \* rt_data_queue_reset is about to test a list
                        \* ("poppers", "pushers") or found it not empty
                        \* ("popper", "pusher"); "lost": see MemPool
  dq_overrun            \* history: an item was overwritten before it was popped

dqVars == <<dq_puts, dq_gets, dq_item, dq_pushers, dq_poppers, dq_call,
            dq_time, dq_buffer, dq_reset, dq_overrun>>

DqIdle == {"none", "ok", "error"}

DqTypeOK ==
  /\ dq_puts \in 0 .. MaxPushes
  /\ dq_gets \in 0 .. MaxPushes
  /\ dq_item \in [0 .. RingSize - 1 -> Items]
  /\ dq_pushers \in Seq(Threads)
  /\ dq_poppers \in Seq(Threads)
  /\ dq_call \in [Threads -> DqIdle \cup
                    {"push", "push_wait", "pushed", "push_error",
                     "pop", "pop_wait", "popped", "pop_error"}]
  /\ dq_time \in [Threads -> Timeouts]
  /\ dq_buffer \in [Threads -> Items]
  /\ dq_reset \in {"no", "poppers", "popper", "pushers", "pusher", "lost"}
  /\ dq_overrun \in BOOLEAN

\* rt_data_queue_init.  What the ring and the buffers hold does not matter.
DqInit ==
  /\ dq_puts = 0
  /\ dq_gets = 0
  /\ dq_pushers = <<>>
  /\ dq_poppers = <<>>
  /\ dq_call = [t \in Threads |-> "none"]
  /\ dq_time = [t \in Threads |-> "no_wait"]
  /\ \E m \in Items : /\ dq_item = [i \in 0 .. RingSize - 1 |-> m]
                         /\ dq_buffer = [t \in Threads |-> m]
  /\ dq_reset = "no"
  /\ dq_overrun = FALSE

put_index == dq_puts % IndexModulus
get_index == dq_gets % IndexModulus

\* The place of the item that is pushed after n others.
Slot(n) == (n % IndexModulus) % RingSize

\* MUTANT of IsFull: the comparison is the wrong way round.
MutIsFullInverted == get_index - put_index = RingSize

\* The operands are promoted to int: the difference may be negative.
IsFull == put_index - get_index = RingSize

IsEmpty == get_index = put_index

\* Thread t can take a step while the scheduler may be locked.
Runs(t) == dq_reset = "no" \/ dq_time[t] = "no_wait"

-----------------------------------------------------------------------------
(* rt_data_queue_push *)

DqPushCall(t, m, time) ==
  /\ dq_call[t] \in DqIdle
  /\ dq_reset = "no" \/ time = "no_wait"
  /\ dq_call' = [dq_call EXCEPT ![t] = "push"]
  /\ dq_time' = [dq_time EXCEPT ![t] = time]
  /\ dq_buffer' = [dq_buffer EXCEPT ![t] = m]
  /\ UNCHANGED <<dq_puts, dq_gets, dq_item, dq_pushers, dq_poppers, dq_reset,
                 dq_overrun>>

\* "queue is full", and no time to wait.
DqPushFull(t) ==
  /\ dq_call[t] = "push"
  /\ IsFull
  /\ dq_time[t] = "no_wait"
  /\ dq_call' = [dq_call EXCEPT ![t] = "push_error"]
  /\ UNCHANGED <<dq_puts, dq_gets, dq_item, dq_pushers, dq_poppers, dq_time,
                 dq_buffer, dq_reset, dq_overrun>>

\* "suspend thread on the push list"
DqPushSuspend(t) ==
  /\ Runs(t)
  /\ dq_call[t] = "push"
  /\ IsFull
  /\ dq_time[t] # "no_wait"
  /\ dq_pushers' = EnqueueLast(dq_pushers, t)
  /\ dq_call' = [dq_call EXCEPT ![t] = "push_wait"]
  /\ UNCHANGED <<dq_puts, dq_gets, dq_item, dq_poppers, dq_time, dq_buffer,
                 dq_reset, dq_overrun>>

\* The points of the threads after t moved to `to' and the first thread of
\* a wait list, if there is one, was resumed to `again'.
DqMoved(t, to, list, again) ==
  IF list = <<>> THEN [dq_call EXCEPT ![t] = to]
                 ELSE [dq_call EXCEPT ![t] = to, ![Head(list)] = again]

DqResumed(list) == IF list = <<>> THEN <<>> ELSE Tail(list)

\* The item to be pushed overwrites one that was not popped: as put_index
\* wraps, the ring no longer looks full, or the place after the last item is
\* not the next one.
Overruns ==
  \/ dq_puts - dq_gets >= RingSize
  \/ \E n \in dq_gets .. dq_puts - 1 : Slot(n) = Slot(dq_puts)

\* The item is put into the ring and the first popper resumed.
DqPushPut(t) ==
  /\ Runs(t)
  /\ dq_call[t] = "push"
  /\ ~IsFull
  /\ dq_puts < MaxPushes
  /\ dq_item' = [dq_item EXCEPT ![Slot(dq_puts)] = dq_buffer[t]]
  /\ dq_puts' = dq_puts + 1
  /\ dq_overrun' = (dq_overrun \/ Overruns)
  /\ dq_call' = DqMoved(t, "pushed", dq_poppers, "pop")
  /\ dq_poppers' = DqResumed(dq_poppers)
  /\ UNCHANGED <<dq_gets, dq_pushers, dq_time, dq_buffer, dq_reset>>

-----------------------------------------------------------------------------
(* rt_data_queue_pop *)

DqPopCall(t, time) ==
  /\ dq_call[t] \in DqIdle
  /\ dq_reset = "no" \/ time = "no_wait"
  /\ dq_call' = [dq_call EXCEPT ![t] = "pop"]
  /\ dq_time' = [dq_time EXCEPT ![t] = time]
  /\ UNCHANGED <<dq_puts, dq_gets, dq_item, dq_pushers, dq_poppers, dq_buffer,
                 dq_reset, dq_overrun>>

\* "queue is empty", and no time to wait.
DqPopEmpty(t) ==
  /\ dq_call[t] = "pop"
  /\ IsEmpty
  /\ dq_time[t] = "no_wait"
  /\ dq_call' = [dq_call EXCEPT ![t] = "pop_error"]
  /\ UNCHANGED <<dq_puts, dq_gets, dq_item, dq_pushers, dq_poppers, dq_time,
                 dq_buffer, dq_reset, dq_overrun>>

\* "suspend thread on the pop list"
DqPopSuspend(t) ==
  /\ Runs(t)
  /\ dq_call[t] = "pop"
  /\ IsEmpty
  /\ dq_time[t] # "no_wait"
  /\ dq_poppers' = EnqueueLast(dq_poppers, t)
  /\ dq_call' = [dq_call EXCEPT ![t] = "pop_wait"]
  /\ UNCHANGED <<dq_puts, dq_gets, dq_item, dq_pushers, dq_time, dq_buffer,
                 dq_reset, dq_overrun>>

\* MUTANT of Awakened: pushers are only resumed once the ring is empty.
MutAwakenedEmpty == IF dq_puts = dq_gets + 1 THEN dq_pushers ELSE <<>>

\* The pushers whose first a pop resumes: none above the low water mark.
Awakened ==
  IF put_index - ((dq_gets + 1) % IndexModulus) <= Lwm THEN dq_pushers ELSE <<>>

\* The item is taken out of the ring and, at the low water mark, the first
\* pusher resumed.
DqPopTake(t) ==
  /\ Runs(t)
  /\ dq_call[t] = "pop"
  /\ ~IsEmpty
  /\ dq_buffer' = [dq_buffer EXCEPT ![t] = dq_item[Slot(dq_gets)]]
  /\ dq_gets' = dq_gets + 1
  /\ dq_call' = DqMoved(t, "popped", Awakened, "push")
  /\ dq_pushers' = IF Awakened = <<>> THEN dq_pushers ELSE Tail(dq_pushers)
  /\ UNCHANGED <<dq_puts, dq_item, dq_poppers, dq_time, dq_reset, dq_overrun>>

-----------------------------------------------------------------------------
\* rt_thread_timeout for a thread that waits on one of the lists.
DqTimeout(t) ==
  /\ dq_call[t] \in {"push_wait", "pop_wait"}
  /\ dq_time[t] = "ticks"
  /\ IF dq_call[t] = "push_wait"
     THEN dq_pushers' = Unlink(dq_pushers, t) /\ UNCHANGED dq_poppers
     ELSE dq_poppers' = Unlink(dq_poppers, t) /\ UNCHANGED dq_pushers
  /\ dq_call' = [dq_call EXCEPT ![t] = IF @ = "push_wait" THEN "push_error" ELSE "pop_error"]
  /\ UNCHANGED <<dq_puts, dq_gets, dq_item, dq_time, dq_buffer, dq_reset, dq_overrun>>

\* The caller takes up the result of its call; the locals of the call go.
DqReturn(t) ==
  /\ Runs(t)
  /\ dq_call[t] \in {"pushed", "push_error", "popped", "pop_error"}
  /\ dq_call' = [dq_call EXCEPT ![t] = IF @ \in {"pushed", "popped"} THEN "ok" ELSE "error"]
  /\ dq_time' = [dq_time EXCEPT ![t] = "no_wait"]
  /\ UNCHANGED <<dq_puts, dq_gets, dq_item, dq_pushers, dq_poppers, dq_buffer,
                 dq_reset, dq_overrun>>

-----------------------------------------------------------------------------
(* rt_data_queue_reset *)

\* rt_enter_critical
DqResetCall ==
  /\ dq_reset = "no"
  /\ dq_reset' = "poppers"
  /\ UNCHANGED <<dq_puts, dq_gets, dq_item, dq_pushers, dq_poppers, dq_call,
                 dq_time, dq_buffer, dq_overrun>>

\* The conditions of the two loops, tested with interrupts enabled;
\* rt_exit_critical after the second.
DqResetTest ==
  /\ \/ dq_reset = "poppers" /\ dq_reset' = IF dq_poppers = <<>> THEN "pushers" ELSE "popper"
     \/ dq_reset = "pushers" /\ dq_reset' = IF dq_pushers = <<>> THEN "no" ELSE "pusher"
  /\ UNCHANGED <<dq_puts, dq_gets, dq_item, dq_pushers, dq_poppers, dq_call,
                 dq_time, dq_buffer, dq_overrun>>

\* One round of the first loop.
DqResetPopper ==
  /\ dq_reset = "popper"
  /\ dq_poppers # <<>>
  /\ dq_reset' = "poppers"
  /\ dq_call' = [dq_call EXCEPT ![Head(dq_poppers)] = "pop_error"]
  /\ dq_poppers' = Tail(dq_poppers)
  /\ UNCHANGED <<dq_puts, dq_gets, dq_item, dq_pushers, dq_time, dq_buffer, dq_overrun>>

\* One round of the second loop.
DqResetPusher ==
  /\ dq_reset = "pusher"
  /\ dq_pushers # <<>>
  /\ dq_reset' = "pushers"
  /\ dq_call' = [dq_call EXCEPT ![Head(dq_pushers)] = "push_error"]
  /\ dq_pushers' = Tail(dq_pushers)
  /\ UNCHANGED <<dq_puts, dq_gets, dq_item, dq_poppers, dq_time, dq_buffer, dq_overrun>>

\* Since the test the last thread has timed out or was resumed by an
\* interrupt handler, and the list head is taken for a thread: see MemPool.
DqResetHead ==
  /\ \/ /\ dq_reset = "popper" /\ dq_poppers = <<>>
        /\ dq_reset' \in {"poppers", "lost"}
     \/ /\ dq_reset = "pusher" /\ dq_pushers = <<>>
        /\ dq_reset' \in {"pushers", "lost"}
  /\ UNCHANGED <<dq_puts, dq_gets, dq_item, dq_pushers, dq_poppers, dq_call,
                 dq_time, dq_buffer, dq_overrun>>

DqResetStep == DqResetTest \/ DqResetPopper \/ DqResetPusher \/ DqResetHead

-----------------------------------------------------------------------------
DqStep(t) ==
  \/ \E time \in Timeouts : \/ \E m \in Items : DqPushCall(t, m, time)
                            \/ DqPopCall(t, time)
  \/ DqPushFull(t) \/ DqPushSuspend(t) \/ DqPushPut(t)
  \/ DqPopEmpty(t) \/ DqPopSuspend(t) \/ DqPopTake(t)
  \/ DqTimeout(t) \/ DqReturn(t)

DqNext ==
  /\ dq_reset # "lost"
  /\ (\E t \in Threads : DqStep(t)) \/ DqResetCall \/ DqResetStep

DqSpec == DqInit /\ [][DqNext]_dqVars

-----------------------------------------------------------------------------
(* Properties *)

\* Nobody sleeps for ever on one side while the other side has done its
\* part.  Items have poppers on their way to take them as long as poppers
\* wait, unless items have been overwritten: after that the queue may look
\* empty although it is not.  As long as pushers wait, the queue is above the
\* low water mark or enough pushers are on their way to bring it there, after
\* which the pops below the mark resume the next ones.
DqSomeoneComes ==
  /\ dq_poppers # <<>> /\ ~dq_overrun =>
       dq_puts - dq_gets <= Cardinality({t \in Threads : dq_call[t] = "pop"})
  /\ dq_pushers # <<>> =>
       dq_puts - dq_gets + Cardinality({t \in Threads : dq_call[t] = "push"}) > Lwm

\* The threads on the lists are those that wait, each once.
DqListsExact ==
  /\ Distinct(dq_pushers) /\ Distinct(dq_poppers)
  /\ Waiting(dq_pushers) = {t \in Threads : dq_call[t] = "push_wait"}
  /\ Waiting(dq_poppers) = {t \in Threads : dq_call[t] = "pop_wait"}

\* What a caller knows of the point its call is at.
DqPoint(p) ==
  CASE p \in DqIdle -> "idle"
    [] p \in {"push", "push_wait"} -> "push"
    [] p \in {"pop", "pop_wait"} -> "pop"
    [] p \in {"pushed", "popped"} -> p
    [] OTHER -> "refused"

\* The ring as a sequence, and the rest of what its users see.
DqFifoQueue ==
  [i \in 1 .. dq_puts - dq_gets |-> dq_item[Slot(dq_gets + i - 1)]]

DqFifoCall == [t \in Threads |-> DqPoint(dq_call[t])]

DqFifoPatience ==
  [t \in Threads |-> IF dq_time[t] = "forever" THEN "forever" ELSE "limited"]

DqFifoResult == [t \in Threads |-> IF dq_call[t] \in DqIdle THEN dq_call[t] ELSE "none"]

\* An item was overwritten, after put_index had wrapped.
Overrun == dq_overrun /\ dq_puts > IndexModulus

\* The queue is a bounded FIFO of items until a push overwrites one, and none
\* does before put_index has wrapped; a reset sends those home who wait, and
\* nothing else makes a call fail that waits without a limit.
DqFifo == INSTANCE BoundedFifo WITH
  Callers  <- Threads,
  Messages <- Items,
  Capacity <- RingSize,
  Services <- {"expel"},
  queue    <- DqFifoQueue,
  call     <- DqFifoCall,
  patience <- DqFifoPatience,
  letter   <- dq_buffer,
  result   <- DqFifoResult,
  closed   <- FALSE

DqIsFifo == DqFifo!FifoInit /\ [][DqFifo!FifoNext \/ Overrun']_(DqFifo!fifoVars)

=============================================================================
