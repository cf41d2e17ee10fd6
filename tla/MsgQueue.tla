------------------------------ MODULE MsgQueue ------------------------------
(***************************************************************************)
(* The message queue of rt-thread/src/ipc.c.  Messages live in slots that   *)
(* are linked into a free list or into the list of messages; a sender takes *)
(* a slot in one critical section, fills it, and links it in another, and a *)
(* receiver unlinks it in one and frees it in another.                      *)
(*                                                                          *)
(* While a thread fills or reads a slot nobody else may: SlotsConserved.    *)
(* So the copy is modelled together with the critical section next to it.   *)
(* Wait lists are FIFO; a step is a critical section; see MemPool.          *)
(***************************************************************************)
EXTENDS KernelWait

CONSTANTS Slots,       \* mq->msg_pool, max_msgs slots
          NoSlot,      \* RT_NULL
          Messages     \* what may be sent

ASSUME MsgQueueAssumption ==
  /\ IsFiniteSet(Slots)
  /\ NoSlot \notin Slots

VARIABLES
  mq_state,     \* "live", "deleting", "resuming", "freed" or "lost": see MemPool
  mq_free,      \* the slots of mq->msg_queue_free
  mq_list,      \* the slots from msg_queue_head to msg_queue_tail
  mq_entry,
  mq_content,   \* the message in a slot
  mq_waiting,   \* mq->parent.suspend_thread
  mq_call,      \* where a thread is in a call, or how its last call ended
  mq_time,      \* what is left of its waiting time
  mq_slot,      \* the slot a thread has in hand
  mq_buffer     \* what it sends or has received

mqVars == <<mq_state, mq_free, mq_list, mq_entry, mq_content, mq_waiting,
            mq_call, mq_time, mq_slot, mq_buffer>>

MqIdle == {"none", "ok", "error"}

MqTypeOK ==
  /\ mq_state \in {"live", "deleting", "resuming", "lost", "freed"}
  /\ mq_free \in SUBSET Slots
  /\ mq_list \in Seq(Slots)
  /\ mq_entry \in Nat
  /\ mq_content \in [Slots -> Messages]
  /\ mq_waiting \in Seq(Threads)
  /\ mq_call \in [Threads -> MqIdle \cup
                    {"send", "send_copy", "urgent", "urgent_copy", "sent", "send_error",
                     "recv", "recv_wait", "recv_copy", "recvd", "recv_error"}]
  /\ mq_time \in [Threads -> Timeouts]
  /\ mq_slot \in [Threads -> Slots \cup {NoSlot}]
  /\ mq_buffer \in [Threads -> Messages]

\* rt_mq_create and rt_mq_init.  What slots and buffers hold at first does
\* not matter.
MqInit ==
  /\ mq_state = "live"
  /\ mq_free = Slots
  /\ mq_list = <<>>
  /\ mq_entry = 0
  /\ mq_waiting = <<>>
  /\ mq_call = [t \in Threads |-> "none"]
  /\ mq_time = [t \in Threads |-> "no_wait"]
  /\ mq_slot = [t \in Threads |-> NoSlot]
  /\ \E m \in Messages : /\ mq_content = [s \in Slots |-> m]
                         /\ mq_buffer = [t \in Threads |-> m]

MqMayCall(t) == mq_state = "live" /\ mq_call[t] \in MqIdle

-----------------------------------------------------------------------------
(* rt_mq_send, rt_mq_urgent: kind is "send" or "urgent" *)

MqSendCall(t, kind, m) ==
  /\ MqMayCall(t)
  /\ mq_call' = [mq_call EXCEPT ![t] = kind]
  /\ mq_buffer' = [mq_buffer EXCEPT ![t] = m]
  /\ UNCHANGED <<mq_state, mq_free, mq_list, mq_entry, mq_content, mq_waiting,
                 mq_time, mq_slot>>

\* "message queue is full", which it also is while its last free slots are
\* being filled or read: -RT_EFULL, whoever waits.
MqSendFull(t) ==
  /\ mq_call[t] \in {"send", "urgent"}
  /\ mq_free = {}
  /\ mq_call' = [mq_call EXCEPT ![t] = "send_error"]
  /\ UNCHANGED <<mq_state, mq_free, mq_list, mq_entry, mq_content, mq_waiting,
                 mq_time, mq_slot, mq_buffer>>

\* "move free list pointer".  Which free slot that is makes no difference.
MqSendTake(t) ==
  /\ mq_call[t] \in {"send", "urgent"}
  /\ \E s \in mq_free : /\ mq_free' = mq_free \ {s}
                        /\ mq_slot' = [mq_slot EXCEPT ![t] = s]
  /\ mq_call' = [mq_call EXCEPT ![t] = IF @ = "send" THEN "send_copy" ELSE "urgent_copy"]
  /\ UNCHANGED <<mq_state, mq_list, mq_entry, mq_content, mq_waiting, mq_time, mq_buffer>>

\* MUTANT of MqLinked: an urgent message goes to the end as well.
MutMqLinkedLast(t) == Append(mq_list, mq_slot[t])

\* The list of messages with the slot of t as the new tailer, or at the
\* beginning for an urgent message.
MqLinked(t) ==
  IF mq_call[t] = "send_copy" THEN Append(mq_list, mq_slot[t])
                              ELSE <<mq_slot[t]>> \o mq_list

\* MUTANT of MqSendLink: a receiver is only resumed if the queue was empty.
MutMqSendLinkIfEmpty(t) ==
  /\ mq_call[t] \in {"send_copy", "urgent_copy"}
  /\ mq_content' = [mq_content EXCEPT ![mq_slot[t]] = mq_buffer[t]]
  /\ mq_list' = MqLinked(t)
  /\ mq_entry' = mq_entry + 1
  /\ mq_slot' = [mq_slot EXCEPT ![t] = NoSlot]
  /\ IF mq_waiting = <<>> \/ mq_entry > 0
     THEN /\ mq_call' = [mq_call EXCEPT ![t] = "sent"]
          /\ UNCHANGED <<mq_waiting, mq_time>>
     ELSE LET w == Head(mq_waiting)
          IN  /\ mq_waiting' = Tail(mq_waiting)
              /\ mq_call' = [mq_call EXCEPT ![t] = "sent", ![w] = "recv"]
              /\ \E left \in Remaining(mq_time[w]) : mq_time' = [mq_time EXCEPT ![w] = left]
  /\ UNCHANGED <<mq_state, mq_free, mq_buffer>>

\* The buffer is copied, the slot linked and the first receiver resumed.
MqSendLink(t) ==
  /\ mq_call[t] \in {"send_copy", "urgent_copy"}
  /\ mq_content' = [mq_content EXCEPT ![mq_slot[t]] = mq_buffer[t]]
  /\ mq_list' = MqLinked(t)
  /\ mq_entry' = mq_entry + 1
  /\ mq_slot' = [mq_slot EXCEPT ![t] = NoSlot]
  /\ IF mq_waiting = <<>>
     THEN /\ mq_call' = [mq_call EXCEPT ![t] = "sent"]
          /\ UNCHANGED <<mq_waiting, mq_time>>
     ELSE LET w == Head(mq_waiting)
          IN  /\ mq_waiting' = Tail(mq_waiting)
              /\ mq_call' = [mq_call EXCEPT ![t] = "sent", ![w] = "recv"]
              /\ \E left \in Remaining(mq_time[w]) : mq_time' = [mq_time EXCEPT ![w] = left]
  /\ UNCHANGED <<mq_state, mq_free, mq_buffer>>

-----------------------------------------------------------------------------
(* rt_mq_recv *)

MqRecvCall(t, time) ==
  /\ MqMayCall(t)
  /\ mq_call' = [mq_call EXCEPT ![t] = "recv"]
  /\ mq_time' = [mq_time EXCEPT ![t] = time]
  /\ UNCHANGED <<mq_state, mq_free, mq_list, mq_entry, mq_content, mq_waiting,
                 mq_slot, mq_buffer>>

\* "no waiting, return timeout", at once or after having been resumed.
MqRecvEmpty(t) ==
  /\ mq_call[t] = "recv"
  /\ mq_entry = 0
  /\ mq_time[t] = "no_wait"
  /\ mq_call' = [mq_call EXCEPT ![t] = "recv_error"]
  /\ UNCHANGED <<mq_state, mq_free, mq_list, mq_entry, mq_content, mq_waiting,
                 mq_time, mq_slot, mq_buffer>>

\* "message queue is empty": the thread waits for a message.
MqRecvSuspend(t) ==
  /\ mq_call[t] = "recv"
  /\ mq_entry = 0
  /\ mq_time[t] # "no_wait"
  /\ mq_waiting' = EnqueueLast(mq_waiting, t)
  /\ mq_call' = [mq_call EXCEPT ![t] = "recv_wait"]
  /\ UNCHANGED <<mq_state, mq_free, mq_list, mq_entry, mq_content,
                 mq_time, mq_slot, mq_buffer>>

\* "get message from queue": the head is unlinked.
MqRecvUnlink(t) ==
  /\ mq_call[t] = "recv"
  /\ mq_entry # 0
  /\ mq_slot' = [mq_slot EXCEPT ![t] = Head(mq_list)]
  /\ mq_list' = Tail(mq_list)
  /\ mq_entry' = mq_entry - 1
  /\ mq_call' = [mq_call EXCEPT ![t] = "recv_copy"]
  /\ UNCHANGED <<mq_state, mq_free, mq_content, mq_waiting, mq_time, mq_buffer>>

\* The message is copied and its slot put on the free list.
MqRecvFree(t) ==
  /\ mq_call[t] = "recv_copy"
  /\ mq_buffer' = [mq_buffer EXCEPT ![t] = mq_content[mq_slot[t]]]
  /\ mq_free' = mq_free \cup {mq_slot[t]}
  /\ mq_slot' = [mq_slot EXCEPT ![t] = NoSlot]
  /\ mq_call' = [mq_call EXCEPT ![t] = "recvd"]
  /\ UNCHANGED <<mq_state, mq_list, mq_entry, mq_content, mq_waiting, mq_time>>

\* rt_thread_timeout for a thread that waits for a message.
MqTimeout(t) ==
  /\ mq_call[t] = "recv_wait"
  /\ mq_time[t] = "ticks"
  /\ mq_waiting' = Unlink(mq_waiting, t)
  /\ mq_call' = [mq_call EXCEPT ![t] = "recv_error"]
  /\ UNCHANGED <<mq_state, mq_free, mq_list, mq_entry, mq_content,
                 mq_time, mq_slot, mq_buffer>>

\* The caller takes up the result of its call; the locals of the call go.
MqReturn(t) ==
  /\ mq_call[t] \in {"sent", "send_error", "recvd", "recv_error"}
  /\ mq_call' = [mq_call EXCEPT ![t] = IF @ \in {"sent", "recvd"} THEN "ok" ELSE "error"]
  /\ mq_time' = [mq_time EXCEPT ![t] = "no_wait"]
  /\ UNCHANGED <<mq_state, mq_free, mq_list, mq_entry, mq_content, mq_waiting,
                 mq_slot, mq_buffer>>

-----------------------------------------------------------------------------
(* rt_mq_control, rt_mq_delete (rt_mq_detach is the same for static memory) *)

\* MUTANT of MqReset: the slots of the messages are not freed.
MutMqResetLeaks ==
  /\ mq_state = "live"
  /\ mq_waiting' = <<>>
  /\ mq_call' = [t \in Threads |->
                   IF mq_call[t] = "recv_wait" THEN "recv_error" ELSE mq_call[t]]
  /\ mq_list' = <<>>
  /\ mq_entry' = 0
  /\ UNCHANGED <<mq_state, mq_free, mq_content, mq_time, mq_slot, mq_buffer>>

\* RT_IPC_CMD_RESET: everyone waiting is resumed with an error and every
\* message in the queue released, in one critical section.
MqReset ==
  /\ mq_state = "live"
  /\ mq_waiting' = <<>>
  /\ mq_call' = [t \in Threads |->
                   IF mq_call[t] = "recv_wait" THEN "recv_error" ELSE mq_call[t]]
  /\ mq_free' = mq_free \cup Waiting(mq_list)
  /\ mq_list' = <<>>
  /\ mq_entry' = 0
  /\ UNCHANGED <<mq_state, mq_content, mq_time, mq_slot, mq_buffer>>

\* rt_mq_delete may only be called once no thread is inside the queue but
\* those that wait for a message: any other would use freed memory.
MqQuiet == \A t \in Threads : mq_call[t] \in MqIdle \cup {"recv_wait"}

MqDeleteCall ==
  /\ mq_state = "live"
  /\ MqQuiet
  /\ mq_state' = "deleting"
  /\ UNCHANGED <<mq_free, mq_list, mq_entry, mq_content, mq_waiting,
                 mq_call, mq_time, mq_slot, mq_buffer>>

\* The condition of the loop of rt_ipc_list_resume_all, tested with
\* interrupts enabled.
MqDeleteTest ==
  /\ mq_state = "deleting"
  /\ mq_waiting # <<>>
  /\ mq_state' = "resuming"
  /\ UNCHANGED <<mq_free, mq_list, mq_entry, mq_content, mq_waiting,
                 mq_call, mq_time, mq_slot, mq_buffer>>

\* MUTANT of MqDeleteResume: the thread is resumed without an error.
MutMqDeleteResumeNoError ==
  /\ mq_state = "resuming"
  /\ mq_waiting # <<>>
  /\ mq_state' = "deleting"
  /\ mq_waiting' = Tail(mq_waiting)
  /\ mq_call' = [mq_call EXCEPT ![Head(mq_waiting)] = "recv"]
  /\ UNCHANGED <<mq_free, mq_list, mq_entry, mq_content, mq_time, mq_slot, mq_buffer>>

\* One round of the loop: a thread is resumed with an error.
MqDeleteResume ==
  /\ mq_state = "resuming"
  /\ mq_waiting # <<>>
  /\ mq_state' = "deleting"
  /\ mq_waiting' = Tail(mq_waiting)
  /\ mq_call' = [mq_call EXCEPT ![Head(mq_waiting)] = "recv_error"]
  /\ UNCHANGED <<mq_free, mq_list, mq_entry, mq_content, mq_time, mq_slot, mq_buffer>>

\* The last thread on the list has timed out since the test: see MemPool.
MqDeleteHead ==
  /\ mq_state = "resuming"
  /\ mq_waiting = <<>>
  /\ mq_state' \in {"deleting", "lost"}
  /\ UNCHANGED <<mq_free, mq_list, mq_entry, mq_content, mq_waiting,
                 mq_call, mq_time, mq_slot, mq_buffer>>

\* The slots and the queue object are freed.
MqDeleteFree ==
  /\ mq_state = "deleting"
  /\ mq_waiting = <<>>
  /\ mq_state' = "freed"
  /\ UNCHANGED <<mq_free, mq_list, mq_entry, mq_content, mq_waiting,
                 mq_call, mq_time, mq_slot, mq_buffer>>

-----------------------------------------------------------------------------
MqStep(t) ==
  \/ \E m \in Messages, kind \in {"send", "urgent"} : MqSendCall(t, kind, m)
  \/ MqSendFull(t) \/ MqSendTake(t) \/ MqSendLink(t)
  \/ \E time \in Timeouts : MqRecvCall(t, time)
  \/ MqRecvEmpty(t) \/ MqRecvSuspend(t) \/ MqRecvUnlink(t) \/ MqRecvFree(t)
  \/ MqTimeout(t) \/ MqReturn(t)

MqNext ==
  /\ mq_state # "lost"
  /\ \/ \E t \in Threads : MqStep(t)
     \/ MqReset
     \/ MqDeleteCall \/ MqDeleteTest \/ MqDeleteResume \/ MqDeleteHead \/ MqDeleteFree

MqSpec == MqInit /\ [][MqNext]_mqVars

-----------------------------------------------------------------------------
(* Properties *)

\* Every slot is in one place: free, in the list of messages once, or with
\* one thread that fills or reads it; and the list is as long as the entries
\* counted.  So no message is overwritten while it is copied outside the
\* critical sections, and no reset in between loses or doubles a slot.
SlotsConserved ==
  /\ Slots = mq_free \cup Waiting(mq_list) \cup ({mq_slot[t] : t \in Threads} \ {NoSlot})
  /\ mq_free \cap Waiting(mq_list) = {}
  /\ Distinct(mq_list)
  /\ Len(mq_list) = mq_entry
  /\ \A t \in Threads :
       mq_slot[t] # NoSlot => /\ mq_slot[t] \notin mq_free \cup Waiting(mq_list)
                              /\ \A u \in Threads : mq_slot[u] = mq_slot[t] => u = t

\* A receiver never sleeps while there are messages for it: whenever one
\* waits, every message has a thread on its way to take it.
MqNoLostMessage ==
  mq_waiting # <<>> => mq_entry <= Cardinality({t \in Threads : mq_call[t] = "recv"})

\* The threads on the list are those that wait, each once.
MqListExact ==
  /\ Distinct(mq_waiting)
  /\ Waiting(mq_waiting) = {t \in Threads : mq_call[t] = "recv_wait"}

\* What a thread is doing, as its caller sees it.
MqFifoPoint(point) ==
  CASE point \in MqIdle -> "idle"
    [] point \in {"send", "send_copy"} -> "push"
    [] point \in {"urgent", "urgent_copy"} -> "urgent"
    [] point = "sent" -> "pushed"
    [] point \in {"recv", "recv_wait"} -> "pop"
    [] point \in {"recv_copy", "recvd"} -> "popped"
    [] OTHER -> "refused"

\* The refinement mapping: the messages in the order of their slots, a
\* message being received from the moment its slot is unlinked.
MqFifoQueue == [i \in DOMAIN mq_list |-> mq_content[mq_list[i]]]
MqFifoCall == [t \in Threads |-> MqFifoPoint(mq_call[t])]
MqFifoPatience ==
  [t \in Threads |-> IF mq_time[t] = "forever" THEN "forever" ELSE "limited"]
MqFifoLetter ==
  [t \in Threads |-> IF mq_call[t] = "recv_copy" THEN mq_content[mq_slot[t]] ELSE mq_buffer[t]]
MqFifoResult == [t \in Threads |-> IF mq_call[t] \in MqIdle THEN mq_call[t] ELSE "none"]
MqFifoClosed == mq_state # "live"

\* The queue is a bounded FIFO of messages that urgent messages jump and a
\* reset empties: a message is received once, as it was sent, in the order
\* the sends link them; and rt_mq_recv waiting without a limit fails only
\* because of a reset or the deletion.
MqFifo == INSTANCE BoundedFifo WITH
  Callers  <- Threads,
  Capacity <- Cardinality(Slots),
  Services <- {"urgent", "reset"},
  queue    <- MqFifoQueue,
  call     <- MqFifoCall,
  patience <- MqFifoPatience,
  letter   <- MqFifoLetter,
  result   <- MqFifoResult,
  closed   <- MqFifoClosed

MqIsFifo == MqFifo!FifoSpec

=============================================================================
