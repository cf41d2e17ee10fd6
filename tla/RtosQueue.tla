----------------------------- MODULE RtosQueue ------------------------------
(***************************************************************************)
(* The message queue of beken378/rttos/source/rtos_pub.c.  A message lives  *)
(* in a block of a memory pool and the address of the block travels through *)
(* a mailbox; rtos_init_queue gives the pool and the mailbox the same       *)
(* number of elements.                                                      *)
(***************************************************************************)
EXTENDS MemPool, Mailbox

CONSTANTS Messages,
          Servers   \* threads that do nothing with the queue but pop from it,
                    \* waiting without a limit, as core_thread_main does

ASSUME RtosQueueAssumption ==
  /\ Servers \subseteq Threads
  /\ Mails = Blocks
  /\ NoMail = NoBlock
  /\ Size = Cardinality(Blocks)

VARIABLES
  pc,         \* where a thread is in rtos_push_to_queue or rtos_pop_from_queue
  timeout_ms, \* how long its call may wait
  message,    \* the caller's buffer: what it pushes or has popped
  content,    \* what is stored in a block
  ret         \* what its call returned

callVars == <<pc, timeout_ms, message, ret>>
queueVars == <<pc, timeout_ms, message, content, ret>>
vars == <<mpVars, mbVars, queueVars>>

QueueTypeOK ==
  /\ MpTypeOK
  /\ MbTypeOK
  /\ pc \in [Threads -> {"idle", "push_alloc", "push_send", "push_undo",
                         "pop_recv", "pop_free"}]
  /\ timeout_ms \in [Threads -> Timeouts]
  /\ message \in [Threads -> Messages]
  /\ content \in [Blocks -> Messages]
  /\ ret \in [Threads -> {"none", "kNoErr", "kGeneralErr"}]

\* rtos_init_queue.  What blocks and buffers hold at first does not matter.
Init ==
  /\ MpInit
  /\ MbInit
  /\ pc = [t \in Threads |-> "idle"]
  /\ timeout_ms = [t \in Threads |-> "no_wait"]
  /\ \E m \in Messages : /\ message = [t \in Threads |-> m]
                         /\ content = [b \in Blocks |-> m]
  /\ ret = [t \in Threads |-> "none"]

\* Callers use a queue until rtos_deinit_queue is called for it.
Open == mb_state = "live" /\ mp_state = "live"

\* A call of t returns r; its arguments go.
Return(t, r) ==
  /\ pc' = [pc EXCEPT ![t] = "idle"]
  /\ timeout_ms' = [timeout_ms EXCEPT ![t] = "no_wait"]
  /\ ret' = [ret EXCEPT ![t] = r]

-----------------------------------------------------------------------------
(* rtos_push_to_queue *)

PushCall(t, m, time) ==
  /\ Open
  /\ t \notin Servers
  /\ pc[t] = "idle"
  /\ MpAllocCall(t, time)
  /\ pc' = [pc EXCEPT ![t] = "push_alloc"]
  /\ timeout_ms' = [timeout_ms EXCEPT ![t] = time]
  /\ message' = [message EXCEPT ![t] = m]
  /\ ret' = [ret EXCEPT ![t] = "none"]
  /\ UNCHANGED <<mbVars, content>>

PushAlloc(t) ==
  /\ pc[t] = "push_alloc"
  /\ MpAllocStep(t)
  /\ UNCHANGED <<mbVars, queueVars>>

PushNoBlock(t) ==
  /\ pc[t] = "push_alloc"
  /\ mp_call[t] = "alloc_null"
  /\ MpAllocReturn(t)
  /\ Return(t, "kGeneralErr")
  /\ UNCHANGED <<mbVars, message, content>>

\* MUTANT of PushCopy: the message is not copied.
MutPushNoCopy(t) ==
  /\ pc[t] = "push_alloc"
  /\ mp_call[t] = "alloced"
  /\ MpAllocReturn(t)
  /\ MbSendCall(t, msg_tmp[t], timeout_ms[t])
  /\ pc' = [pc EXCEPT ![t] = "push_send"]
  /\ UNCHANGED <<timeout_ms, message, content, ret>>

\* The message is copied into the block, and the block handed to the mailbox
\* with the same waiting time once more.
PushCopy(t) ==
  /\ pc[t] = "push_alloc"
  /\ mp_call[t] = "alloced"
  /\ MpAllocReturn(t)
  /\ content' = [content EXCEPT ![msg_tmp[t]] = message[t]]
  /\ MbSendCall(t, msg_tmp[t], timeout_ms[t])
  /\ pc' = [pc EXCEPT ![t] = "push_send"]
  /\ UNCHANGED <<timeout_ms, message, ret>>

PushSend(t) ==
  /\ pc[t] = "push_send"
  /\ MbSendStep(t)
  /\ UNCHANGED <<mpVars, queueVars>>

\* The send returned: the block is the mailbox's, or it has to be freed.
PushSent(t) ==
  /\ pc[t] = "push_send"
  /\ MbReturn(t)
  /\ IF mb_call[t] = "sent"
     THEN /\ Return(t, "kNoErr")
          /\ msg_tmp' = [msg_tmp EXCEPT ![t] = NoBlock]
     ELSE /\ pc' = [pc EXCEPT ![t] = "push_undo"]
          /\ UNCHANGED <<timeout_ms, ret, msg_tmp>>
  /\ UNCHANGED <<mp_state, block_list, block_free_count, suspend_thread,
                 suspend_thread_count, mp_call, mp_time, wild, message, content>>

-----------------------------------------------------------------------------
(* rtos_pop_from_queue *)

PopCall(t, time) ==
  /\ Open
  /\ t \in Servers => time = "forever"
  /\ pc[t] = "idle"
  /\ MbRecvCall(t, time)
  /\ pc' = [pc EXCEPT ![t] = "pop_recv"]
  /\ timeout_ms' = [timeout_ms EXCEPT ![t] = time]
  /\ ret' = [ret EXCEPT ![t] = "none"]
  /\ UNCHANGED <<mpVars, message, content>>

PopRecv(t) ==
  /\ pc[t] = "pop_recv"
  /\ MbRecvStep(t)
  /\ UNCHANGED <<mpVars, queueVars>>

PopNoMail(t) ==
  /\ pc[t] = "pop_recv"
  /\ mb_call[t] = "recv_error"
  /\ MbReturn(t)
  /\ Return(t, "kGeneralErr")
  /\ UNCHANGED <<mpVars, message, content>>

\* The message is copied out of the block.
PopCopy(t) ==
  /\ pc[t] = "pop_recv"
  /\ mb_call[t] = "recvd"
  /\ MbReturn(t)
  /\ msg_tmp' = [msg_tmp EXCEPT ![t] = mb_value[t]]
  /\ message' = [message EXCEPT ![t] = content[mb_value[t]]]
  /\ pc' = [pc EXCEPT ![t] = "pop_free"]
  /\ UNCHANGED <<mp_state, block_list, block_free_count, suspend_thread,
                 suspend_thread_count, mp_call, mp_time, wild,
                 timeout_ms, content, ret>>

\* MUTANT of Free: the block is forgotten instead.
MutFreeForgets(t) ==
  /\ pc[t] \in {"pop_free", "push_undo"}
  /\ msg_tmp' = [msg_tmp EXCEPT ![t] = NoBlock]
  /\ Return(t, "kNoErr")
  /\ UNCHANGED <<mp_state, block_list, block_free_count, suspend_thread,
                 suspend_thread_count, mp_call, mp_time, wild, mbVars, message, content>>

\* The block is freed: at the end of a pop, or after a send that failed.
Free(t) ==
  /\ pc[t] \in {"pop_free", "push_undo"}
  /\ MpFree(t)
  /\ Return(t, IF pc[t] = "pop_free" THEN "kNoErr" ELSE "kGeneralErr")
  /\ UNCHANGED <<mbVars, message, content>>

-----------------------------------------------------------------------------
(* rtos_deinit_queue: the mailbox is deleted, then the pool *)

\* Nobody is inside the queue but threads that wait there.
Quiet ==
  \A t \in Threads : \/ pc[t] = "idle"
                     \/ pc[t] = "push_alloc" /\ mp_call[t] = "alloc_wait"
                     \/ pc[t] = "pop_recv" /\ mb_call[t] = "recv_wait"

DeinitCall == Open /\ Quiet /\ MbDeleteCall /\ UNCHANGED <<mpVars, queueVars>>

DeinitMailbox == MbDeleteStep /\ UNCHANGED <<mpVars, queueVars>>

DeinitPoolCall ==
  mb_state = "freed" /\ MpDeleteCall /\ UNCHANGED <<mbVars, queueVars>>

DeinitPool == MpDeleteStep /\ UNCHANGED <<mbVars, queueVars>>

-----------------------------------------------------------------------------
\* A step of a thread inside a call.
Step(t) ==
  \/ PushAlloc(t) \/ PushNoBlock(t) \/ PushCopy(t) \/ PushSend(t) \/ PushSent(t)
  \/ PopRecv(t) \/ PopNoMail(t) \/ PopCopy(t)
  \/ Free(t)

\* No list head is in the scheduler's ready table.
Known == MpKnown /\ mb_state # "lost"

Next ==
  /\ Known
  /\ \/ \E t \in Threads :
          \/ \E time \in Timeouts : \/ \E m \in Messages : PushCall(t, m, time)
                                    \/ PopCall(t, time)
          \/ Step(t)
     \/ DeinitCall \/ DeinitMailbox \/ DeinitPoolCall \/ DeinitPool

Spec == Init /\ [][Next]_vars

\* The scheduler runs every thread that is ready again and again, and a
\* started thread timer expires: a thread does not stop inside a call unless
\* it waits there without a limit.  The servers call rtos_pop_from_queue in a
\* loop; nothing is assumed of when other threads call.
Fairness ==
  /\ \A t \in Threads : WF_vars(Known /\ Step(t))
  /\ \A t \in Servers : WF_vars(Known /\ PopCall(t, "forever"))

FairSpec == Spec /\ Fairness

-----------------------------------------------------------------------------
(* Properties *)

\* Slot i of the ring holds a mail.
Occupied(i) ==
  /\ entry # 0
  /\ IF out_offset < in_offset THEN out_offset <= i /\ i < in_offset
                              ELSE out_offset <= i \/ i < in_offset

\* The blocks under way in the mailbox.
Queued == {msg_pool[i] : i \in {j \in 0 .. Size - 1 : Occupied(j)}}

\* Thread t owns block b: it has allocated or received it and has neither
\* sent nor freed it.
Owns(t, b) ==
  \/ msg_tmp[t] = b /\ mb_call[t] # "sent"
  \/ mb_value[t] = b /\ mb_call[t] = "recvd"

\* Every block is in one place: free, in one slot of the ring, or with one
\* thread.  So no message is overwritten before it was read, whatever the
\* interleaving of pushes, pops and timeouts.
OneOwner ==
  /\ \A i, j \in 0 .. Size - 1 :
       Occupied(i) /\ Occupied(j) /\ msg_pool[i] = msg_pool[j] => i = j
  /\ Queued \cap block_list = {}
  /\ \A t \in Threads, b \in Blocks :
       Owns(t, b) => /\ b \notin Queued
                     /\ b \notin block_list
                     /\ \A u \in Threads : Owns(u, b) => u = t
  /\ Cardinality(Queued) = entry
  /\ Cardinality(block_list) = block_free_count

\* No block leaks: those that are free, in the ring and with threads are all
\* there are, as long as the queue is not deleted.
NoBlockLost ==
  Blocks = block_list \cup Queued \cup {b \in Blocks : \E t \in Threads : Owns(t, b)}

\* A thread that has a block to send finds room: the mailbox is never full
\* for it, so rtos_push_to_queue waits at most once, for the block, and the
\* path that frees a block the mailbox refused is never taken.
SendFindsRoom ==
  /\ \A t \in Threads : mb_call[t] \in {"send", "send_wait"} => entry < Size
  /\ \A t \in Threads : mb_call[t] # "send_error" /\ pc[t] # "push_undo"

\* When rtos_deinit_queue has freed the mailbox, then the pool, no thread
\* that waited there touches what was freed, and none is left asleep.
DeinitUntouched ==
  /\ MbFreedUntouched
  /\ MpFreedUntouched
  /\ mp_state = "freed" => \A t \in Threads : msg_tmp[t] = NoBlock

\* What a thread is doing, as its caller sees it.
FifoPoint(point, mb_point) ==
  CASE point = "idle" -> "idle"
    [] point \in {"push_alloc", "push_undo"} -> "push"
    [] point = "push_send" -> IF mb_point = "sent" THEN "pushed" ELSE "push"
    [] point = "pop_recv" -> IF mb_point = "recvd" THEN "popped" ELSE "pop"
    [] point = "pop_free" -> "popped"

\* The refinement mapping: the messages in the order of the ring, a message
\* being popped from the moment its block is received.
FifoQueue == [i \in 1 .. entry |-> content[msg_pool[(out_offset + i - 1) % Size]]]
FifoCall == [t \in Threads |-> FifoPoint(pc[t], mb_call[t])]
FifoPatience ==
  [t \in Threads |-> IF timeout_ms[t] = "forever" THEN "forever" ELSE "limited"]
FifoLetter ==
  [t \in Threads |-> IF mb_call[t] = "recvd" THEN content[mb_value[t]] ELSE message[t]]
FifoResult ==
  [t \in Threads |-> CASE ret[t] = "kNoErr" -> "ok"
                       [] ret[t] = "kGeneralErr" -> "error"
                       [] OTHER -> "none"]
FifoClosed == mb_state # "live"

\* The queue is a bounded FIFO of messages: a message is delivered once, in
\* the order of the sends, with the content that was pushed, and a call that
\* waits without a limit fails only because the queue is deleted.
Fifo == INSTANCE BoundedFifo WITH
  Callers  <- Threads,
  Capacity <- Size,
  Services <- {},
  queue    <- FifoQueue,
  call     <- FifoCall,
  patience <- FifoPatience,
  letter   <- FifoLetter,
  result   <- FifoResult,
  closed   <- FifoClosed

IsBoundedFifo == Fifo!FifoSpec

\* A message at the head of the queue is eventually taken by someone, as
\* long as a thread serves the queue: the wake-ups of rt_mb_send_wait are
\* never lost for good.
HeadIsServed ==
  \A i \in 0 .. Size - 1 :
    (entry > 0 /\ out_offset = i) ~>
      (out_offset # i \/ entry = 0 \/ mb_state # "live" \/ ~Known)

\* A thread that waits for a block is not passed over for ever while blocks
\* are free: free blocks and a waiter do not last.
WaitersAreServed ==
  (suspend_thread # <<>> /\ block_free_count > 0) ~>
    (suspend_thread = <<>> \/ block_free_count = 0 \/ ~Known)

=============================================================================
