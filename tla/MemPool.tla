------------------------------ MODULE MemPool -------------------------------
(***************************************************************************)
(* rt-thread/src/mempool.c: a pool of equal blocks that threads allocate,   *)
(* waiting if none is free, and give back.                                  *)
(*                                                                          *)
(* A step is a critical section (the code between rt_hw_interrupt_disable   *)
(* and rt_hw_interrupt_enable); between two steps of a thread any other     *)
(* thread, interrupt handler or thread timer may run.                       *)
(***************************************************************************)
EXTENDS KernelWait

CONSTANTS Blocks,    \* the blocks of the pool
          NoBlock,   \* RT_NULL
          MaxSuspendCount   \* bound on suspend_thread_count, which can only
                            \* grow when threads time out; 2^32 in the code

ASSUME MemPoolAssumption ==
  /\ IsFiniteSet(Blocks)
  /\ NoBlock \notin Blocks
  /\ MaxSuspendCount \in Nat

VARIABLES
  mp_state,              \* "live"; rt_mp_delete is about to test the list
                         \* ("deleting"), found it not empty ("resuming"), is
                         \* done ("freed"); nothing more is known ("lost")
  block_list,            \* the blocks linked in mp->block_list
  block_free_count,
  suspend_thread,        \* the list of threads that wait for a block
  suspend_thread_count,
  mp_call,               \* where a thread is in rt_mp_alloc
  mp_time,               \* what is left of its waiting time
  msg_tmp,               \* the block a thread holds
  wild                   \* what rt_mp_free did with something not a thread

mpVars == <<mp_state, block_list, block_free_count, suspend_thread,
            suspend_thread_count, mp_call, mp_time, msg_tmp, wild>>

MpTypeOK ==
  /\ mp_state \in {"live", "deleting", "resuming", "lost", "freed"}
  /\ block_list \in SUBSET Blocks
  /\ block_free_count \in Nat
  /\ suspend_thread \in Seq(Threads)
  /\ suspend_thread_count \in Nat
  /\ mp_call \in [Threads -> {"out", "alloc", "alloc_wait", "alloced", "alloc_null"}]
  /\ mp_time \in [Threads -> Timeouts]
  /\ msg_tmp \in [Threads -> Blocks \cup {NoBlock}]
  /\ wild \in {"no", "written", "scheduled"}

\* rt_mp_create (rt_mp_init is the same for a pool in static memory).
MpInit ==
  /\ mp_state = "live"
  /\ block_list = Blocks
  /\ block_free_count = Cardinality(Blocks)
  /\ suspend_thread = <<>>
  /\ suspend_thread_count = 0
  /\ mp_call = [t \in Threads |-> "out"]
  /\ mp_time = [t \in Threads |-> "no_wait"]
  /\ msg_tmp = [t \in Threads |-> NoBlock]
  /\ wild = "no"

-----------------------------------------------------------------------------
(* rt_mp_alloc *)

MpAllocCall(t, time) ==
  /\ mp_state = "live"
  /\ mp_call[t] = "out"
  /\ msg_tmp[t] = NoBlock
  /\ mp_call' = [mp_call EXCEPT ![t] = "alloc"]
  /\ mp_time' = [mp_time EXCEPT ![t] = time]
  /\ UNCHANGED <<mp_state, block_list, block_free_count, suspend_thread,
                 suspend_thread_count, msg_tmp, wild>>

\* MUTANT of MpAllocTake: the block is not unlinked.
MutAllocTakeLinked(t) ==
  /\ mp_call[t] = "alloc"
  /\ block_free_count # 0
  /\ \E b \in block_list : msg_tmp' = [msg_tmp EXCEPT ![t] = b]
  /\ block_free_count' = block_free_count - 1
  /\ mp_call' = [mp_call EXCEPT ![t] = "alloced"]
  /\ UNCHANGED <<mp_state, block_list, suspend_thread, suspend_thread_count, mp_time, wild>>

\* A block is free: the head of the block list is unlinked and returned.
\* Which free block that is makes no difference to anyone.
MpAllocTake(t) ==
  /\ mp_call[t] = "alloc"
  /\ block_free_count # 0
  /\ \E b \in block_list :
       /\ block_list' = block_list \ {b}
       /\ msg_tmp' = [msg_tmp EXCEPT ![t] = b]
  /\ block_free_count' = block_free_count - 1
  /\ mp_call' = [mp_call EXCEPT ![t] = "alloced"]
  /\ UNCHANGED <<mp_state, suspend_thread, suspend_thread_count, mp_time, wild>>

\* No block and no time left: RT_NULL.
MpAllocNull(t) ==
  /\ mp_call[t] = "alloc"
  /\ block_free_count = 0
  /\ mp_time[t] = "no_wait"
  /\ mp_call' = [mp_call EXCEPT ![t] = "alloc_null"]
  /\ UNCHANGED <<mp_state, block_list, block_free_count, suspend_thread,
                 suspend_thread_count, mp_time, msg_tmp, wild>>

\* MUTANT of MpAllocSuspend: the thread is not counted.
MutAllocSuspendNoCount(t) ==
  /\ mp_call[t] = "alloc"
  /\ block_free_count = 0
  /\ mp_time[t] # "no_wait"
  /\ suspend_thread' = EnqueueFirst(suspend_thread, t)
  /\ mp_call' = [mp_call EXCEPT ![t] = "alloc_wait"]
  /\ UNCHANGED <<mp_state, block_list, block_free_count, suspend_thread_count,
                 mp_time, msg_tmp, wild>>

\* No block: the thread suspends itself in front of those already waiting
\* and starts its timer if its time is limited.
MpAllocSuspend(t) ==
  /\ mp_call[t] = "alloc"
  /\ block_free_count = 0
  /\ mp_time[t] # "no_wait"
  /\ suspend_thread_count < MaxSuspendCount
  /\ suspend_thread' = EnqueueFirst(suspend_thread, t)
  /\ suspend_thread_count' = suspend_thread_count + 1
  /\ mp_call' = [mp_call EXCEPT ![t] = "alloc_wait"]
  /\ UNCHANGED <<mp_state, block_list, block_free_count, mp_time, msg_tmp, wild>>

\* rt_thread_timeout for a thread that waits for a block: the thread leaves
\* the list, rt_mp_alloc then finds an error and returns RT_NULL.
MpTimeout(t) ==
  /\ mp_call[t] = "alloc_wait"
  /\ mp_time[t] = "ticks"
  /\ suspend_thread' = Unlink(suspend_thread, t)
  /\ mp_call' = [mp_call EXCEPT ![t] = "alloc_null"]
  /\ UNCHANGED <<mp_state, block_list, block_free_count, suspend_thread_count,
                 mp_time, msg_tmp, wild>>

\* The caller of rt_mp_alloc takes up its result; the locals of the call go.
MpAllocReturn(t) ==
  /\ mp_call[t] \in {"alloced", "alloc_null"}
  /\ mp_call' = [mp_call EXCEPT ![t] = "out"]
  /\ mp_time' = [mp_time EXCEPT ![t] = "no_wait"]
  /\ UNCHANGED <<mp_state, block_list, block_free_count, suspend_thread,
                 suspend_thread_count, msg_tmp, wild>>

-----------------------------------------------------------------------------
(* rt_mp_free *)

\* The block goes back to the list whatever happens next.
MpLinkBlock(t) ==
  /\ mp_call[t] = "out"
  /\ msg_tmp[t] # NoBlock
  /\ block_list' = block_list \cup {msg_tmp[t]}
  /\ block_free_count' = block_free_count + 1
  /\ msg_tmp' = [msg_tmp EXCEPT ![t] = NoBlock]
  /\ UNCHANGED mp_state

\* Nobody is counted as waiting.
MpFreeQuiet(t) ==
  /\ suspend_thread_count = 0
  /\ MpLinkBlock(t)
  /\ UNCHANGED <<suspend_thread, suspend_thread_count, mp_call, mp_time, wild>>

\* MUTANT of MpFreeResume: nobody is resumed.
MutFreeSilent(t) ==
  /\ suspend_thread_count > 0
  /\ suspend_thread # <<>>
  /\ MpLinkBlock(t)
  /\ UNCHANGED <<suspend_thread, suspend_thread_count, mp_call, mp_time, wild>>

\* The first waiting thread is resumed; it looks for a block once more, with
\* the time it has left.
MpFreeResume(t) ==
  /\ suspend_thread_count > 0
  /\ suspend_thread # <<>>
  /\ MpLinkBlock(t)
  /\ suspend_thread' = Tail(suspend_thread)
  /\ suspend_thread_count' = suspend_thread_count - 1
  /\ LET w == Head(suspend_thread)
     IN  /\ mp_call' = [mp_call EXCEPT ![w] = "alloc"]
         /\ \E left \in Remaining(mp_time[w]) : mp_time' = [mp_time EXCEPT ![w] = left]
  /\ UNCHANGED wild

\* A thread is counted and the list is empty: what rt_list_entry makes of
\* the list head is not a thread.  Its "error" is overwritten; what
\* rt_thread_resume reads as its "stat" decides whether the resume is
\* refused or the list head ends up in the scheduler's ready table, after
\* which nothing is known of the system.
MpFreeWild(t) ==
  /\ suspend_thread_count > 0
  /\ suspend_thread = <<>>
  /\ MpLinkBlock(t)
  /\ suspend_thread_count' = suspend_thread_count - 1
  /\ wild' \in {"written", "scheduled"}
  /\ UNCHANGED <<suspend_thread, mp_call, mp_time>>

MpFree(t) == MpFreeQuiet(t) \/ MpFreeResume(t) \/ MpFreeWild(t)

-----------------------------------------------------------------------------
(* rt_mp_delete (rt_mp_detach is the same for a pool in static memory) *)

MpDeleteCall ==
  /\ mp_state = "live"
  /\ mp_state' = "deleting"
  /\ UNCHANGED <<block_list, block_free_count, suspend_thread,
                 suspend_thread_count, mp_call, mp_time, msg_tmp, wild>>

\* The condition of the loop, tested with interrupts enabled.
MpDeleteTest ==
  /\ mp_state = "deleting"
  /\ suspend_thread # <<>>
  /\ mp_state' = "resuming"
  /\ UNCHANGED <<block_list, block_free_count, suspend_thread,
                 suspend_thread_count, mp_call, mp_time, msg_tmp, wild>>

\* One round of the loop: a waiting thread is resumed with an error, which
\* makes rt_mp_alloc return RT_NULL without looking at the pool again.
MpDeleteResume ==
  /\ mp_state = "resuming"
  /\ suspend_thread # <<>>
  /\ mp_state' = "deleting"
  /\ suspend_thread' = Tail(suspend_thread)
  /\ suspend_thread_count' = suspend_thread_count - 1
  /\ mp_call' = [mp_call EXCEPT ![Head(suspend_thread)] = "alloc_null"]
  /\ UNCHANGED <<block_list, block_free_count, mp_time, msg_tmp, wild>>

\* Since the test the last waiting thread has timed out, and the list head
\* is taken for a thread, as in MpFreeWild: the resume is refused and the
\* loop goes on, or the head ends up in the ready table.
MpDeleteHead ==
  /\ mp_state = "resuming"
  /\ suspend_thread = <<>>
  /\ mp_state' \in {"deleting", "lost"}
  /\ suspend_thread_count' = suspend_thread_count - 1
  /\ UNCHANGED <<block_list, block_free_count, suspend_thread, mp_call,
                 mp_time, msg_tmp, wild>>

\* The blocks and the pool object are freed.
MpDeleteFree ==
  /\ mp_state = "deleting"
  /\ suspend_thread = <<>>
  /\ mp_state' = "freed"
  /\ UNCHANGED <<block_list, block_free_count, suspend_thread,
                 suspend_thread_count, mp_call, mp_time, msg_tmp, wild>>

MpDeleteStep == MpDeleteTest \/ MpDeleteResume \/ MpDeleteHead \/ MpDeleteFree

-----------------------------------------------------------------------------
\* What a thread does inside rt_mp_alloc, its timer included.
MpAllocStep(t) ==
  MpAllocTake(t) \/ MpAllocNull(t) \/ MpAllocSuspend(t) \/ MpTimeout(t)

\* rt_mp_delete may only be called once no thread is inside the pool but
\* those that wait for a block: one about to look for a block would use freed
\* memory.  Who holds a block may not free it any more.
MpQuiet == \A t \in Threads : mp_call[t] \in {"out", "alloc_wait"}

\* No list head is in the scheduler's ready table.
MpKnown == wild # "scheduled" /\ mp_state # "lost"

\* A pool used directly.
MpNext ==
  /\ MpKnown
  /\ \/ \E t \in Threads : \/ \E time \in Timeouts : MpAllocCall(t, time)
                           \/ MpAllocStep(t)
                           \/ MpAllocReturn(t)
                           \/ mp_state = "live" /\ MpFree(t)
     \/ MpQuiet /\ MpDeleteCall
     \/ MpDeleteStep

MpSpec == MpInit /\ [][MpNext]_mpVars

-----------------------------------------------------------------------------
(* Properties *)

\* The threads about to look for a block.
MpSeekers == {t \in Threads : mp_call[t] = "alloc"}

\* A thread never sleeps while there are blocks for it: whenever someone
\* waits, every free block has a thread on its way to take it.  This is
\* what resuming one waiter per rt_mp_free has to achieve although other
\* threads may take the block first and waiters may time out.
MpNoLostWakeup ==
  suspend_thread # <<>> => block_free_count <= Cardinality(MpSeekers)

\* The free list and the free counter, which decides whether the list head
\* may be dereferenced, agree, and every block is in one place: free, or with
\* one thread.
MpBlocksAccounted ==
  /\ block_free_count = Cardinality(block_list)
  /\ Blocks = block_list \cup ({msg_tmp[t] : t \in Threads} \ {NoBlock})
  /\ \A t \in Threads : msg_tmp[t] \notin block_list
  /\ \A t, u \in Threads : msg_tmp[t] = msg_tmp[u] /\ msg_tmp[t] # NoBlock => t = u

\* The count never falls short of the list, so rt_mp_free and rt_mp_delete
\* never leave a thread behind because the count reached 0 first.
MpCountCoversList == suspend_thread_count >= Len(suspend_thread)

\* The two counters of the pool, of blocks and of threads, and what they
\* count: see MpBlocksAccounted and MpCountCoversList.
MpCounters == MpBlocksAccounted /\ MpCountCoversList

\* Once rt_mp_delete has freed the pool no thread sleeps on its list or is
\* about to look into it: everyone who waited was sent home with an error.
MpFreedUntouched ==
  mp_state = "freed" => \A t \in Threads : mp_call[t] \notin {"alloc", "alloc_wait"}

\* "numbers of thread pended on this resource": when rt_mp_free takes the
\* first thread off the list because the count is positive, there is one.
MpResumesAThread == wild = "no"

=============================================================================
