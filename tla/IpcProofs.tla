------------------------------ MODULE IpcProofs ------------------------------
(***************************************************************************)
(* Proofs about the memory pool, the mailbox, the semaphore and the event   *)
(* as they are used directly, for any number of threads, blocks, mails,     *)
(* slots and flags and any width of a count.  The lemmas about an object    *)
(* have the prefix of its actions.                                          *)
(***************************************************************************)
EXTENDS MemPool, Mailbox, Semaphore, Event, KernelWaitProofs

-----------------------------------------------------------------------------
(***************************************************************************)
(* Proofs about MemPool used directly, for any number of threads and        *)
(* blocks.                                                                  *)
(*                                                                          *)
(* All that the runs check of a pool is inductive once two things are       *)
(* added: which threads have no block, and that nobody is about to look     *)
(* into a pool that is being deleted.  It holds although rt_mp_free may     *)
(* take the list head for a thread (MpFreeWild), as long as the scheduler   *)
(* is not given it: the specification ends there.                           *)
(***************************************************************************)

\* The list holds exactly the threads that wait, each once.
MpListExact ==
  /\ Distinct(suspend_thread)
  /\ Waiting(suspend_thread) = {t \in Threads : mp_call[t] = "alloc_wait"}

\* A thread that is in rt_mp_alloc without having got one has no block.
MpEmptyHanded ==
  \A t \in Threads :
    mp_call[t] \in {"alloc", "alloc_wait", "alloc_null"} => msg_tmp[t] = NoBlock

\* Nobody looks for a block once the pool is being deleted.
MpLeftAlone == mp_state # "live" => MpSeekers = {}

\* What the loop of rt_mp_delete has seen stays: a counted thread before it
\* resumes one, though that thread may have timed out since, and nobody
\* before it frees the pool.
MpDeleteSaw ==
  /\ mp_state = "resuming" => suspend_thread_count > 0
  /\ mp_state = "freed" => suspend_thread = <<>>

MpInv ==
  /\ MpTypeOK
  /\ MpListExact
  /\ MpEmptyHanded
  /\ MpLeftAlone
  /\ MpDeleteSaw
  /\ MpBlocksAccounted
  /\ MpCountCoversList
  /\ MpNoLostWakeup

-----------------------------------------------------------------------------
(* Facts the steps share *)

\* The threads about to look for a block, and the free blocks, are finitely
\* many.
LEMMA MpCountsAreNaturals ==
  /\ IsFiniteSet(MpSeekers) /\ Cardinality(MpSeekers) \in Nat
  /\ MpTypeOK => IsFiniteSet(block_list) /\ Cardinality(block_list) \in Nat
<1>1. MpSeekers \in SUBSET Threads
  BY DEF MpSeekers
<1>2. MpTypeOK => block_list \in SUBSET Blocks
  BY DEF MpTypeOK
<1> QED
  BY <1>1, <1>2, ThreadsAssumption, MemPoolAssumption, FS_Subset, FS_CardinalityType

\* One that starts to look is one more, one that stops is one less.
LEMMA MpSeekersAdd ==
  ASSUME NEW t \in Threads, t \notin MpSeekers, MpSeekers' = MpSeekers \cup {t}
  PROVE  Cardinality(MpSeekers') = Cardinality(MpSeekers) + 1
BY MpCountsAreNaturals, FS_AddElement

LEMMA MpSeekersRemove ==
  ASSUME NEW t \in MpSeekers, MpSeekers' = MpSeekers \ {t}
  PROVE  Cardinality(MpSeekers') = Cardinality(MpSeekers) - 1
BY MpCountsAreNaturals, FS_RemoveElement

\* The blocks are where they were if nobody moves one.
LEMMA MpBlocksStay ==
  ASSUME MpBlocksAccounted, UNCHANGED <<block_list, block_free_count, msg_tmp>>
  PROVE  MpBlocksAccounted'
BY DEF MpBlocksAccounted

\* The blocks still have someone to take them if none is added, no seeker
\* leaves, and nobody starts to wait.
LEMMA MpSeekersStay ==
  ASSUME MpInv, block_free_count' = block_free_count, MpSeekers' = MpSeekers,
         suspend_thread' # <<>> => suspend_thread # <<>>
  PROVE  MpNoLostWakeup'
BY DEF MpInv, MpNoLostWakeup

\* The first thread of the list waits, and taking it off takes off no other.
LEMMA MpFirstWaiter ==
  ASSUME MpInv, suspend_thread # <<>>
  PROVE  /\ Head(suspend_thread) \in Threads
         /\ mp_call[Head(suspend_thread)] = "alloc_wait"
         /\ Tail(suspend_thread) \in Seq(Threads)
         /\ Distinct(Tail(suspend_thread))
         /\ Waiting(Tail(suspend_thread)) = Waiting(suspend_thread) \ {Head(suspend_thread)}
         /\ suspend_thread_count \in Nat \ {0}
         /\ suspend_thread_count - 1 >= Len(Tail(suspend_thread))
<1>1. /\ Head(suspend_thread) \in Threads
      /\ Head(suspend_thread) \in Waiting(suspend_thread)
      /\ Tail(suspend_thread) \in Seq(Threads)
      /\ Distinct(Tail(suspend_thread))
      /\ Waiting(Tail(suspend_thread)) = Waiting(suspend_thread) \ {Head(suspend_thread)}
      /\ Len(Tail(suspend_thread)) = Len(suspend_thread) - 1
      /\ Len(suspend_thread) \in Nat \ {0}
  BY TailRemovesHead DEF MpInv, MpTypeOK, MpListExact
<1>2. suspend_thread_count \in Nat /\ suspend_thread_count >= Len(suspend_thread)
  BY DEF MpInv, MpTypeOK, MpCountCoversList
<1> QED  BY <1>1, <1>2 DEF MpInv, MpListExact

-----------------------------------------------------------------------------
(* rt_mp_alloc *)

LEMMA MpAllocCallKeeps ==
  ASSUME MpInv, NEW t \in Threads, NEW time \in Timeouts, MpAllocCall(t, time)
  PROVE  MpInv'
<1>1. MpTypeOK'
  BY DEF MpInv, MpTypeOK, MpAllocCall
<1>2. MpListExact' /\ MpEmptyHanded' /\ MpLeftAlone' /\ MpDeleteSaw' /\ MpCountCoversList'
  BY DEF MpInv, MpTypeOK, MpListExact, MpEmptyHanded, MpLeftAlone, MpDeleteSaw,
         MpCountCoversList, MpAllocCall
<1>3. MpBlocksAccounted'
  BY MpBlocksStay DEF MpInv, MpAllocCall
<1>4. MpSeekers' = MpSeekers \cup {t} /\ t \notin MpSeekers
  BY DEF MpInv, MpTypeOK, MpSeekers, MpAllocCall
<1>5. Cardinality(MpSeekers') = Cardinality(MpSeekers) + 1
  BY <1>4, MpSeekersAdd
<1>6. /\ suspend_thread' = suspend_thread
      /\ block_free_count' = block_free_count /\ block_free_count \in Nat
  BY DEF MpInv, MpTypeOK, MpAllocCall
<1>7. MpNoLostWakeup'
  BY <1>5, <1>6, MpCountsAreNaturals DEF MpInv, MpNoLostWakeup
<1> QED  BY <1>1, <1>2, <1>3, <1>7 DEF MpInv

\* Taking a block moves it from the list to t.
LEMMA MpAllocTakeBlocks ==
  ASSUME MpInv, NEW t \in Threads, MpAllocTake(t)
  PROVE  /\ block_list' \in SUBSET Blocks
         /\ block_free_count \in Nat \ {0}
         /\ msg_tmp' \in [Threads -> Blocks \cup {NoBlock}]
         /\ \A u \in Threads \ {t} : msg_tmp'[u] = msg_tmp[u]
         /\ MpBlocksAccounted'
<1>1. PICK b \in block_list : /\ block_list' = block_list \ {b}
                              /\ msg_tmp' = [msg_tmp EXCEPT ![t] = b]
  BY DEF MpAllocTake
<1>2. /\ b \in Blocks /\ b # NoBlock
      /\ msg_tmp[t] = NoBlock
      /\ block_free_count \in Nat \ {0}
      /\ block_free_count' = block_free_count - 1
  BY MemPoolAssumption DEF MpInv, MpTypeOK, MpEmptyHanded, MpAllocTake
<1>3. /\ msg_tmp'[t] = b
      /\ \A u \in Threads \ {t} : msg_tmp'[u] = msg_tmp[u] /\ msg_tmp[u] # b
  BY <1>1 DEF MpInv, MpTypeOK, MpBlocksAccounted
<1>4. block_free_count' = Cardinality(block_list')
  BY <1>1, <1>2, MpCountsAreNaturals, FS_RemoveElement DEF MpInv, MpBlocksAccounted
<1>5. /\ {msg_tmp'[u] : u \in Threads} = {msg_tmp[u] : u \in Threads \ {t}} \cup {b}
      /\ {msg_tmp[u] : u \in Threads} = {msg_tmp[u] : u \in Threads \ {t}} \cup {NoBlock}
  BY <1>2, <1>3
<1>6. Blocks = block_list' \cup ({msg_tmp'[u] : u \in Threads} \ {NoBlock})
  BY <1>1, <1>2, <1>5 DEF MpInv, MpBlocksAccounted
<1>7. /\ \A u \in Threads : msg_tmp'[u] \notin block_list'
      /\ \A u, v \in Threads : msg_tmp'[u] = msg_tmp'[v] /\ msg_tmp'[u] # NoBlock => u = v
  BY <1>1, <1>3 DEF MpInv, MpBlocksAccounted
<1>8. MpBlocksAccounted'
  BY <1>4, <1>6, <1>7 DEF MpBlocksAccounted
<1> QED  BY <1>1, <1>2, <1>3, <1>8 DEF MpInv, MpTypeOK

LEMMA MpAllocTakeKeeps ==
  ASSUME MpInv, NEW t \in Threads, MpAllocTake(t)
  PROVE  MpInv'
<1>1. /\ block_list' \in SUBSET Blocks
      /\ block_free_count \in Nat \ {0}
      /\ msg_tmp' \in [Threads -> Blocks \cup {NoBlock}]
      /\ \A u \in Threads \ {t} : msg_tmp'[u] = msg_tmp[u]
      /\ MpBlocksAccounted'
  BY MpAllocTakeBlocks
<1>2. MpTypeOK'
  BY <1>1 DEF MpInv, MpTypeOK, MpAllocTake
<1>3. MpListExact' /\ MpEmptyHanded' /\ MpDeleteSaw' /\ MpCountCoversList'
  BY <1>1 DEF MpInv, MpTypeOK, MpListExact, MpEmptyHanded, MpDeleteSaw,
              MpCountCoversList, MpAllocTake
<1>4. MpSeekers' = MpSeekers \ {t} /\ t \in MpSeekers
  BY DEF MpInv, MpTypeOK, MpSeekers, MpAllocTake
<1>5. MpLeftAlone'
  BY <1>4 DEF MpInv, MpLeftAlone, MpAllocTake
<1>6. Cardinality(MpSeekers') = Cardinality(MpSeekers) - 1
  BY <1>4, MpSeekersRemove
<1>7. suspend_thread' = suspend_thread /\ block_free_count' = block_free_count - 1
  BY DEF MpAllocTake
<1>8. MpNoLostWakeup'
  BY <1>1, <1>6, <1>7, MpCountsAreNaturals DEF MpInv, MpNoLostWakeup
<1> QED  BY <1>1, <1>2, <1>3, <1>5, <1>8 DEF MpInv

\* When no block is free nobody can have missed one.
LEMMA MpAllocNullKeeps ==
  ASSUME MpInv, NEW t \in Threads, MpAllocNull(t)
  PROVE  MpInv'
<1>1. MpTypeOK'
  BY DEF MpInv, MpTypeOK, MpAllocNull
<1>2. MpListExact' /\ MpEmptyHanded' /\ MpDeleteSaw' /\ MpCountCoversList'
  BY DEF MpInv, MpTypeOK, MpListExact, MpEmptyHanded, MpDeleteSaw,
         MpCountCoversList, MpAllocNull
<1>3. MpBlocksAccounted'
  BY MpBlocksStay DEF MpInv, MpAllocNull
<1>4. MpSeekers' = MpSeekers \ {t} /\ t \in MpSeekers
  BY DEF MpInv, MpTypeOK, MpSeekers, MpAllocNull
<1>5. MpLeftAlone'
  BY <1>4 DEF MpInv, MpLeftAlone, MpAllocNull
<1>6. Cardinality(MpSeekers') \in Nat /\ block_free_count' = 0
  BY <1>4, MpCountsAreNaturals, FS_RemoveElement, FS_CardinalityType DEF MpAllocNull
<1>7. MpNoLostWakeup'
  BY <1>6 DEF MpNoLostWakeup
<1> QED  BY <1>1, <1>2, <1>3, <1>5, <1>7 DEF MpInv

LEMMA MpAllocSuspendKeeps ==
  ASSUME MpInv, NEW t \in Threads, MpAllocSuspend(t)
  PROVE  MpInv'
<1>1. /\ suspend_thread' \in Seq(Threads)
      /\ Len(suspend_thread') = Len(suspend_thread) + 1
      /\ Distinct(suspend_thread')
      /\ Waiting(suspend_thread') = Waiting(suspend_thread) \cup {t}
  <2>1. t \notin Waiting(suspend_thread)
    BY DEF MpInv, MpListExact, MpAllocSuspend
  <2> QED  BY <2>1, EnqueueFirstAdds DEF MpInv, MpTypeOK, MpListExact, MpAllocSuspend
<1>2. MpTypeOK'
  BY <1>1 DEF MpInv, MpTypeOK, MpAllocSuspend
<1>3. MpListExact' /\ MpEmptyHanded'
  BY <1>1 DEF MpInv, MpTypeOK, MpListExact, MpEmptyHanded, MpAllocSuspend
<1>4. MpCountCoversList'
  BY <1>1 DEF MpInv, MpTypeOK, MpCountCoversList, MpAllocSuspend
<1>5. MpBlocksAccounted'
  BY MpBlocksStay DEF MpInv, MpAllocSuspend
<1>6. MpSeekers' = MpSeekers \ {t} /\ t \in MpSeekers
  BY DEF MpInv, MpTypeOK, MpSeekers, MpAllocSuspend
<1>7. MpLeftAlone' /\ MpDeleteSaw'
  BY <1>6 DEF MpInv, MpTypeOK, MpLeftAlone, MpDeleteSaw, MpAllocSuspend
<1>8. Cardinality(MpSeekers') \in Nat /\ block_free_count' = 0
  BY <1>6, MpCountsAreNaturals, FS_RemoveElement, FS_CardinalityType DEF MpAllocSuspend
<1>9. MpNoLostWakeup'
  BY <1>8 DEF MpNoLostWakeup
<1> QED  BY <1>2, <1>3, <1>4, <1>5, <1>7, <1>9 DEF MpInv

LEMMA MpTimeoutKeeps ==
  ASSUME MpInv, NEW t \in Threads, MpTimeout(t)
  PROVE  MpInv'
<1>1. /\ suspend_thread' \in Seq(Threads)
      /\ Len(suspend_thread') = Len(suspend_thread) - 1
      /\ Len(suspend_thread) \in Nat \ {0}
      /\ Distinct(suspend_thread')
      /\ Waiting(suspend_thread') = Waiting(suspend_thread) \ {t}
      /\ suspend_thread # <<>>
  <2>1. t \in Waiting(suspend_thread)
    BY DEF MpInv, MpListExact, MpTimeout
  <2> QED  BY <2>1, UnlinkRemoves DEF MpInv, MpTypeOK, MpListExact, MpTimeout
<1>2. MpTypeOK'
  BY <1>1 DEF MpInv, MpTypeOK, MpTimeout
<1>3. MpListExact' /\ MpEmptyHanded'
  BY <1>1 DEF MpInv, MpTypeOK, MpListExact, MpEmptyHanded, MpTimeout
<1>4. MpCountCoversList'
  BY <1>1 DEF MpInv, MpTypeOK, MpCountCoversList, MpTimeout
<1>5. MpBlocksAccounted'
  BY MpBlocksStay DEF MpInv, MpTimeout
<1>6. MpSeekers' = MpSeekers
  BY DEF MpInv, MpTypeOK, MpSeekers, MpTimeout
<1>7. MpLeftAlone' /\ MpDeleteSaw'
  BY <1>1, <1>6 DEF MpInv, MpLeftAlone, MpDeleteSaw, MpTimeout
<1>8. MpNoLostWakeup'
  BY <1>1, <1>6, MpSeekersStay DEF MpTimeout
<1> QED  BY <1>2, <1>3, <1>4, <1>5, <1>7, <1>8 DEF MpInv

LEMMA MpAllocReturnKeeps ==
  ASSUME MpInv, NEW t \in Threads, MpAllocReturn(t)
  PROVE  MpInv'
<1>1. MpTypeOK'
  BY DEF MpInv, MpTypeOK, MpAllocReturn, Timeouts
<1>2. MpListExact' /\ MpEmptyHanded' /\ MpDeleteSaw' /\ MpCountCoversList'
  BY DEF MpInv, MpTypeOK, MpListExact, MpEmptyHanded, MpDeleteSaw,
         MpCountCoversList, MpAllocReturn
<1>3. MpBlocksAccounted'
  BY MpBlocksStay DEF MpInv, MpAllocReturn
<1>4. MpSeekers' = MpSeekers
  BY DEF MpInv, MpTypeOK, MpSeekers, MpAllocReturn
<1>5. MpLeftAlone'
  BY <1>4 DEF MpInv, MpLeftAlone, MpAllocReturn
<1>6. MpNoLostWakeup'
  BY <1>4, MpSeekersStay DEF MpAllocReturn
<1> QED  BY <1>1, <1>2, <1>3, <1>5, <1>6 DEF MpInv

-----------------------------------------------------------------------------
(* rt_mp_free *)

\* Giving a block back moves it from t to the list.
LEMMA MpLinkBlockBlocks ==
  ASSUME MpInv, NEW t \in Threads, MpLinkBlock(t)
  PROVE  /\ mp_call[t] = "out"
         /\ block_list' \in SUBSET Blocks
         /\ block_free_count \in Nat /\ block_free_count' = block_free_count + 1
         /\ msg_tmp' \in [Threads -> Blocks \cup {NoBlock}]
         /\ \A u \in Threads : msg_tmp[u] = NoBlock => msg_tmp'[u] = NoBlock
         /\ mp_state' = mp_state
         /\ MpBlocksAccounted'
<1> DEFINE b == msg_tmp[t]
<1>1. /\ b \in Blocks /\ b # NoBlock /\ b \notin block_list
      /\ mp_call[t] = "out"
      /\ block_list' = block_list \cup {b}
      /\ block_free_count' = block_free_count + 1
      /\ msg_tmp' = [msg_tmp EXCEPT ![t] = NoBlock]
      /\ mp_state' = mp_state
  BY DEF MpInv, MpTypeOK, MpBlocksAccounted, MpLinkBlock
<1>2. /\ msg_tmp'[t] = NoBlock
      /\ \A u \in Threads \ {t} : msg_tmp'[u] = msg_tmp[u] /\ msg_tmp[u] # b
  BY <1>1 DEF MpInv, MpTypeOK, MpBlocksAccounted
<1>3. block_free_count' = Cardinality(block_list')
  BY <1>1, MpCountsAreNaturals, FS_AddElement DEF MpInv, MpBlocksAccounted
<1>4. /\ {msg_tmp'[u] : u \in Threads} = {msg_tmp[u] : u \in Threads \ {t}} \cup {NoBlock}
      /\ {msg_tmp[u] : u \in Threads} = {msg_tmp[u] : u \in Threads \ {t}} \cup {b}
  BY <1>2
<1> HIDE DEF b
<1>5. Blocks = block_list' \cup ({msg_tmp'[u] : u \in Threads} \ {NoBlock})
  BY <1>1, <1>4 DEF MpInv, MpBlocksAccounted
<1>6. \A u \in Threads : msg_tmp'[u] \notin block_list'
  <2>1. NoBlock \notin block_list'
    BY <1>1, MemPoolAssumption DEF MpInv, MpTypeOK
  <2> QED  BY <1>1, <1>2, <2>1 DEF MpInv, MpBlocksAccounted
<1>7. \A u, v \in Threads : msg_tmp'[u] = msg_tmp'[v] /\ msg_tmp'[u] # NoBlock => u = v
  BY <1>2 DEF MpInv, MpBlocksAccounted
<1>8. MpBlocksAccounted'
  BY <1>3, <1>5, <1>6, <1>7 DEF MpBlocksAccounted
<1> QED  BY <1>1, <1>2, <1>8 DEF MpInv, MpTypeOK

\* While nobody waits, a block may become free without anyone being told.
LEMMA MpFreeUnnoticedKeeps ==
  ASSUME MpInv, NEW t \in Threads, mp_state = "live", MpLinkBlock(t),
         suspend_thread = <<>>, suspend_thread_count' \in Nat, wild' \in {"no", "written", "scheduled"},
         UNCHANGED <<suspend_thread, mp_call, mp_time>>
  PROVE  MpInv'
<1>1. /\ block_list' \in SUBSET Blocks
      /\ block_free_count' \in Nat
      /\ msg_tmp' \in [Threads -> Blocks \cup {NoBlock}]
      /\ \A u \in Threads : msg_tmp[u] = NoBlock => msg_tmp'[u] = NoBlock
      /\ mp_state' = mp_state
      /\ MpBlocksAccounted'
  BY MpLinkBlockBlocks
<1>2. MpTypeOK'
  BY <1>1 DEF MpInv, MpTypeOK
<1>3. MpListExact' /\ MpEmptyHanded' /\ MpDeleteSaw'
  BY <1>1 DEF MpInv, MpListExact, MpEmptyHanded, MpDeleteSaw
<1>4. MpLeftAlone'
  BY <1>1 DEF MpInv, MpLeftAlone, MpSeekers
<1>5. MpCountCoversList' /\ MpNoLostWakeup'
  BY DEF MpCountCoversList, MpNoLostWakeup
<1> QED  BY <1>1, <1>2, <1>3, <1>4, <1>5 DEF MpInv

LEMMA MpFreeQuietKeeps ==
  ASSUME MpInv, NEW t \in Threads, mp_state = "live", MpFreeQuiet(t)
  PROVE  MpInv'
<1>1. suspend_thread = <<>>
  BY DEF MpInv, MpTypeOK, MpCountCoversList, MpFreeQuiet
<1> QED  BY <1>1, MpFreeUnnoticedKeeps DEF MpFreeQuiet, MpInv, MpTypeOK

LEMMA MpFreeWildKeeps ==
  ASSUME MpInv, NEW t \in Threads, mp_state = "live", MpFreeWild(t)
  PROVE  MpInv'
<1>1. suspend_thread_count' \in Nat
  BY DEF MpInv, MpTypeOK, MpFreeWild
<1> QED  BY <1>1, MpFreeUnnoticedKeeps DEF MpFreeWild

LEMMA MpFreeResumeKeeps ==
  ASSUME MpInv, NEW t \in Threads, mp_state = "live", MpFreeResume(t)
  PROVE  MpInv'
<1> DEFINE w == Head(suspend_thread)
<1>1. /\ mp_call[t] = "out"
      /\ block_list' \in SUBSET Blocks
      /\ block_free_count \in Nat /\ block_free_count' = block_free_count + 1
      /\ msg_tmp' \in [Threads -> Blocks \cup {NoBlock}]
      /\ \A u \in Threads : msg_tmp[u] = NoBlock => msg_tmp'[u] = NoBlock
      /\ mp_state' = mp_state
      /\ MpBlocksAccounted'
  BY MpLinkBlockBlocks DEF MpFreeResume
<1>2. /\ suspend_thread # <<>>
      /\ suspend_thread' = Tail(suspend_thread)
      /\ suspend_thread_count' = suspend_thread_count - 1
      /\ mp_call' = [mp_call EXCEPT ![w] = "alloc"]
      /\ \E left \in Remaining(mp_time[w]) : mp_time' = [mp_time EXCEPT ![w] = left]
      /\ wild' = wild
  BY DEF MpFreeResume
<1>3. /\ w \in Threads
      /\ mp_call[w] = "alloc_wait"
      /\ suspend_thread' \in Seq(Threads)
      /\ Distinct(suspend_thread')
      /\ Waiting(suspend_thread') = Waiting(suspend_thread) \ {w}
      /\ suspend_thread_count' \in Nat
      /\ suspend_thread_count' >= Len(suspend_thread')
  BY <1>2, MpFirstWaiter
<1> HIDE DEF w
<1>4. mp_time' \in [Threads -> Timeouts]
  BY <1>2, <1>3 DEF MpInv, MpTypeOK, Remaining, Timeouts
<1>5. MpTypeOK'
  BY <1>1, <1>2, <1>3, <1>4 DEF MpInv, MpTypeOK
<1>6. MpListExact' /\ MpEmptyHanded' /\ MpCountCoversList'
  BY <1>1, <1>2, <1>3 DEF MpInv, MpTypeOK, MpListExact, MpEmptyHanded, MpCountCoversList
<1>7. MpLeftAlone' /\ MpDeleteSaw'
  BY <1>1 DEF MpLeftAlone, MpDeleteSaw
<1>8. MpSeekers' = MpSeekers \cup {w} /\ w \notin MpSeekers
  BY <1>2, <1>3 DEF MpInv, MpTypeOK, MpSeekers
<1>9. Cardinality(MpSeekers') = Cardinality(MpSeekers) + 1
  BY <1>3, <1>8, MpSeekersAdd
<1>10. MpNoLostWakeup'
  BY <1>1, <1>2, <1>9, MpCountsAreNaturals DEF MpInv, MpNoLostWakeup
<1> QED  BY <1>1, <1>5, <1>6, <1>7, <1>10 DEF MpInv

-----------------------------------------------------------------------------
(* rt_mp_delete *)

LEMMA MpDeleteCallKeeps ==
  ASSUME MpInv, MpQuiet, MpDeleteCall
  PROVE  MpInv'
<1>1. MpSeekers' = {}
  BY DEF MpQuiet, MpSeekers, MpDeleteCall
<1>2. MpSeekers' = MpSeekers
  BY DEF MpSeekers, MpDeleteCall
<1>3. MpTypeOK'
  BY DEF MpInv, MpTypeOK, MpDeleteCall
<1>4. MpListExact' /\ MpEmptyHanded' /\ MpCountCoversList'
  BY DEF MpInv, MpListExact, MpEmptyHanded, MpCountCoversList, MpDeleteCall
<1>5. MpLeftAlone' /\ MpDeleteSaw'
  BY <1>1 DEF MpLeftAlone, MpDeleteSaw, MpDeleteCall
<1>6. MpBlocksAccounted'
  BY MpBlocksStay DEF MpInv, MpDeleteCall
<1>7. MpNoLostWakeup'
  BY <1>2, MpSeekersStay DEF MpDeleteCall
<1> QED  BY <1>3, <1>4, <1>5, <1>6, <1>7 DEF MpInv

LEMMA MpDeleteTestKeeps ==
  ASSUME MpInv, MpDeleteTest
  PROVE  MpInv'
<1>1. suspend_thread_count > 0
  BY MpFirstWaiter DEF MpDeleteTest
<1>2. MpSeekers' = MpSeekers
  BY DEF MpSeekers, MpDeleteTest
<1>3. /\ MpTypeOK' /\ MpListExact' /\ MpEmptyHanded' /\ MpLeftAlone' /\ MpDeleteSaw'
      /\ MpCountCoversList'
  BY <1>1, <1>2 DEF MpInv, MpTypeOK, MpListExact, MpEmptyHanded, MpLeftAlone, MpDeleteSaw,
                    MpCountCoversList, MpDeleteTest
<1>4. MpBlocksAccounted'
  BY MpBlocksStay DEF MpInv, MpDeleteTest
<1>5. MpNoLostWakeup'
  BY <1>2, MpSeekersStay DEF MpDeleteTest
<1> QED  BY <1>3, <1>4, <1>5 DEF MpInv

LEMMA MpDeleteResumeKeeps ==
  ASSUME MpInv, MpDeleteResume
  PROVE  MpInv'
<1> DEFINE w == Head(suspend_thread)
<1>1. /\ mp_state = "resuming" /\ mp_state' = "deleting" /\ suspend_thread # <<>>
      /\ suspend_thread' = Tail(suspend_thread)
      /\ suspend_thread_count' = suspend_thread_count - 1
      /\ mp_call' = [mp_call EXCEPT ![w] = "alloc_null"]
      /\ UNCHANGED <<block_list, block_free_count, mp_time, msg_tmp, wild>>
  BY DEF MpDeleteResume
<1>2. /\ w \in Threads
      /\ mp_call[w] = "alloc_wait"
      /\ suspend_thread' \in Seq(Threads)
      /\ Distinct(suspend_thread')
      /\ Waiting(suspend_thread') = Waiting(suspend_thread) \ {w}
      /\ suspend_thread_count' \in Nat
      /\ suspend_thread_count' >= Len(suspend_thread')
  BY <1>1, MpFirstWaiter
<1> HIDE DEF w
<1>3. MpTypeOK'
  BY <1>1, <1>2 DEF MpInv, MpTypeOK
<1>4. MpListExact' /\ MpEmptyHanded' /\ MpDeleteSaw' /\ MpCountCoversList'
  BY <1>1, <1>2 DEF MpInv, MpTypeOK, MpListExact, MpEmptyHanded, MpDeleteSaw, MpCountCoversList
<1>5. MpBlocksAccounted'
  BY <1>1, MpBlocksStay DEF MpInv
<1>6. MpSeekers' = MpSeekers
  BY <1>1, <1>2 DEF MpInv, MpTypeOK, MpSeekers
<1>7. MpLeftAlone'
  BY <1>1, <1>6 DEF MpInv, MpLeftAlone
<1>8. MpNoLostWakeup'
  BY <1>1, <1>6, MpSeekersStay
<1> QED  BY <1>3, <1>4, <1>5, <1>7, <1>8 DEF MpInv

\* The list head is resumed in the place of the thread that was counted when
\* the list was tested.
LEMMA MpDeleteHeadKeeps ==
  ASSUME MpInv, MpDeleteHead
  PROVE  MpInv'
<1>1. suspend_thread_count' \in Nat
  BY DEF MpInv, MpTypeOK, MpDeleteSaw, MpDeleteHead
<1>2. MpSeekers' = MpSeekers
  BY DEF MpSeekers, MpDeleteHead
<1>3. Len(suspend_thread') = 0
  BY DEF MpDeleteHead
<1>4. /\ MpTypeOK' /\ MpListExact' /\ MpEmptyHanded' /\ MpLeftAlone' /\ MpDeleteSaw'
      /\ MpCountCoversList'
  BY <1>1, <1>2, <1>3 DEF MpInv, MpTypeOK, MpListExact, MpEmptyHanded, MpLeftAlone,
                          MpDeleteSaw, MpCountCoversList, MpDeleteHead
<1>5. MpBlocksAccounted'
  BY MpBlocksStay DEF MpInv, MpDeleteHead
<1>6. MpNoLostWakeup'
  BY <1>2, MpSeekersStay DEF MpDeleteHead
<1> QED  BY <1>4, <1>5, <1>6 DEF MpInv

LEMMA MpDeleteFreeKeeps ==
  ASSUME MpInv, MpDeleteFree
  PROVE  MpInv'
BY DEF MpInv, MpTypeOK, MpListExact, MpEmptyHanded, MpLeftAlone, MpDeleteSaw, MpSeekers,
       MpBlocksAccounted, MpCountCoversList, MpNoLostWakeup, MpDeleteFree

-----------------------------------------------------------------------------
(* The specification *)

LEMMA MpInitEstablishes == MpInit => MpInv
<1> SUFFICES ASSUME MpInit  PROVE MpInv
  OBVIOUS
<1>1. /\ suspend_thread \in Seq(Threads)
      /\ Distinct(suspend_thread) /\ Waiting(suspend_thread) = {}
      /\ Len(suspend_thread) = 0
  BY DEF MpInit, Distinct, Waiting
<1>2. Cardinality(Blocks) \in Nat
  BY MemPoolAssumption, FS_CardinalityType
<1>3. MpTypeOK
  BY <1>1, <1>2 DEF MpInit, MpTypeOK, Timeouts
<1>4. MpListExact /\ MpEmptyHanded /\ MpLeftAlone /\ MpDeleteSaw
  BY <1>1 DEF MpInit, MpListExact, MpEmptyHanded, MpLeftAlone, MpDeleteSaw
<1>5. MpBlocksAccounted
  BY MemPoolAssumption DEF MpInit, MpBlocksAccounted
<1>6. MpCountCoversList /\ MpNoLostWakeup
  BY <1>1 DEF MpInit, MpCountCoversList, MpNoLostWakeup
<1> QED  BY <1>3, <1>4, <1>5, <1>6 DEF MpInv

LEMMA MpStepKeeps ==
  ASSUME MpInv, [MpNext]_mpVars
  PROVE  MpInv'
<1>1. ASSUME NEW t \in Threads, NEW time \in Timeouts, MpAllocCall(t, time)  PROVE MpInv'
  BY <1>1, MpAllocCallKeeps
<1>2. ASSUME NEW t \in Threads, MpAllocStep(t)  PROVE MpInv'
  BY <1>2, MpAllocTakeKeeps, MpAllocNullKeeps, MpAllocSuspendKeeps, MpTimeoutKeeps DEF MpAllocStep
<1>3. ASSUME NEW t \in Threads, MpAllocReturn(t)  PROVE MpInv'
  BY <1>3, MpAllocReturnKeeps
<1>4. ASSUME NEW t \in Threads, mp_state = "live", MpFree(t)  PROVE MpInv'
  BY <1>4, MpFreeQuietKeeps, MpFreeResumeKeeps, MpFreeWildKeeps DEF MpFree
<1>5. CASE MpQuiet /\ MpDeleteCall
  BY <1>5, MpDeleteCallKeeps
<1>6. CASE MpDeleteStep
  BY <1>6, MpDeleteTestKeeps, MpDeleteResumeKeeps, MpDeleteHeadKeeps, MpDeleteFreeKeeps
     DEF MpDeleteStep
<1>7. CASE UNCHANGED mpVars
  BY <1>7 DEF mpVars, MpInv, MpTypeOK, MpListExact, MpEmptyHanded, MpLeftAlone, MpDeleteSaw,
              MpSeekers, MpBlocksAccounted, MpCountCoversList, MpNoLostWakeup
<1> QED  BY <1>1, <1>2, <1>3, <1>4, <1>5, <1>6, <1>7 DEF MpNext

\* The invariant holds in every reachable state of a memory pool.
THEOREM MpInvariance == MpSpec => []MpInv
<1>1. MpInv /\ [MpNext]_mpVars => MpInv'
  BY MpStepKeeps
<1> QED  BY MpInitEstablishes, <1>1, PTL DEF MpSpec

\* block_free_count counts the free blocks, every block is in one place, and
\* suspend_thread_count never falls short of the threads that wait.
THEOREM CountersAreRight == MpSpec => []MpCounters
<1>1. MpInv => MpCounters
  BY DEF MpInv, MpCounters
<1> QED  BY MpInvariance, <1>1, PTL

\* rt_mp_free resumes enough threads: none sleeps in rt_mp_alloc while there
\* is a free block that no other thread is about to take.
THEOREM NoWakeupIsLost == MpSpec => []MpNoLostWakeup
<1>1. MpInv => MpNoLostWakeup
  BY DEF MpInv
<1> QED  BY MpInvariance, <1>1, PTL

\* rt_mp_delete leaves nobody behind who would look into the freed pool.
THEOREM FreedPoolIsUntouched == MpSpec => []MpFreedUntouched
<1>1. MpInv => MpFreedUntouched
  BY DEF MpInv, MpFreedUntouched, MpLeftAlone, MpDeleteSaw, MpSeekers, MpListExact, Waiting
<1> QED  BY MpInvariance, <1>1, PTL

-----------------------------------------------------------------------------
(***************************************************************************)
(* Proofs about Mailbox, for any number of threads, mails and slots.        *)
(*                                                                          *)
(* The two directions are the same argument: each mail put in moves one     *)
(* sleeping receiver to those about to look, and each of those takes one    *)
(* mail; each mail taken out does so for the senders and the free slots. A  *)
(* send that resumes a receiver leaves the senders as many as the room it   *)
(* took demands, and the other way round.                                   *)
(***************************************************************************)

\* The threads about to look for a mail, and for room.
MbReceivers == {t \in Threads : mb_call[t] = "recv"}
MbSenders == {t \in Threads : mb_call[t] = "send"}

\* Both lists hold those that sleep in the call the list is for, each once.
MbPlaced ==
  /\ Distinct(suspend_recv_thread)
  /\ Distinct(suspend_sender_thread)
  /\ Waiting(suspend_recv_thread) = {t \in Threads : mb_call[t] = "recv_wait"}
  /\ Waiting(suspend_sender_thread) = {t \in Threads : mb_call[t] = "send_wait"}

\* A deletion finds nobody about to look, and resumes all before it frees.
MbDeserted ==
  /\ mb_state # "live" => \A t \in Threads : mb_call[t] \notin {"send", "recv"}
  /\ mb_state = "freed" => suspend_recv_thread = <<>> /\ suspend_sender_thread = <<>>

MbInv ==
  /\ MbTypeOK
  /\ MbPlaced
  /\ MbDeserted
  /\ MbNoLostMail
  /\ MbNoLostRoom

-----------------------------------------------------------------------------
(* Counting *)

LEMMA MbCountsAreNumbers ==
  /\ IsFiniteSet(MbReceivers) /\ Cardinality(MbReceivers) \in Nat
  /\ IsFiniteSet(MbSenders) /\ Cardinality(MbSenders) \in Nat
<1>1. MbReceivers \in SUBSET Threads /\ MbSenders \in SUBSET Threads
  BY DEF MbReceivers, MbSenders
<1> QED  BY <1>1, ThreadsAssumption, FS_Subset, FS_CardinalityType

\* A set of threads with one more, and with one less.
LEMMA MbOneMore ==
  ASSUME NEW S, IsFiniteSet(S), NEW t, t \notin S
  PROVE  Cardinality(S \cup {t}) = Cardinality(S) + 1
BY FS_AddElement

LEMMA MbOneLess ==
  ASSUME NEW S, IsFiniteSet(S), NEW t \in S
  PROVE  Cardinality(S \ {t}) = Cardinality(S) - 1
BY FS_RemoveElement

\* Nothing is missed if the mails are as many, nobody that is about to look
\* leaves, and nobody starts to wait.
LEMMA MbNobodyMisses ==
  ASSUME MbInv, entry' = entry, MbReceivers' = MbReceivers, MbSenders' = MbSenders,
         suspend_recv_thread' # <<>> => suspend_recv_thread # <<>>,
         suspend_sender_thread' # <<>> => suspend_sender_thread # <<>>
  PROVE  MbNoLostMail' /\ MbNoLostRoom'
BY DEF MbInv, MbNoLostMail, MbNoLostRoom, MbReceivers, MbSenders

\* The offsets stay inside the ring.
LEMMA MbNextOffsetType ==
  ASSUME NEW i \in 0 .. Size - 1
  PROVE  NextOffset(i) \in 0 .. Size - 1
BY MailboxAssumption DEF NextOffset

-----------------------------------------------------------------------------
(* rt_mb_send_wait *)

LEMMA MbSendCallKeeps ==
  ASSUME MbInv, NEW t \in Threads, NEW m \in Mails, NEW timeout \in Timeouts,
         MbSendCall(t, m, timeout)
  PROVE  MbInv'
<1>1. MbTypeOK'
  BY DEF MbInv, MbTypeOK, MbSendCall, SendPoints
<1>2. MbPlaced' /\ MbDeserted'
  BY DEF MbInv, MbTypeOK, MbPlaced, MbDeserted, MbSendCall
<1>3. /\ MbSenders' = MbSenders \cup {t} /\ t \notin MbSenders
      /\ MbReceivers' = MbReceivers
  BY DEF MbInv, MbTypeOK, MbSenders, MbReceivers, MbSendCall
<1>4. Cardinality(MbSenders') = Cardinality(MbSenders) + 1
  BY <1>3, MbOneMore, MbCountsAreNumbers
<1>5. /\ entry \in 0 .. Size /\ Size \in Nat
      /\ UNCHANGED <<entry, suspend_recv_thread, suspend_sender_thread>>
  BY MailboxAssumption DEF MbInv, MbTypeOK, MbSendCall
<1>6. MbNoLostMail'
  BY <1>3, <1>5 DEF MbInv, MbNoLostMail, MbReceivers
<1>7. MbNoLostRoom'
  BY <1>4, <1>5, MbCountsAreNumbers DEF MbInv, MbNoLostRoom, MbSenders
<1> QED  BY <1>1, <1>2, <1>6, <1>7 DEF MbInv

\* Without room nobody can have missed any.
LEMMA MbSendFullKeeps ==
  ASSUME MbInv, NEW t \in Threads, MbSendFull(t)
  PROVE  MbInv'
<1>1. MbTypeOK'
  BY DEF MbInv, MbTypeOK, MbSendFull, SendPoints
<1>2. MbPlaced' /\ MbDeserted'
  BY DEF MbInv, MbTypeOK, MbPlaced, MbDeserted, MbSendFull
<1>3. MbReceivers' = MbReceivers
  BY DEF MbInv, MbTypeOK, MbReceivers, MbSendFull
<1>4. MbNoLostMail'
  BY <1>3 DEF MbInv, MbNoLostMail, MbReceivers, MbSendFull
<1>5. MbSenders' = MbSenders \ {t} /\ t \in MbSenders
  BY DEF MbInv, MbTypeOK, MbSenders, MbSendFull
<1>6. Cardinality(MbSenders') \in Nat
  BY <1>5, MbCountsAreNumbers, FS_RemoveElement, FS_CardinalityType
<1>7. Size - entry' = 0
  BY MailboxAssumption DEF MbSendFull
<1>8. MbNoLostRoom'
  BY <1>6, <1>7 DEF MbNoLostRoom, MbSenders
<1> QED  BY <1>1, <1>2, <1>4, <1>8 DEF MbInv

LEMMA MbSendSuspendKeeps ==
  ASSUME MbInv, NEW t \in Threads, MbSendSuspend(t)
  PROVE  MbInv'
<1>1. /\ suspend_sender_thread' \in Seq(Threads)
      /\ Distinct(suspend_sender_thread')
      /\ Waiting(suspend_sender_thread') = Waiting(suspend_sender_thread) \cup {t}
  <2>1. t \notin Waiting(suspend_sender_thread)
    BY DEF MbInv, MbPlaced, MbSendSuspend
  <2> QED  BY <2>1, EnqueueLastAdds DEF MbInv, MbTypeOK, MbPlaced, MbSendSuspend
<1>2. MbTypeOK'
  BY <1>1 DEF MbInv, MbTypeOK, MbSendSuspend, SendPoints
<1>3. MbPlaced' /\ MbDeserted'
  BY <1>1 DEF MbInv, MbTypeOK, MbPlaced, MbDeserted, MbSendSuspend
<1>4. MbReceivers' = MbReceivers
  BY DEF MbInv, MbTypeOK, MbReceivers, MbSendSuspend
<1>5. MbNoLostMail'
  BY <1>4 DEF MbInv, MbNoLostMail, MbReceivers, MbSendSuspend
<1>6. MbSenders' = MbSenders \ {t} /\ t \in MbSenders
  BY DEF MbInv, MbTypeOK, MbSenders, MbSendSuspend
<1>7. Cardinality(MbSenders') \in Nat
  BY <1>6, MbCountsAreNumbers, FS_RemoveElement, FS_CardinalityType
<1>8. Size - entry' = 0
  BY MailboxAssumption DEF MbSendSuspend
<1>9. MbNoLostRoom'
  BY <1>7, <1>8 DEF MbNoLostRoom, MbSenders
<1> QED  BY <1>2, <1>3, <1>5, <1>9 DEF MbInv

LEMMA MbSendPutKeeps ==
  ASSUME MbInv, NEW t \in Threads, MbSendPut(t)
  PROVE  MbInv'
<1>1. /\ mb_call[t] = "send"
      /\ mb_state = "live" /\ mb_state' = "live"
      /\ entry \in 0 .. Size /\ Size \in Nat /\ entry # Size
      /\ entry' = entry + 1
      /\ in_offset' \in 0 .. Size - 1
      /\ msg_pool' \in [0 .. Size - 1 -> Mails \cup {NoMail}]
      /\ UNCHANGED <<out_offset, suspend_sender_thread, mb_value>>
      /\ entry' \in 0 .. Size
  BY SMTT(40), MailboxAssumption, MbNextOffsetType DEF MbInv, MbTypeOK, MbDeserted, MbSendPut
<1>2. CASE suspend_recv_thread = <<>>
  <2>1. /\ mb_call' = [mb_call EXCEPT ![t] = "sent"]
        /\ suspend_recv_thread' = <<>> /\ mb_timeout' = mb_timeout
    BY <1>2 DEF MbSendPut, Moved, Resumed, TimeLeft
  <2>2. MbTypeOK'
    BY <1>1, <1>2, <2>1 DEF MbInv, MbTypeOK, SendPoints
  <2>3. MbPlaced' /\ MbDeserted'
    BY <1>1, <1>2, <2>1 DEF MbInv, MbTypeOK, MbPlaced, MbDeserted
  <2>4. MbSenders' = MbSenders \ {t} /\ t \in MbSenders
    BY <1>1, <2>1 DEF MbInv, MbTypeOK, MbSenders
  <2>5. Cardinality(MbSenders') = Cardinality(MbSenders) - 1
    BY <2>4, MbOneLess, MbCountsAreNumbers
  <2>6. MbNoLostMail' /\ MbNoLostRoom'
    BY <1>1, <2>1, <2>5, MbCountsAreNumbers DEF MbInv, MbNoLostMail, MbNoLostRoom, MbSenders
  <2> QED  BY <2>2, <2>3, <2>6 DEF MbInv
<1>3. CASE suspend_recv_thread # <<>>
  <2> DEFINE w == Head(suspend_recv_thread)
  <2>1. /\ mb_call' = [mb_call EXCEPT ![t] = "sent", ![w] = "recv"]
        /\ suspend_recv_thread' = Tail(suspend_recv_thread)
        /\ \E left \in Remaining(mb_timeout[w]) :
             mb_timeout' = [mb_timeout EXCEPT ![w] = left]
    BY <1>3 DEF MbSendPut, Moved, Resumed, TimeLeft
  <2>2. /\ w \in Threads /\ w \in Waiting(suspend_recv_thread)
        /\ suspend_recv_thread' \in Seq(Threads)
        /\ Distinct(suspend_recv_thread')
        /\ Waiting(suspend_recv_thread') = Waiting(suspend_recv_thread) \ {w}
    BY <1>3, <2>1, TailRemovesHead DEF MbInv, MbTypeOK, MbPlaced
  <2>3. mb_call[w] = "recv_wait" /\ w # t
    BY <1>1, <2>2 DEF MbInv, MbPlaced
  <2> HIDE DEF w
  <2>4. mb_timeout' \in [Threads -> Timeouts]
    BY <2>1, <2>2 DEF MbInv, MbTypeOK, Remaining, Timeouts
  <2>5. MbTypeOK'
    BY <1>1, <2>1, <2>2, <2>4 DEF MbInv, MbTypeOK, SendPoints, RecvPoints
  <2>6. MbPlaced' /\ MbDeserted'
    BY <1>1, <2>1, <2>2, <2>3 DEF MbInv, MbTypeOK, MbPlaced, MbDeserted
  <2>7. /\ MbSenders' = MbSenders \ {t} /\ t \in MbSenders
        /\ MbReceivers' = MbReceivers \cup {w} /\ w \notin MbReceivers
    BY <1>1, <2>1, <2>2, <2>3 DEF MbInv, MbTypeOK, MbSenders, MbReceivers
  <2>8. /\ Cardinality(MbSenders') = Cardinality(MbSenders) - 1
        /\ Cardinality(MbReceivers') = Cardinality(MbReceivers) + 1
    BY <2>7, MbOneLess, MbOneMore, MbCountsAreNumbers
  <2>9. MbNoLostMail'
    BY <1>1, <1>3, <2>8, MbCountsAreNumbers DEF MbInv, MbNoLostMail, MbReceivers
  <2>10. MbNoLostRoom'
    BY <1>1, <2>8, MbCountsAreNumbers DEF MbInv, MbNoLostRoom, MbSenders
  <2> QED  BY <2>5, <2>6, <2>9, <2>10 DEF MbInv
<1> QED  BY <1>2, <1>3

LEMMA MbSendTimeoutKeeps ==
  ASSUME MbInv, NEW t \in Threads, MbSendTimeout(t)
  PROVE  MbInv'
<1>1. /\ suspend_sender_thread' \in Seq(Threads)
      /\ Distinct(suspend_sender_thread')
      /\ Waiting(suspend_sender_thread') = Waiting(suspend_sender_thread) \ {t}
      /\ suspend_sender_thread # <<>>
  <2>1. t \in Waiting(suspend_sender_thread)
    BY DEF MbInv, MbPlaced, MbSendTimeout
  <2>2. suspend_sender_thread # <<>>
    BY <2>1 DEF Waiting
  <2> QED  BY <2>1, <2>2, UnlinkRemoves DEF MbInv, MbTypeOK, MbPlaced, MbSendTimeout
<1>2. MbTypeOK'
  BY <1>1 DEF MbInv, MbTypeOK, MbSendTimeout, SendPoints
<1>3. MbPlaced'
  BY <1>1 DEF MbInv, MbTypeOK, MbPlaced, MbSendTimeout
<1>4. MbDeserted'
  BY <1>1 DEF MbInv, MbTypeOK, MbDeserted, MbSendTimeout
<1>5. MbReceivers' = MbReceivers /\ MbSenders' = MbSenders
  BY DEF MbInv, MbTypeOK, MbReceivers, MbSenders, MbSendTimeout
<1>6. MbNoLostMail' /\ MbNoLostRoom'
  BY <1>1, <1>5, MbNobodyMisses DEF MbSendTimeout
<1> QED  BY <1>2, <1>3, <1>4, <1>6 DEF MbInv

-----------------------------------------------------------------------------
(* rt_mb_recv *)

LEMMA MbRecvCallKeeps ==
  ASSUME MbInv, NEW t \in Threads, NEW timeout \in Timeouts, MbRecvCall(t, timeout)
  PROVE  MbInv'
<1>1. MbTypeOK'
  BY DEF MbInv, MbTypeOK, MbRecvCall, RecvPoints
<1>2. MbPlaced' /\ MbDeserted'
  BY DEF MbInv, MbTypeOK, MbPlaced, MbDeserted, MbRecvCall
<1>3. /\ MbReceivers' = MbReceivers \cup {t} /\ t \notin MbReceivers
      /\ MbSenders' = MbSenders
  BY DEF MbInv, MbTypeOK, MbSenders, MbReceivers, MbRecvCall
<1>4. Cardinality(MbReceivers') = Cardinality(MbReceivers) + 1
  BY <1>3, MbOneMore, MbCountsAreNumbers
<1>5. /\ entry \in 0 .. Size /\ Size \in Nat
      /\ UNCHANGED <<entry, suspend_recv_thread, suspend_sender_thread>>
  BY MailboxAssumption DEF MbInv, MbTypeOK, MbRecvCall
<1>6. MbNoLostMail'
  BY <1>4, <1>5, MbCountsAreNumbers DEF MbInv, MbNoLostMail, MbReceivers
<1>7. MbNoLostRoom'
  BY <1>3, <1>5 DEF MbInv, MbNoLostRoom, MbSenders
<1> QED  BY <1>1, <1>2, <1>6, <1>7 DEF MbInv

\* Without mails nobody can have missed one.
LEMMA MbRecvEmptyKeeps ==
  ASSUME MbInv, NEW t \in Threads, MbRecvEmpty(t)
  PROVE  MbInv'
<1>1. MbTypeOK'
  BY DEF MbInv, MbTypeOK, MbRecvEmpty, RecvPoints
<1>2. MbPlaced' /\ MbDeserted'
  BY DEF MbInv, MbTypeOK, MbPlaced, MbDeserted, MbRecvEmpty
<1>3. MbSenders' = MbSenders
  BY DEF MbInv, MbTypeOK, MbSenders, MbRecvEmpty
<1>4. MbNoLostRoom'
  BY <1>3 DEF MbInv, MbNoLostRoom, MbSenders, MbRecvEmpty
<1>5. MbReceivers' = MbReceivers \ {t} /\ t \in MbReceivers
  BY DEF MbInv, MbTypeOK, MbReceivers, MbRecvEmpty
<1>6. Cardinality(MbReceivers') \in Nat
  BY <1>5, MbCountsAreNumbers, FS_RemoveElement, FS_CardinalityType
<1>7. entry' = 0
  BY DEF MbRecvEmpty
<1>8. MbNoLostMail'
  BY <1>6, <1>7 DEF MbNoLostMail, MbReceivers
<1> QED  BY <1>1, <1>2, <1>4, <1>8 DEF MbInv

LEMMA MbRecvSuspendKeeps ==
  ASSUME MbInv, NEW t \in Threads, MbRecvSuspend(t)
  PROVE  MbInv'
<1>1. /\ suspend_recv_thread' \in Seq(Threads)
      /\ Distinct(suspend_recv_thread')
      /\ Waiting(suspend_recv_thread') = Waiting(suspend_recv_thread) \cup {t}
  <2>1. t \notin Waiting(suspend_recv_thread)
    BY DEF MbInv, MbPlaced, MbRecvSuspend
  <2> QED  BY <2>1, EnqueueLastAdds DEF MbInv, MbTypeOK, MbPlaced, MbRecvSuspend
<1>2. MbTypeOK'
  BY <1>1 DEF MbInv, MbTypeOK, MbRecvSuspend, RecvPoints
<1>3. MbPlaced' /\ MbDeserted'
  BY <1>1 DEF MbInv, MbTypeOK, MbPlaced, MbDeserted, MbRecvSuspend
<1>4. MbSenders' = MbSenders
  BY DEF MbInv, MbTypeOK, MbSenders, MbRecvSuspend
<1>5. MbNoLostRoom'
  BY <1>4 DEF MbInv, MbNoLostRoom, MbSenders, MbRecvSuspend
<1>6. MbReceivers' = MbReceivers \ {t} /\ t \in MbReceivers
  BY DEF MbInv, MbTypeOK, MbReceivers, MbRecvSuspend
<1>7. Cardinality(MbReceivers') \in Nat
  BY <1>6, MbCountsAreNumbers, FS_RemoveElement, FS_CardinalityType
<1>8. entry' = 0
  BY DEF MbRecvSuspend
<1>9. MbNoLostMail'
  BY <1>7, <1>8 DEF MbNoLostMail, MbReceivers
<1> QED  BY <1>2, <1>3, <1>5, <1>9 DEF MbInv

LEMMA MbRecvTakeKeeps ==
  ASSUME MbInv, NEW t \in Threads, MbRecvTake(t)
  PROVE  MbInv'
<1>1. /\ mb_call[t] = "recv"
      /\ mb_state = "live" /\ mb_state' = "live"
      /\ entry \in 0 .. Size /\ Size \in Nat /\ entry # 0
      /\ entry' = entry - 1
      /\ out_offset' \in 0 .. Size - 1
      /\ mb_value' \in [Threads -> Mails \cup {NoMail}]
      /\ UNCHANGED <<msg_pool, in_offset, suspend_recv_thread>>
      /\ entry' \in 0 .. Size
  BY SMTT(40), MailboxAssumption, MbNextOffsetType DEF MbInv, MbTypeOK, MbDeserted, MbRecvTake
<1>2. CASE suspend_sender_thread = <<>>
  <2>1. /\ mb_call' = [mb_call EXCEPT ![t] = "recvd"]
        /\ suspend_sender_thread' = <<>> /\ mb_timeout' = mb_timeout
    BY <1>2 DEF MbRecvTake, Moved, Resumed, TimeLeft
  <2>2. MbTypeOK'
    BY <1>1, <1>2, <2>1 DEF MbInv, MbTypeOK, RecvPoints
  <2>3. MbPlaced' /\ MbDeserted'
    BY <1>1, <1>2, <2>1 DEF MbInv, MbTypeOK, MbPlaced, MbDeserted
  <2>4. MbReceivers' = MbReceivers \ {t} /\ t \in MbReceivers
    BY <1>1, <2>1 DEF MbInv, MbTypeOK, MbReceivers
  <2>5. Cardinality(MbReceivers') = Cardinality(MbReceivers) - 1
    BY <2>4, MbOneLess, MbCountsAreNumbers
  <2>6. MbNoLostMail' /\ MbNoLostRoom'
    BY <1>1, <2>1, <2>5, MbCountsAreNumbers DEF MbInv, MbNoLostMail, MbNoLostRoom, MbReceivers
  <2> QED  BY <2>2, <2>3, <2>6 DEF MbInv
<1>3. CASE suspend_sender_thread # <<>>
  <2> DEFINE w == Head(suspend_sender_thread)
  <2>1. /\ mb_call' = [mb_call EXCEPT ![t] = "recvd", ![w] = "send"]
        /\ suspend_sender_thread' = Tail(suspend_sender_thread)
        /\ \E left \in Remaining(mb_timeout[w]) :
             mb_timeout' = [mb_timeout EXCEPT ![w] = left]
    BY <1>3 DEF MbRecvTake, Moved, Resumed, TimeLeft
  <2>2. /\ w \in Threads /\ w \in Waiting(suspend_sender_thread)
        /\ suspend_sender_thread' \in Seq(Threads)
        /\ Distinct(suspend_sender_thread')
        /\ Waiting(suspend_sender_thread') = Waiting(suspend_sender_thread) \ {w}
    BY <1>3, <2>1, TailRemovesHead DEF MbInv, MbTypeOK, MbPlaced
  <2>3. mb_call[w] = "send_wait" /\ w # t
    BY <1>1, <2>2 DEF MbInv, MbPlaced
  <2> HIDE DEF w
  <2>4. mb_timeout' \in [Threads -> Timeouts]
    BY <2>1, <2>2 DEF MbInv, MbTypeOK, Remaining, Timeouts
  <2>5. MbTypeOK'
    BY <1>1, <2>1, <2>2, <2>4 DEF MbInv, MbTypeOK, SendPoints, RecvPoints
  <2>6. MbPlaced' /\ MbDeserted'
    BY <1>1, <2>1, <2>2, <2>3 DEF MbInv, MbTypeOK, MbPlaced, MbDeserted
  <2>7. /\ MbReceivers' = MbReceivers \ {t} /\ t \in MbReceivers
        /\ MbSenders' = MbSenders \cup {w} /\ w \notin MbSenders
    BY <1>1, <2>1, <2>2, <2>3 DEF MbInv, MbTypeOK, MbSenders, MbReceivers
  <2>8. /\ Cardinality(MbReceivers') = Cardinality(MbReceivers) - 1
        /\ Cardinality(MbSenders') = Cardinality(MbSenders) + 1
    BY <2>7, MbOneLess, MbOneMore, MbCountsAreNumbers
  <2>9. MbNoLostMail'
    BY <1>1, <2>8, MbCountsAreNumbers DEF MbInv, MbNoLostMail, MbReceivers
  <2>10. MbNoLostRoom'
    BY <1>1, <1>3, <2>8, MbCountsAreNumbers DEF MbInv, MbNoLostRoom, MbSenders
  <2> QED  BY <2>5, <2>6, <2>9, <2>10 DEF MbInv
<1> QED  BY <1>2, <1>3

LEMMA MbRecvTimeoutKeeps ==
  ASSUME MbInv, NEW t \in Threads, MbRecvTimeout(t)
  PROVE  MbInv'
<1>1. /\ suspend_recv_thread' \in Seq(Threads)
      /\ Distinct(suspend_recv_thread')
      /\ Waiting(suspend_recv_thread') = Waiting(suspend_recv_thread) \ {t}
      /\ suspend_recv_thread # <<>>
  <2>1. t \in Waiting(suspend_recv_thread)
    BY DEF MbInv, MbPlaced, MbRecvTimeout
  <2>2. suspend_recv_thread # <<>>
    BY <2>1 DEF Waiting
  <2> QED  BY <2>1, <2>2, UnlinkRemoves DEF MbInv, MbTypeOK, MbPlaced, MbRecvTimeout
<1>2. MbTypeOK'
  BY <1>1 DEF MbInv, MbTypeOK, MbRecvTimeout, RecvPoints
<1>3. MbPlaced'
  BY <1>1 DEF MbInv, MbTypeOK, MbPlaced, MbRecvTimeout
<1>4. MbDeserted'
  BY <1>1 DEF MbInv, MbTypeOK, MbDeserted, MbRecvTimeout
<1>5. MbReceivers' = MbReceivers /\ MbSenders' = MbSenders
  BY DEF MbInv, MbTypeOK, MbReceivers, MbSenders, MbRecvTimeout
<1>6. MbNoLostMail' /\ MbNoLostRoom'
  BY <1>1, <1>5, MbNobodyMisses DEF MbRecvTimeout
<1> QED  BY <1>2, <1>3, <1>4, <1>6 DEF MbInv

LEMMA MbReturnKeeps ==
  ASSUME MbInv, NEW t \in Threads, MbReturn(t)
  PROVE  MbInv'
<1>1. MbTypeOK'
  BY DEF MbInv, MbTypeOK, MbReturn, Timeouts
<1>2. MbPlaced' /\ MbDeserted'
  BY DEF MbInv, MbTypeOK, MbPlaced, MbDeserted, MbReturn
<1>3. MbReceivers' = MbReceivers /\ MbSenders' = MbSenders
  BY DEF MbInv, MbTypeOK, MbReceivers, MbSenders, MbReturn
<1>4. MbNoLostMail' /\ MbNoLostRoom'
  BY <1>3, MbNobodyMisses DEF MbReturn
<1> QED  BY <1>1, <1>2, <1>4 DEF MbInv

-----------------------------------------------------------------------------
(* rt_mb_control, rt_mb_delete *)

LEMMA MbResetKeeps ==
  ASSUME MbInv, MbReset
  PROVE  MbInv'
<1>1. /\ mb_call' = [t \in Threads |-> CASE mb_call[t] = "recv_wait" -> "recv_error"
                                        [] mb_call[t] = "send_wait" -> "send_error"
                                        [] OTHER -> mb_call[t]]
      /\ mb_state = "live" /\ mb_state' = "live"
      /\ suspend_recv_thread' = <<>> /\ suspend_sender_thread' = <<>>
      /\ entry' = 0 /\ in_offset' = 0 /\ out_offset' = 0
      /\ UNCHANGED <<msg_pool, mb_timeout, mb_value>>
  BY DEF MbReset
<1>2. MbTypeOK'
  BY <1>1, MailboxAssumption DEF MbInv, MbTypeOK, SendPoints, RecvPoints
<1>3. MbPlaced' /\ MbDeserted'
  BY <1>1 DEF MbInv, MbTypeOK, MbPlaced, MbDeserted, Distinct, Waiting
<1>4. MbNoLostMail' /\ MbNoLostRoom'
  BY <1>1 DEF MbNoLostMail, MbNoLostRoom
<1> QED  BY <1>2, <1>3, <1>4 DEF MbInv

LEMMA MbDeleteCallKeeps ==
  ASSUME MbInv, MbQuiet, MbDeleteCall
  PROVE  MbInv'
<1>1. MbTypeOK' /\ MbPlaced' /\ MbDeserted'
  BY DEF MbInv, MbTypeOK, MbPlaced, MbDeserted, MbQuiet, MbDeleteCall
<1>2. MbNoLostMail' /\ MbNoLostRoom'
  BY MbNobodyMisses DEF MbDeleteCall, MbReceivers, MbSenders
<1> QED  BY <1>1, <1>2 DEF MbInv

\* The steps of a deletion that resume no thread.
LEMMA MbDeleteOtherKeeps ==
  ASSUME MbInv, MbDeleteTestRecv \/ MbDeleteTestSender \/ MbDeleteHead
  PROVE  MbInv'
<1>1. MbTypeOK' /\ MbPlaced' /\ MbDeserted'
  BY DEF MbInv, MbTypeOK, MbPlaced, MbDeserted, MbDeleteTestRecv, MbDeleteTestSender,
         MbDeleteHead
<1>2. MbNoLostMail' /\ MbNoLostRoom'
  BY MbNobodyMisses DEF MbDeleteTestRecv, MbDeleteTestSender, MbDeleteHead, MbReceivers, MbSenders
<1> QED  BY <1>1, <1>2 DEF MbInv

LEMMA MbDeleteResumeKeeps ==
  ASSUME MbInv, MbDeleteResumeRecv \/ MbDeleteResumeSender
  PROVE  MbInv'
<1>1. CASE MbDeleteResumeRecv
  <2> DEFINE w == Head(suspend_recv_thread)
  <2>1. /\ w \in Threads /\ w \in Waiting(suspend_recv_thread)
        /\ suspend_recv_thread' \in Seq(Threads)
        /\ Distinct(suspend_recv_thread')
        /\ Waiting(suspend_recv_thread') = Waiting(suspend_recv_thread) \ {w}
    BY <1>1, TailRemovesHead DEF MbInv, MbTypeOK, MbPlaced, MbDeleteResumeRecv
  <2>2. /\ mb_call[w] = "recv_wait"
        /\ mb_call' = [mb_call EXCEPT ![w] = "recv_error"]
    BY <1>1, <2>1 DEF MbInv, MbPlaced, MbDeleteResumeRecv
  <2> HIDE DEF w
  <2>3. MbTypeOK'
    BY <1>1, <2>1, <2>2 DEF MbInv, MbTypeOK, MbDeleteResumeRecv, RecvPoints
  <2>4. MbPlaced' /\ MbDeserted'
    BY <1>1, <2>1, <2>2 DEF MbInv, MbTypeOK, MbPlaced, MbDeserted, MbDeleteResumeRecv
  <2>5. MbReceivers' = MbReceivers /\ MbSenders' = MbSenders
    BY <2>1, <2>2 DEF MbInv, MbTypeOK, MbReceivers, MbSenders
  <2>6. MbNoLostMail' /\ MbNoLostRoom'
    BY <1>1, <2>5, MbNobodyMisses DEF MbDeleteResumeRecv
  <2> QED  BY <2>3, <2>4, <2>6 DEF MbInv
<1>2. CASE MbDeleteResumeSender
  <2> DEFINE w == Head(suspend_sender_thread)
  <2>1. /\ w \in Threads /\ w \in Waiting(suspend_sender_thread)
        /\ suspend_sender_thread' \in Seq(Threads)
        /\ Distinct(suspend_sender_thread')
        /\ Waiting(suspend_sender_thread') = Waiting(suspend_sender_thread) \ {w}
    BY <1>2, TailRemovesHead DEF MbInv, MbTypeOK, MbPlaced, MbDeleteResumeSender
  <2>2. /\ mb_call[w] = "send_wait"
        /\ mb_call' = [mb_call EXCEPT ![w] = "send_error"]
    BY <1>2, <2>1 DEF MbInv, MbPlaced, MbDeleteResumeSender
  <2> HIDE DEF w
  <2>3. MbTypeOK'
    BY <1>2, <2>1, <2>2 DEF MbInv, MbTypeOK, MbDeleteResumeSender, SendPoints
  <2>4. MbPlaced' /\ MbDeserted'
    BY <1>2, <2>1, <2>2 DEF MbInv, MbTypeOK, MbPlaced, MbDeserted, MbDeleteResumeSender
  <2>5. MbReceivers' = MbReceivers /\ MbSenders' = MbSenders
    BY <2>1, <2>2 DEF MbInv, MbTypeOK, MbReceivers, MbSenders
  <2>6. MbNoLostMail' /\ MbNoLostRoom'
    BY <1>2, <2>5, MbNobodyMisses DEF MbDeleteResumeSender
  <2> QED  BY <2>3, <2>4, <2>6 DEF MbInv
<1> QED  BY <1>1, <1>2

LEMMA MbDeleteFreeKeeps ==
  ASSUME MbInv, MbDeleteFree
  PROVE  MbInv'
<1>1. MbTypeOK' /\ MbPlaced' /\ MbDeserted'
  BY DEF MbInv, MbTypeOK, MbPlaced, MbDeserted, MbDeleteFree
<1>2. MbNoLostMail' /\ MbNoLostRoom'
  BY MbNobodyMisses DEF MbDeleteFree, MbReceivers, MbSenders
<1> QED  BY <1>1, <1>2 DEF MbInv

-----------------------------------------------------------------------------
(* The specification *)

LEMMA MbInitEstablishes == MbInit => MbInv
<1> SUFFICES ASSUME MbInit  PROVE MbInv
  OBVIOUS
<1>1. /\ suspend_recv_thread = <<>> /\ suspend_sender_thread = <<>>
      /\ mb_state = "live"
      /\ mb_call = [t \in Threads |-> "out"]
  BY DEF MbInit
<1>2. MbTypeOK
  BY MailboxAssumption DEF MbInit, MbTypeOK, Timeouts
<1>3. MbPlaced /\ MbDeserted
  BY <1>1 DEF MbPlaced, MbDeserted, Distinct, Waiting
<1>4. MbNoLostMail /\ MbNoLostRoom
  BY <1>1 DEF MbNoLostMail, MbNoLostRoom
<1> QED  BY <1>2, <1>3, <1>4 DEF MbInv

LEMMA MbStepKeeps ==
  ASSUME MbInv, [MbNext]_mbVars
  PROVE  MbInv'
<1>1. ASSUME NEW t \in Threads, NEW m \in Mails, NEW timeout \in Timeouts,
             MbSendCall(t, m, timeout)
      PROVE  MbInv'
  BY <1>1, MbSendCallKeeps
<1>2. ASSUME NEW t \in Threads, NEW timeout \in Timeouts, MbRecvCall(t, timeout)
      PROVE  MbInv'
  BY <1>2, MbRecvCallKeeps
<1>3. ASSUME NEW t \in Threads, MbSendStep(t)  PROVE MbInv'
  BY <1>3, MbSendFullKeeps, MbSendSuspendKeeps, MbSendPutKeeps, MbSendTimeoutKeeps DEF MbSendStep
<1>4. ASSUME NEW t \in Threads, MbRecvStep(t)  PROVE MbInv'
  BY <1>4, MbRecvEmptyKeeps, MbRecvSuspendKeeps, MbRecvTakeKeeps, MbRecvTimeoutKeeps DEF MbRecvStep
<1>5. ASSUME NEW t \in Threads, MbReturn(t)  PROVE MbInv'
  BY <1>5, MbReturnKeeps
<1>6. CASE MbReset
  BY <1>6, MbResetKeeps
<1>7. CASE MbQuiet /\ MbDeleteCall
  BY <1>7, MbDeleteCallKeeps
<1>8. CASE MbDeleteStep
  BY <1>8, MbDeleteOtherKeeps, MbDeleteResumeKeeps, MbDeleteFreeKeeps DEF MbDeleteStep
<1>9. CASE UNCHANGED mbVars
  BY <1>9 DEF mbVars, MbInv, MbTypeOK, MbPlaced, MbDeserted, MbNoLostMail, MbNoLostRoom
<1> QED
  BY <1>1, <1>2, <1>3, <1>4, <1>5, <1>6, <1>7, <1>8, <1>9 DEF MbNext

\* The invariant holds in every reachable state of a mailbox.
THEOREM MbInvariance == MbSpec => []MbInv
<1>1. MbInv /\ [MbNext]_mbVars => MbInv'
  BY MbStepKeeps
<1> QED  BY MbInitEstablishes, <1>1, PTL DEF MbSpec

\* rt_mb_send_wait and rt_mb_recv resume enough of each other: nobody sleeps
\* for a mail or for room that no other thread is about to take.
THEOREM NeitherSideOversleeps == MbSpec => []MbNoLostWakeup
<1>1. MbInv => MbNoLostWakeup
  BY DEF MbInv, MbNoLostWakeup
<1> QED  BY MbInvariance, <1>1, PTL

\* rt_mb_delete frees the mailbox only when nobody sleeps on its lists or is
\* about to look into it.
THEOREM FreedMailboxIsUntouched == MbSpec => []MbFreedUntouched
<1>1. MbInv => MbFreedUntouched
  BY DEF MbInv, MbTypeOK, MbPlaced, MbDeserted, MbFreedUntouched, Waiting
<1> QED  BY MbInvariance, <1>1, PTL

-----------------------------------------------------------------------------
(***************************************************************************)
(* Proofs about Semaphore, for any number of threads and any width of the   *)
(* count.                                                                   *)
(*                                                                          *)
(* The inductive invariant SemInv adds two things to what is claimed: the   *)
(* list holds exactly the threads that wait, so that a hand-over gives a    *)
(* token to a thread that had none; and also after an overrun there are at  *)
(* least as many tokens released as there are about, so that none is        *)
(* returned with that was never released.                                   *)
(***************************************************************************)

\* The value and the threads that will return with a token.
SemAbout == sem_value + Cardinality(Taken)

SemInv ==
  /\ SemTypeOK
  /\ SemListExact
  /\ TokensConserved
  /\ SemAbout <= sem_credit

-----------------------------------------------------------------------------
(* The threads that hold a token *)

\* They are finitely many.
LEMMA SemTakenFinite ==
  /\ IsFiniteSet(Taken)
  /\ Cardinality(Taken) \in Nat
<1>1. Taken \in SUBSET Threads
  BY DEF Taken
<1> QED  BY <1>1, ThreadsAssumption, FS_Subset, FS_CardinalityType

\* A thread that is given a token is one more of them.
LEMMA SemTakenAdds ==
  ASSUME SemTypeOK, NEW t \in Threads, sem_call[t] # "taken",
         sem_call' = [sem_call EXCEPT ![t] = "taken"]
  PROVE  Cardinality(Taken') = Cardinality(Taken) + 1
<1>1. Taken' = Taken \cup {t} /\ t \notin Taken
  BY DEF Taken, SemTypeOK
<1> QED  BY <1>1, SemTakenFinite, FS_AddElement

\* A thread that takes up its result is one less, if that is a token.
LEMMA SemTakenRemoves ==
  ASSUME SemTypeOK, NEW t \in Threads, sem_call[t] = "taken",
         sem_call' = [sem_call EXCEPT ![t] = "out"]
  PROVE  Cardinality(Taken') = Cardinality(Taken) - 1 /\ Cardinality(Taken) > 0
<1>1. Taken' = Taken \ {t} /\ t \in Taken
  BY DEF Taken, SemTypeOK
<1>2. Taken # {}
  BY <1>1
<1>3. Cardinality(Taken) # 0
  BY <1>2, SemTakenFinite, FS_EmptySet
<1> QED  BY <1>1, <1>3, SemTakenFinite, FS_RemoveElement

\* Any other change of where a thread is leaves them as they are.
LEMMA SemTakenKept ==
  ASSUME SemTypeOK, NEW t \in Threads, sem_call[t] # "taken",
         NEW to, to # "taken", sem_call' = [sem_call EXCEPT ![t] = to]
  PROVE  Taken' = Taken
BY DEF Taken, SemTypeOK

-----------------------------------------------------------------------------
(* rt_sem_take *)

LEMMA SemTakeNowKeeps ==
  ASSUME SemInv, NEW t \in Threads, SemTakeNow(t)
  PROVE  SemInv'
<1>1. Cardinality(Taken') = Cardinality(Taken) + 1
  BY SemTakenAdds DEF SemInv, SemTakeNow, MaySemTake
<1>2. SemTypeOK'
  BY SemaphoreAssumption DEF SemInv, SemTypeOK, SemTakeNow, MaySemTake
<1>3. SemListExact'
  BY DEF SemInv, SemTypeOK, SemListExact, SemTakeNow, MaySemTake
<1>4. SemAbout' = SemAbout
  BY <1>1, SemTakenFinite, SemaphoreAssumption DEF SemAbout, SemInv, SemTypeOK, SemTakeNow
<1>5. TokensConserved' /\ (SemAbout <= sem_credit)'
  BY <1>4 DEF SemAbout, SemInv, TokensConserved, SemTypeOK, SemTakeNow
<1> QED  BY <1>2, <1>3, <1>5 DEF SemInv

LEMMA SemTakeRefusedKeeps ==
  ASSUME SemInv, NEW t \in Threads, SemTakeRefused(t)
  PROVE  SemInv'
<1>1. Taken' = Taken
  BY SemTakenKept DEF SemInv, SemTakeRefused, MaySemTake
<1>2. SemTypeOK'
  BY DEF SemInv, SemTypeOK, SemTakeRefused, MaySemTake
<1>3. SemListExact'
  BY DEF SemInv, SemTypeOK, SemListExact, SemTakeRefused, MaySemTake
<1>4. TokensConserved' /\ (SemAbout <= sem_credit)'
  BY <1>1 DEF SemAbout, SemInv, TokensConserved, SemTakeRefused
<1> QED  BY <1>2, <1>3, <1>4 DEF SemInv

LEMMA SemTakeSuspendKeeps ==
  ASSUME SemInv, NEW t \in Threads, NEW time \in Timeouts, SemTakeSuspend(t, time)
  PROVE  SemInv'
<1>1. Taken' = Taken
  BY SemTakenKept DEF SemInv, SemTakeSuspend, MaySemTake
<1>2. /\ sem_waiting' \in Seq(Threads)
      /\ Distinct(sem_waiting')
      /\ Waiting(sem_waiting') = Waiting(sem_waiting) \cup {t}
  <2>1. t \notin Waiting(sem_waiting)
    BY DEF SemInv, SemListExact, SemTakeSuspend, MaySemTake
  <2> QED  BY <2>1, EnqueueLastAdds DEF SemInv, SemTypeOK, SemListExact, SemTakeSuspend
<1>3. SemTypeOK'
  BY <1>2 DEF SemInv, SemTypeOK, SemTakeSuspend, MaySemTake
<1>4. SemListExact'
  BY <1>2 DEF SemInv, SemTypeOK, SemListExact, SemTakeSuspend, MaySemTake
<1>5. TokensConserved' /\ (SemAbout <= sem_credit)'
  BY <1>1 DEF SemAbout, SemInv, TokensConserved, SemTakeSuspend
<1> QED  BY <1>3, <1>4, <1>5 DEF SemInv

LEMMA SemTimeoutKeeps ==
  ASSUME SemInv, NEW t \in Threads, SemTimeout(t)
  PROVE  SemInv'
<1>1. Taken' = Taken
  BY SemTakenKept DEF SemInv, SemTimeout
<1>2. /\ sem_waiting' \in Seq(Threads)
      /\ Distinct(sem_waiting')
      /\ Waiting(sem_waiting') = Waiting(sem_waiting) \ {t}
      /\ sem_waiting # <<>>
  <2>1. t \in Waiting(sem_waiting)
    BY DEF SemInv, SemListExact, SemTimeout
  <2> QED  BY <2>1, UnlinkRemoves DEF SemInv, SemTypeOK, SemListExact, SemTimeout
<1>3. SemTypeOK'
  BY <1>2 DEF SemInv, SemTypeOK, SemTimeout
<1>4. SemListExact'
  BY <1>2 DEF SemInv, SemTypeOK, SemListExact, SemTimeout
<1>5. TokensConserved' /\ (SemAbout <= sem_credit)'
  BY <1>1, <1>2 DEF SemAbout, SemInv, TokensConserved, SemTimeout
<1> QED  BY <1>3, <1>4, <1>5 DEF SemInv

LEMMA SemReturnKeeps ==
  ASSUME SemInv, NEW t \in Threads, SemReturn(t)
  PROVE  SemInv'
<1>1. SemListExact'
  BY DEF SemInv, SemTypeOK, SemListExact, SemReturn
<1>2. CASE sem_call[t] = "taken"
  <2>1. Cardinality(Taken') = Cardinality(Taken) - 1 /\ Cardinality(Taken) > 0
    BY <1>2, SemTakenRemoves DEF SemInv, SemReturn
  <2>2. /\ sem_value \in Nat /\ sem_value' = sem_value
        /\ sem_credit \in Nat /\ sem_credit' = sem_credit - 1
        /\ sem_waiting' = sem_waiting /\ sem_overrun' = sem_overrun
    BY <1>2, SemaphoreAssumption DEF SemInv, SemTypeOK, SemReturn
  <2>3. sem_credit' \in Nat
    BY <2>1, <2>2, SemTakenFinite DEF SemInv, SemAbout
  <2>4. SemTypeOK'
    BY <2>3 DEF SemInv, SemTypeOK, SemReturn, Timeouts
  <2>5. TokensConserved' /\ (SemAbout <= sem_credit)'
    BY <2>1, <2>2, SemTakenFinite DEF SemInv, SemAbout, TokensConserved
  <2> QED  BY <1>1, <2>4, <2>5 DEF SemInv
<1>3. CASE sem_call[t] # "taken"
  <2>1. Taken' = Taken
    BY <1>3, SemTakenKept DEF SemInv, SemReturn
  <2>2. SemTypeOK'
    BY <1>3 DEF SemInv, SemTypeOK, SemReturn, Timeouts
  <2>3. TokensConserved' /\ (SemAbout <= sem_credit)'
    BY <1>3, <2>1 DEF SemInv, SemAbout, TokensConserved, SemReturn
  <2> QED  BY <1>1, <2>2, <2>3 DEF SemInv
<1> QED  BY <1>2, <1>3

-----------------------------------------------------------------------------
(* rt_sem_release *)

LEMMA SemReleaseCountKeeps ==
  ASSUME SemInv, SemReleaseCount
  PROVE  SemInv'
<1>1. Taken' = Taken
  BY DEF Taken, SemReleaseCount
<1>2. SemTypeOK'
  BY SemaphoreAssumption DEF SemInv, SemTypeOK, SemReleaseCount
<1>3. SemListExact'
  BY DEF SemInv, SemListExact, SemReleaseCount
<1>4. TokensConserved' /\ (SemAbout <= sem_credit)'
  <2> DEFINE n == Cardinality(Taken)
  <2>1. n \in Nat /\ n' = n
    BY <1>1, SemTakenFinite
  <2>2. /\ sem_value \in Nat /\ sem_credit \in Nat
        /\ sem_value + n <= sem_credit
        /\ ~sem_overrun => sem_credit = sem_value + n
    BY SemaphoreAssumption DEF SemInv, SemTypeOK, SemAbout, TokensConserved
  <2>3. sem_credit' = sem_credit + 1 /\ sem_waiting' = <<>>
    BY DEF SemReleaseCount
  <2> HIDE DEF n
  <2>4. CASE sem_value + 1 = SemModulus
    <3>1. sem_value' = 0 /\ sem_overrun'
      BY <2>4 DEF SemReleaseCount
    <3>2. sem_value' + n' <= sem_credit'
      BY <2>1, <2>2, <2>3, <3>1
    <3> QED  BY <2>3, <3>1, <3>2 DEF SemAbout, TokensConserved, n
  <2>5. CASE sem_value + 1 # SemModulus
    <3>1. sem_value' = sem_value + 1 /\ (~sem_overrun' => ~sem_overrun)
      BY <2>5 DEF SemReleaseCount
    <3>2. /\ sem_value' + n' <= sem_credit'
          /\ ~sem_overrun' => sem_credit' = sem_value' + n'
      BY <2>1, <2>2, <2>3, <3>1
    <3> QED  BY <2>3, <3>2 DEF SemAbout, TokensConserved, n
  <2> QED  BY <2>4, <2>5
<1> QED  BY <1>2, <1>3, <1>4 DEF SemInv

LEMMA SemReleaseHandKeeps ==
  ASSUME SemInv, SemReleaseHand
  PROVE  SemInv'
<1> DEFINE w == Head(sem_waiting)
<1>1. /\ w \in Threads /\ w \in Waiting(sem_waiting)
      /\ sem_waiting' \in Seq(Threads)
      /\ Distinct(sem_waiting')
      /\ Waiting(sem_waiting') = Waiting(sem_waiting) \ {w}
  BY TailRemovesHead DEF SemInv, SemTypeOK, SemListExact, SemReleaseHand
<1>2. sem_call[w] = "take_wait"
  BY <1>1 DEF SemInv, SemListExact
<1>3. sem_call' = [sem_call EXCEPT ![w] = "taken"]
  BY DEF SemReleaseHand
<1> HIDE DEF w
<1>4. Cardinality(Taken') = Cardinality(Taken) + 1
  BY <1>1, <1>2, <1>3, SemTakenAdds DEF SemInv
<1>5. SemTypeOK'
  BY <1>1, <1>3 DEF SemInv, SemTypeOK, SemReleaseHand
<1>6. SemListExact'
  BY <1>1, <1>2, <1>3 DEF SemInv, SemTypeOK, SemListExact
<1>7. TokensConserved' /\ (SemAbout <= sem_credit)'
  BY <1>4, SemTakenFinite, SemaphoreAssumption
  DEF SemInv, SemTypeOK, SemAbout, TokensConserved, SemReleaseHand
<1> QED  BY <1>5, <1>6, <1>7 DEF SemInv

-----------------------------------------------------------------------------
(* rt_sem_control, rt_sem_delete *)

LEMMA SemResetKeeps ==
  ASSUME SemInv, NEW v \in {0, 1}, SemReset(v)
  PROVE  SemInv'
<1>1. Taken' = Taken
  BY DEF Taken, SemInv, SemTypeOK, SemReset
<1>2. SemTypeOK'
  <2>1. sem_value' \in 0 .. SemModulus - 1 /\ sem_credit' \in Nat
    BY SemaphoreAssumption, SemTakenFinite DEF SemReset
  <2>2. sem_waiting' \in Seq(Threads)
    BY DEF SemReset
  <2>3. sem_call' \in [Threads -> {"out", "take_wait", "taken", "take_error"}]
    BY DEF SemInv, SemTypeOK, SemReset
  <2> QED  BY <2>1, <2>2, <2>3 DEF SemInv, SemTypeOK, SemReset
<1>3. SemListExact'
  BY DEF SemInv, SemTypeOK, SemListExact, SemReset, Distinct, Waiting
<1>4. TokensConserved' /\ (SemAbout <= sem_credit)'
  BY <1>1, SemTakenFinite DEF SemInv, SemAbout, TokensConserved, SemReset
<1> QED  BY <1>2, <1>3, <1>4 DEF SemInv

LEMMA SemDeleteResumeKeeps ==
  ASSUME SemInv, SemDeleteResume
  PROVE  SemInv'
<1> DEFINE w == Head(sem_waiting)
<1>1. /\ w \in Threads /\ w \in Waiting(sem_waiting)
      /\ sem_waiting' \in Seq(Threads)
      /\ Distinct(sem_waiting')
      /\ Waiting(sem_waiting') = Waiting(sem_waiting) \ {w}
  BY TailRemovesHead DEF SemInv, SemTypeOK, SemListExact, SemDeleteResume
<1>2. sem_call[w] = "take_wait"
  BY <1>1 DEF SemInv, SemListExact
<1>3. sem_call' = [sem_call EXCEPT ![w] = "take_error"]
  BY DEF SemDeleteResume
<1> HIDE DEF w
<1>4. Taken' = Taken
  BY <1>1, <1>2, <1>3, SemTakenKept DEF SemInv
<1>5. SemTypeOK'
  BY <1>1, <1>3 DEF SemInv, SemTypeOK, SemDeleteResume
<1>6. SemListExact'
  BY <1>1, <1>2, <1>3 DEF SemInv, SemTypeOK, SemListExact
<1>7. TokensConserved' /\ (SemAbout <= sem_credit)'
  BY <1>4 DEF SemInv, SemAbout, TokensConserved, SemDeleteResume
<1> QED  BY <1>5, <1>6, <1>7 DEF SemInv

\* A step that leaves the value, the threads and their tokens alone.
LEMMA SemOtherKeeps ==
  ASSUME SemInv,
         sem_state' \in {"live", "deleting", "resuming", "lost", "freed"},
         UNCHANGED <<sem_value, sem_waiting, sem_call, sem_time, sem_credit, sem_overrun>>
  PROVE  SemInv'
BY DEF SemInv, SemTypeOK, SemListExact, TokensConserved, SemAbout, Taken

-----------------------------------------------------------------------------
(* The specification *)

LEMMA SemInitEstablishes ==
  ASSUME NEW v \in 0 .. SemModulus - 1, SemInit(v)
  PROVE  SemInv
<1>1. Taken = {}
  BY DEF SemInit, Taken
<1>2. SemTypeOK
  <2>1. sem_value \in 0 .. SemModulus - 1 /\ sem_credit \in Nat
    BY SemaphoreAssumption DEF SemInit
  <2>2. sem_waiting \in Seq(Threads)
    BY DEF SemInit
  <2> QED  BY <2>1, <2>2 DEF SemInit, SemTypeOK, Timeouts
<1>3. SemListExact
  BY DEF SemInit, SemListExact, Distinct, Waiting
<1>4. TokensConserved /\ SemAbout <= sem_credit
  BY <1>1, FS_EmptySet DEF SemInit, TokensConserved, SemAbout
<1> QED  BY <1>2, <1>3, <1>4 DEF SemInv

LEMMA SemStepKeeps ==
  ASSUME SemInv, [SemNext]_semVars
  PROVE  SemInv'
<1>1. ASSUME NEW t \in Threads, SemTakeNow(t)  PROVE SemInv'
  BY <1>1, SemTakeNowKeeps
<1>2. ASSUME NEW t \in Threads, SemTakeRefused(t)  PROVE SemInv'
  BY <1>2, SemTakeRefusedKeeps
<1>3. ASSUME NEW t \in Threads, NEW time \in Timeouts, SemTakeSuspend(t, time)
      PROVE  SemInv'
  BY <1>3, SemTakeSuspendKeeps
<1>4. ASSUME NEW t \in Threads, SemTimeout(t)  PROVE SemInv'
  BY <1>4, SemTimeoutKeeps
<1>5. ASSUME NEW t \in Threads, SemReturn(t)  PROVE SemInv'
  BY <1>5, SemReturnKeeps
<1>6. CASE SemRelease
  BY <1>6, SemReleaseCountKeeps, SemReleaseHandKeeps DEF SemRelease
<1>7. ASSUME NEW v \in {0, 1}, SemReset(v)  PROVE SemInv'
  BY <1>7, SemResetKeeps
<1>8. CASE SemDeleteResume
  BY <1>8, SemDeleteResumeKeeps
<1>9. CASE \/ SemDeleteCall \/ SemDeleteTest \/ SemDeleteHead \/ SemDeleteFree
           \/ UNCHANGED semVars
  BY <1>9, SemOtherKeeps DEF SemDeleteCall, SemDeleteTest, SemDeleteHead, SemDeleteFree,
                             semVars, SemInv, SemTypeOK
<1> QED  BY <1>1, <1>2, <1>3, <1>4, <1>5, <1>6, <1>7, <1>8, <1>9 DEF SemNext

\* The invariant holds in every reachable state of a semaphore, whatever the
\* value rt_sem_create was called with.
THEOREM SemInvariance == SemSpec => []SemInv
<1>1. (\E v \in 0 .. SemModulus - 1 : SemInit(v)) => SemInv
  BY SemInitEstablishes
<1>2. SemInv /\ [SemNext]_semVars => SemInv'
  BY SemStepKeeps
<1> QED  BY <1>1, <1>2, PTL DEF SemSpec

\* rt_sem_take and rt_sem_release neither lose nor make up a token, and no
\* token is left in the value while a thread sleeps.
THEOREM TokensAreConserved == SemSpec => []TokensConserved
<1>1. SemInv => TokensConserved
  BY DEF SemInv
<1> QED  BY SemInvariance, <1>1, PTL

\* The list holds the threads that wait in rt_sem_take, each once, whatever
\* the order of timeouts, hand-overs, resets and the deletion.
THEOREM SemListIsExact == SemSpec => []SemListExact
<1>1. SemInv => SemListExact
  BY DEF SemInv
<1> QED  BY SemInvariance, <1>1, PTL

-----------------------------------------------------------------------------
(***************************************************************************)
(* An event, for any number of threads and flags.                           *)
(*                                                                          *)
(* rt_event_send looks at each thread once, with the flags that the threads *)
(* before it have left.  That none of those it passed by is satisfied at    *)
(* the end, and that no flag is given away twice, is the invariant of its   *)
(* loop, EvPassed; EvInv is what holds between the critical sections.       *)
(***************************************************************************)

EvInv ==
  /\ EvTypeOK
  /\ EvListExact
  /\ NoneOversleeps
  /\ ev_state = "freed" => ev_waiting = <<>>

\* What the loop leaves when it has looked at thread t.
EvLooked(now, t) ==
  [set  |-> IF Content(t, now.set) /\ ev_option[t].clear
            THEN now.set \ ev_want[t] ELSE now.set,
   left |-> IF Content(t, now.set) THEN now.left ELSE Append(now.left, t)]

\* The loop, as far as the first n threads.
EvRounds(after, set, n) ==
  /\ after[0] = [set |-> set, left |-> <<>>]
  /\ \A i \in 1 .. n : after[i] = EvLooked(after[i - 1], ev_waiting[i])

\* The loop has passed the first i threads: those it left on the list are not
\* satisfied, and what the others cleared is gone.
EvPassed(after, i) ==
  /\ after[i].set \in SUBSET Flags
  /\ after[i].left \in Seq(Threads)
  /\ Distinct(after[i].left)
  /\ Waiting(after[i].left) =
       {ev_waiting[j] : j \in {k \in 1 .. i : ~Content(ev_waiting[k], after[k - 1].set)}}
  /\ \A t \in Waiting(after[i].left) : ~Content(t, after[i].set)
  /\ \A j \in 0 .. i : after[i].set \subseteq after[j].set
  /\ \A j \in 1 .. i :
       Content(ev_waiting[j], after[j - 1].set) /\ ev_option[ev_waiting[j]].clear
         => after[i].set \cap ev_want[ev_waiting[j]] = {}

-----------------------------------------------------------------------------
(* The loop of rt_event_send *)

\* A thread that is not satisfied by a set of flags is not by fewer.
LEMMA EvFewerFlags ==
  ASSUME NEW t, NEW set, NEW fewer \in SUBSET set, ~Content(t, set)
  PROVE  ~Content(t, fewer)
BY DEF Content, Satisfied

\* The recursion has a solution, and SendLoop is it.
LEMMA EvLoopRounds ==
  ASSUME EvTypeOK, NEW set \in SUBSET Flags
  PROVE  EvRounds(SendLoop(set), set, Len(ev_waiting))
<1> DEFINE n == Len(ev_waiting)
           base == [set |-> set, left |-> <<>>]
           Body(w) == [i \in 0 .. n |->
                         IF i = 0 THEN base ELSE EvLooked(w[i - 1], ev_waiting[i])]
           done == {k \in 0 .. n : \E w : w = [i \in 0 .. k |-> w[i]] /\ EvRounds(w, set, k)}
<1>1. n \in Nat
  BY DEF EvTypeOK
<1>2. 0 \in done
  <2> DEFINE w == [i \in 0 .. 0 |-> base]
  <2>1. w = [i \in 0 .. 0 |-> w[i]] /\ EvRounds(w, set, 0)
    BY DEF EvRounds
  <2> QED  BY <1>1, <2>1
<1>3. ASSUME NEW k \in 0 .. n - 1, k \in done  PROVE k + 1 \in done
  <2>1. PICK w : w = [i \in 0 .. k |-> w[i]] /\ EvRounds(w, set, k)
    BY <1>3
  <2> DEFINE next == EvLooked(w[k], ev_waiting[k + 1])
             v == [i \in 0 .. k + 1 |-> IF i = k + 1 THEN next ELSE w[i]]
  <2>2. k \in Nat /\ k + 1 \in 0 .. n
    BY <1>1
  <2>3. v = [i \in 0 .. k + 1 |-> v[i]]
    OBVIOUS
  <2>4. v[0] = w[0] /\ (\A i \in 1 .. k : v[i] = w[i] /\ v[i - 1] = w[i - 1])
        /\ v[k + 1] = next /\ v[(k + 1) - 1] = w[k]
    BY <2>2
  <2> HIDE DEF v
  <2>5. v[k + 1] = EvLooked(v[(k + 1) - 1], ev_waiting[k + 1])
    BY <2>4
  <2> HIDE DEF next
  <2>6. \A i \in 1 .. k : v[i] = EvLooked(v[i - 1], ev_waiting[i])
    BY <2>1, <2>4 DEF EvRounds
  <2>7. \A i \in 1 .. k + 1 : v[i] = EvLooked(v[i - 1], ev_waiting[i])
    BY <2>2, <2>5, <2>6
  <2>8. EvRounds(v, set, k + 1)
    BY <2>1, <2>4, <2>7 DEF EvRounds
  <2> QED  BY <2>2, <2>3, <2>8
<1> HIDE DEF done
<1>4. n \in done
  <2>1. \A k \in 0 .. n : k \in done
    BY <1>1, <1>2, <1>3, CountingUp
  <2> QED  BY <1>1, <2>1
<1>5. PICK w : w = [i \in 0 .. n |-> w[i]] /\ EvRounds(w, set, n)
  BY <1>4 DEF done
<1>6. w = Body(w)
  <2>1. w[0] = base /\ \A i \in 1 .. n : w[i] = EvLooked(w[i - 1], ev_waiting[i])
    BY <1>5 DEF EvRounds
  <2> HIDE DEF base
  <2>2. \A i \in 0 .. n : i = 0 \/ i \in 1 .. n
    BY <1>1
  <2>3. \A i \in 0 .. n : w[i] = IF i = 0 THEN base ELSE EvLooked(w[i - 1], ev_waiting[i])
    BY <2>1, <2>2
  <2> QED  BY <1>5, <2>3
<1>7. SendLoop(set) = CHOOSE f : f = Body(f)
  BY DEF SendLoop, EvLooked
<1>8. SendLoop(set) = Body(SendLoop(set))
  BY <1>6, <1>7
<1> HIDE DEF base
<1>9. /\ SendLoop(set)[0] = base
      /\ \A i \in 1 .. n : SendLoop(set)[i] = EvLooked(SendLoop(set)[i - 1], ev_waiting[i])
  BY <1>1, <1>8
<1> QED  BY <1>9 DEF EvRounds, base

\* Each round keeps the invariant of the loop.
LEMMA EvLoopPasses ==
  ASSUME EvTypeOK, EvListExact, NEW set \in SUBSET Flags
  PROVE  \A i \in 0 .. Len(ev_waiting) : EvPassed(SendLoop(set), i)
<1> DEFINE n == Len(ev_waiting)
           after == SendLoop(set)
           passed == {i \in 0 .. n : EvPassed(after, i)}
<1>1. n \in Nat /\ \A i \in 1 .. n : ev_waiting[i] \in Threads
  BY DEF EvTypeOK
<1>2. EvRounds(after, set, n)
  BY EvLoopRounds
<1> HIDE DEF after
<1>3. 0 \in passed
  <2>1. after[0].set = set /\ after[0].left = <<>>
    BY <1>2 DEF EvRounds
  <2>2. EvPassed(after, 0)
    BY <2>1 DEF EvPassed, Distinct, Waiting
  <2> QED  BY <1>1, <2>2
<1>4. ASSUME NEW k \in 0 .. n - 1, k \in passed  PROVE k + 1 \in passed
  <2> DEFINE t == ev_waiting[k + 1]
             now == after[k]
             next == after[k + 1]
  <2>1. k \in Nat /\ k + 1 \in 1 .. n /\ (k + 1) - 1 = k /\ t \in Threads
    BY <1>1
  <2>2. /\ next.set = IF Content(t, now.set) /\ ev_option[t].clear
                      THEN now.set \ ev_want[t] ELSE now.set
        /\ next.left = IF Content(t, now.set) THEN now.left ELSE Append(now.left, t)
    <3>1. next = EvLooked(now, t)
      BY <1>2, <2>1 DEF EvRounds
    <3> HIDE DEF next, now, t
    <3> QED  BY <3>1 DEF EvLooked
  <2>3. EvPassed(after, k)
    BY <1>4
  <2>4. /\ now.set \in SUBSET Flags /\ now.left \in Seq(Threads) /\ Distinct(now.left)
        /\ Waiting(now.left) =
             {ev_waiting[j] : j \in {i \in 1 .. k : ~Content(ev_waiting[i], after[i - 1].set)}}
        /\ \A u \in Waiting(now.left) : ~Content(u, now.set)
    BY <2>3 DEF EvPassed
  <2>5. next.set \in SUBSET now.set
    BY <2>2
  <2> HIDE DEF t, now, next
  <2>6. t \notin Waiting(now.left)
    <3>1. ASSUME NEW j \in 1 .. k  PROVE ev_waiting[j] # t
      <4>1. j \in DOMAIN ev_waiting /\ k + 1 \in DOMAIN ev_waiting /\ j # k + 1
        BY <1>1, <2>1 DEF EvTypeOK
      <4> QED  BY <4>1 DEF EvListExact, Distinct, t
    <3> QED  BY <2>4, <3>1
  <2>7. /\ next.left \in Seq(Threads) /\ Distinct(next.left)
        /\ Waiting(next.left) = IF Content(t, now.set) THEN Waiting(now.left)
                                ELSE Waiting(now.left) \cup {t}
    <3>1. CASE Content(t, now.set)
      BY <3>1, <2>2, <2>4
    <3>2. CASE ~Content(t, now.set)
      <4>1. next.left = EnqueueLast(now.left, t)
        BY <3>2, <2>2 DEF EnqueueLast
      <4> QED  BY <3>2, <4>1, <2>1, <2>4, <2>6, EnqueueLastAdds
    <3> QED  BY <3>1, <3>2
  <2>8. Waiting(next.left) =
          {ev_waiting[j] : j \in {i \in 1 .. k + 1 : ~Content(ev_waiting[i], after[i - 1].set)}}
    <3>1. 1 .. k + 1 = 1 .. k \cup {k + 1}
      BY <2>1
    <3> DEFINE kept == {i \in 1 .. k : ~Content(ev_waiting[i], after[i - 1].set)}
               kept1 == {i \in 1 .. k + 1 : ~Content(ev_waiting[i], after[i - 1].set)}
    <3>2. kept1 = IF Content(t, now.set) THEN kept ELSE kept \cup {k + 1}
      BY <3>1, <2>1 DEF t, now
    <3>3. Waiting(now.left) = {ev_waiting[j] : j \in kept}
      BY <2>4
    <3> HIDE DEF kept, kept1
    <3>4. {ev_waiting[j] : j \in kept1} =
            IF Content(t, now.set) THEN {ev_waiting[j] : j \in kept}
            ELSE {ev_waiting[j] : j \in kept} \cup {t}
      BY <3>2 DEF t
    <3> QED  BY <3>3, <3>4, <2>7 DEF kept1
  <2>9. \A u \in Waiting(next.left) : ~Content(u, next.set)
    <3>1. \A u \in Waiting(next.left) : ~Content(u, now.set)
      BY <2>4, <2>7
    <3> QED  BY <3>1, <2>5, EvFewerFlags
  <2>10. \A j \in 0 .. k + 1 : next.set \subseteq after[j].set
    <3>1. \A j \in 0 .. k : now.set \subseteq after[j].set
      BY <2>3 DEF EvPassed, now
    <3>2. \A j \in 0 .. k : next.set \subseteq after[j].set
      BY <3>1, <2>5
    <3> QED  BY <3>2, <2>1 DEF next
  <2>11. ASSUME NEW j \in 1 .. k + 1, Content(ev_waiting[j], after[j - 1].set),
                ev_option[ev_waiting[j]].clear
         PROVE  next.set \cap ev_want[ev_waiting[j]] = {}
    <3>1. CASE j = k + 1
      BY <3>1, <2>1, <2>2, <2>11 DEF t, now
    <3>2. CASE j # k + 1
      <4>1. j \in 1 .. k
        BY <3>2, <2>1
      <4>2. now.set \cap ev_want[ev_waiting[j]] = {}
        BY <4>1, <2>3, <2>11 DEF EvPassed, now
      <4> QED  BY <4>2, <2>5
    <3> QED  BY <3>1, <3>2
  <2>12. next.set \in SUBSET Flags
    BY <2>4, <2>5
  <2>13. EvPassed(after, k + 1)
    BY <2>7, <2>8, <2>9, <2>10, <2>11, <2>12 DEF EvPassed, next
  <2> QED  BY <2>1, <2>13
<1> HIDE DEF passed
<1>5. \A i \in 0 .. n : i \in passed
  BY <1>1, <1>3, <1>4, CountingUp
<1> QED  BY <1>5 DEF passed, after

-----------------------------------------------------------------------------
(* rt_event_send *)

\* The loop of a send, and the places of the list where it finds a thread that
\* is satisfied.
EvSendLoop(set) == SendLoop(ev_set \cup set)
EvToldAt(set) ==
  {i \in 1 .. Len(ev_waiting) : Content(ev_waiting[i], EvSendLoop(set)[i - 1].set)}

\* The threads rt_event_send resumes, and what each of them receives.
LEMMA EvSendTells ==
  ASSUME EvTypeOK, EvListExact, NEW set \in SUBSET Flags, EvSend(set)
  PROVE  /\ ev_set' = EvSendLoop(set)[Len(ev_waiting)].set
         /\ ev_waiting' = EvSendLoop(set)[Len(ev_waiting)].left
         /\ UNCHANGED <<ev_state, ev_want, ev_option>>
         /\ \A t \in Threads :
              \/ \E i \in EvToldAt(set) :
                   /\ ev_waiting[i] = t
                   /\ ev_call'[t] = "received"
                   /\ ev_got'[t] = ev_want[t] \cap EvSendLoop(set)[i - 1].set
              \/ /\ \A i \in EvToldAt(set) : ev_waiting[i] # t
                 /\ ev_call'[t] = ev_call[t] /\ ev_got'[t] = ev_got[t]
         /\ ev_call' \in [Threads -> {"out", "ev_wait", "received", "ev_error"}]
         /\ ev_got' \in [Threads -> SUBSET Flags]
<1> DEFINE after == EvSendLoop(set)
           told == EvToldAt(set)
           threads == {ev_waiting[i] : i \in told}
           place(t) == CHOOSE i \in told : ev_waiting[i] = t
<1>1. DOMAIN ev_waiting = 1 .. Len(ev_waiting)
  BY DEF EvTypeOK
<1>2. /\ ev_set' = after[Len(ev_waiting)].set
      /\ ev_waiting' = after[Len(ev_waiting)].left
      /\ UNCHANGED <<ev_state, ev_want, ev_option>>
  BY DEF EvSend, EvSendLoop
<1>3. /\ ev_call' = [t \in Threads |-> IF t \in threads THEN "received" ELSE ev_call[t]]
      /\ ev_got' = [t \in Threads |->
                      IF t \in threads THEN ev_want[t] \cap after[place(t) - 1].set
                                       ELSE ev_got[t]]
  BY <1>1 DEF EvSend, EvSendLoop, EvToldAt
<1>4. ASSUME NEW t \in threads  PROVE place(t) \in told /\ ev_waiting[place(t)] = t
  OBVIOUS
<1>5. \A t : t \notin threads => \A i \in told : ev_waiting[i] # t
  OBVIOUS
<1> HIDE DEF threads, place, told, after
<1>6. ASSUME NEW t \in Threads
      PROVE  \/ \E i \in told : /\ ev_waiting[i] = t
                                /\ ev_call'[t] = "received"
                                /\ ev_got'[t] = ev_want[t] \cap after[i - 1].set
             \/ /\ \A i \in told : ev_waiting[i] # t
                /\ ev_call'[t] = ev_call[t] /\ ev_got'[t] = ev_got[t]
  <2>1. CASE t \in threads
    BY <2>1, <1>3, <1>4
  <2>2. CASE t \notin threads
    BY <2>2, <1>3, <1>5
  <2> QED  BY <2>1, <2>2
<1>7. /\ ev_call' \in [Threads -> {"out", "ev_wait", "received", "ev_error"}]
      /\ ev_got' \in [Threads -> SUBSET Flags]
  BY <1>3 DEF EvTypeOK
<1> QED  BY <1>2, <1>6, <1>7 DEF told, after

LEMMA EvSendKeeps ==
  ASSUME EvInv, NEW set \in SUBSET Flags, EvSend(set)
  PROVE  EvInv'
<1> DEFINE n == Len(ev_waiting)
           after == EvSendLoop(set)
           told == EvToldAt(set)
           left == {i \in 1 .. n : ~Content(ev_waiting[i], after[i - 1].set)}
<1>1. EvTypeOK /\ EvListExact /\ ev_state = "live"
  BY DEF EvInv, EvSend
<1>2. n \in Nat /\ DOMAIN ev_waiting = 1 .. n /\ \A i \in 1 .. n : ev_waiting[i] \in Threads
  BY <1>1 DEF EvTypeOK
<1>3. EvPassed(after, n)
  <2>1. ev_set \cup set \in SUBSET Flags
    BY <1>1 DEF EvTypeOK
  <2>2. \A i \in 0 .. n : EvPassed(after, i)
    BY <1>1, <2>1, EvLoopPasses DEF EvSendLoop
  <2> HIDE DEF after
  <2>3. n \in 0 .. n
    BY <1>2
  <2> QED  BY <2>2, <2>3
<1>4. /\ ev_set' = after[n].set
      /\ ev_waiting' = after[n].left
      /\ UNCHANGED <<ev_state, ev_want, ev_option>>
      /\ \A t \in Threads :
           \/ (\E i \in told : ev_waiting[i] = t) /\ ev_call'[t] = "received"
           \/ (\A i \in told : ev_waiting[i] # t) /\ ev_call'[t] = ev_call[t]
      /\ ev_call' \in [Threads -> {"out", "ev_wait", "received", "ev_error"}]
      /\ ev_got' \in [Threads -> SUBSET Flags]
  BY <1>1, EvSendTells
<1>5. /\ ev_set' \in SUBSET Flags /\ ev_waiting' \in Seq(Threads) /\ Distinct(ev_waiting')
      /\ Waiting(ev_waiting') = {ev_waiting[i] : i \in left}
      /\ \A t \in Waiting(ev_waiting') : ~Content(t, ev_set')
  BY <1>3, <1>4 DEF EvPassed
<1>6. told \cap left = {} /\ told \cup left = DOMAIN ev_waiting
  BY <1>2 DEF EvToldAt
<1> HIDE DEF after, told, left
<1>7. EvTypeOK'
  BY <1>1, <1>4, <1>5 DEF EvTypeOK
<1>8. EvListExact'
  <2>1. \A i, j \in DOMAIN ev_waiting : ev_waiting[i] = ev_waiting[j] => i = j
    BY <1>1 DEF EvListExact, Distinct
  <2>2. ASSUME NEW t \in Threads
        PROVE  (\E i \in left : ev_waiting[i] = t) <=> ev_call'[t] = "ev_wait"
    <3>1. ev_call[t] = "ev_wait" <=> \E i \in DOMAIN ev_waiting : ev_waiting[i] = t
      BY <1>1 DEF EvListExact, Waiting
    <3> QED  BY <3>1, <2>1, <1>4, <1>6
  <2>3. \A i \in left : ev_waiting[i] \in Threads
    BY <1>2, <1>6
  <2>4. Waiting(ev_waiting') = {t \in Threads : ev_call'[t] = "ev_wait"}
    BY <1>5, <2>2, <2>3
  <2> QED  BY <1>5, <2>4 DEF EvListExact
<1>9. NoneOversleeps'
  BY <1>4, <1>5 DEF NoneOversleeps, Content
<1>10. ev_state' # "freed"
  BY <1>1, <1>4
<1> QED  BY <1>7, <1>8, <1>9, <1>10 DEF EvInv

\* What the threads receive is what they asked for, and what one of them
\* clears, no other gets that would clear it too.
LEMMA EvSendClears ==
  ASSUME EvInv, NEW set \in SUBSET Flags, EvSend(set), NEW t \in Told
  PROVE  /\ ev_got'[t] \subseteq ev_want'[t]
         /\ Satisfied(ev_want'[t], ev_option'[t], ev_got'[t])
         /\ ev_option'[t].clear =>
              /\ ev_got'[t] \cap ev_set' = {}
              /\ \A u \in Told \ {t} : ev_option'[u].clear => ev_got'[t] \cap ev_got'[u] = {}
<1> DEFINE n == Len(ev_waiting)
           after == EvSendLoop(set)
           told == EvToldAt(set)
<1>1. EvTypeOK /\ EvListExact
  BY DEF EvInv
<1>2. n \in Nat
  BY <1>1 DEF EvTypeOK
<1>3. \A i \in 0 .. n : EvPassed(after, i)
  <2>1. ev_set \cup set \in SUBSET Flags
    BY <1>1 DEF EvTypeOK
  <2> QED  BY <1>1, <2>1, EvLoopPasses DEF EvSendLoop
<1>4. /\ ev_set' = after[n].set
      /\ UNCHANGED <<ev_want, ev_option>>
      /\ \A u \in Threads :
           \/ \E i \in told : /\ ev_waiting[i] = u
                              /\ ev_got'[u] = ev_want[u] \cap after[i - 1].set
           \/ ev_call'[u] = ev_call[u]
  BY <1>1, EvSendTells
<1>5. ASSUME NEW u \in Told
      PROVE  \E i \in 1 .. n : /\ ev_waiting[i] = u /\ Content(u, after[i - 1].set)
                               /\ ev_got'[u] = ev_want[u] \cap after[i - 1].set
  BY <1>4 DEF Told, EvToldAt
<1> HIDE DEF after
<1>6. PICK i \in 1 .. n : /\ ev_waiting[i] = t /\ Content(t, after[i - 1].set)
                          /\ ev_got'[t] = ev_want[t] \cap after[i - 1].set
  BY <1>5
<1>7. ev_got'[t] \subseteq ev_want'[t]
  BY <1>4, <1>6
<1>8. Satisfied(ev_want'[t], ev_option'[t], ev_got'[t])
  BY <1>4, <1>6 DEF Content, Satisfied
<1>9. ASSUME ev_option[t].clear  PROVE ev_got'[t] \cap ev_set' = {}
  <2>1. EvPassed(after, n)
    BY <1>2, <1>3
  <2>2. after[n].set \cap ev_want[t] = {}
    BY <2>1, <1>6, <1>9 DEF EvPassed
  <2> QED  BY <2>2, <1>4, <1>6
<1>10. ASSUME ev_option[t].clear, NEW u \in Told \ {t}, ev_option[u].clear
       PROVE  ev_got'[t] \cap ev_got'[u] = {}
  <2>1. PICK j \in 1 .. n : /\ ev_waiting[j] = u /\ Content(u, after[j - 1].set)
                            /\ ev_got'[u] = ev_want[u] \cap after[j - 1].set
    BY <1>5
  <2>2. i # j
    BY <1>6, <2>1, <1>10
  <2>3. CASE i < j
    <3>1. j - 1 \in 0 .. n /\ i \in 1 .. j - 1
      BY <2>3, <1>2
    <3>2. after[j - 1].set \cap ev_want[t] = {}
      BY <3>1, <1>3, <1>6, <1>10 DEF EvPassed
    <3> QED  BY <3>2, <1>6, <2>1
  <2>4. CASE j < i
    <3>1. i - 1 \in 0 .. n /\ j \in 1 .. i - 1
      BY <2>4, <1>2
    <3>2. after[i - 1].set \cap ev_want[u] = {}
      BY <3>1, <1>3, <2>1, <1>10 DEF EvPassed
    <3> QED  BY <3>2, <1>6, <2>1
  <2> QED  BY <2>2, <2>3, <2>4
<1> QED  BY <1>4, <1>7, <1>8, <1>9, <1>10

-----------------------------------------------------------------------------
(* The other steps of an event *)

\* A thread that is not on the list moves without it, and flags only go.
LEMMA EvOffListKeeps ==
  ASSUME EvInv, NEW t \in Threads, ev_call[t] # "ev_wait", EvTypeOK',
         UNCHANGED <<ev_state, ev_waiting>>, ev_set' \subseteq ev_set,
         ev_call'[t] # "ev_wait",
         \A u \in Threads \ {t} : /\ ev_call'[u] = ev_call[u]
                                  /\ ev_want'[u] = ev_want[u]
                                  /\ ev_option'[u] = ev_option[u]
  PROVE  EvInv'
<1>1. EvListExact'
  BY DEF EvInv, EvListExact
<1>2. NoneOversleeps'
  <2> SUFFICES ASSUME NEW u \in Waiting(ev_waiting)
               PROVE  ~Content(u, ev_set)'
    BY DEF NoneOversleeps
  <2>1. u \in Threads /\ u # t
    BY DEF EvInv, EvListExact
  <2>2. ~Content(u, ev_set)
    BY DEF EvInv, NoneOversleeps
  <2>3. ~Content(u, ev_set')
    BY <2>2, EvFewerFlags
  <2> QED  BY <2>1, <2>3 DEF Content
<1> QED  BY <1>1, <1>2 DEF EvInv

LEMMA EvSuspendKeeps ==
  ASSUME EvInv, NEW t \in Threads, NEW want \in SUBSET Flags, NEW option \in Options,
         EvRecvSuspend(t, want, option)
  PROVE  EvInv'
<1>1. /\ EvTypeOK /\ EvListExact /\ NoneOversleeps
      /\ ev_state = "live" /\ ev_call[t] = "out"
      /\ ~Satisfied(want, option, ev_set)
      /\ ev_waiting' = EnqueueLast(ev_waiting, t)
      /\ ev_call' = [ev_call EXCEPT ![t] = "ev_wait"]
      /\ ev_want' = [ev_want EXCEPT ![t] = want]
      /\ ev_option' = [ev_option EXCEPT ![t] = option]
      /\ UNCHANGED <<ev_state, ev_set, ev_got>>
  BY DEF EvInv, EvRecvSuspend, EvRecvCall
<1>2. /\ ev_waiting' \in Seq(Threads) /\ Distinct(ev_waiting')
      /\ Waiting(ev_waiting') = Waiting(ev_waiting) \cup {t}
      /\ t \notin Waiting(ev_waiting)
  <2>1. t \notin Waiting(ev_waiting)
    BY <1>1 DEF EvListExact
  <2> QED  BY <1>1, <2>1, EnqueueLastAdds DEF EvTypeOK, EvListExact
<1>3. EvTypeOK'
  BY <1>1, <1>2 DEF EvTypeOK
<1>4. EvListExact'
  BY <1>1, <1>2 DEF EvListExact, EvTypeOK
<1>5. NoneOversleeps'
  <2> SUFFICES ASSUME NEW u \in Waiting(ev_waiting')  PROVE ~Content(u, ev_set)'
    BY DEF NoneOversleeps
  <2>1. CASE u = t
    BY <2>1, <1>1 DEF Content, EvTypeOK
  <2>2. CASE u # t
    <3>1. u \in Waiting(ev_waiting) /\ ev_want'[u] = ev_want[u] /\ ev_option'[u] = ev_option[u]
      BY <2>2, <1>1, <1>2 DEF EvTypeOK
    <3> QED  BY <3>1, <1>1 DEF NoneOversleeps, Content
  <2> QED  BY <2>1, <2>2
<1> QED  BY <1>1, <1>3, <1>4, <1>5 DEF EvInv

\* A thread leaves the list: it timed out, or the event is being deleted.
LEMMA EvLeavesKeeps ==
  ASSUME EvInv, NEW t \in Waiting(ev_waiting), EvTypeOK',
         Distinct(ev_waiting'), Waiting(ev_waiting') = Waiting(ev_waiting) \ {t},
         ev_call' = [ev_call EXCEPT ![t] = "ev_error"],
         ev_state' \in {ev_state, "deleting"},
         UNCHANGED <<ev_set, ev_want, ev_option>>
  PROVE  EvInv'
<1>1. EvListExact'
  BY DEF EvInv, EvListExact, EvTypeOK
<1>2. NoneOversleeps'
  BY DEF EvInv, NoneOversleeps, Content
<1>3. ev_state' # "freed"
  BY DEF EvInv, Waiting
<1> QED  BY <1>1, <1>2, <1>3 DEF EvInv

LEMMA EvTimeoutKeeps ==
  ASSUME EvInv, NEW t \in Threads, EvTimeout(t)
  PROVE  EvInv'
<1>1. t \in Waiting(ev_waiting)
  BY DEF EvInv, EvListExact, EvTimeout
<1>2. /\ ev_waiting' \in Seq(Threads) /\ Distinct(ev_waiting')
      /\ Waiting(ev_waiting') = Waiting(ev_waiting) \ {t}
  BY <1>1, UnlinkRemoves DEF EvInv, EvTypeOK, EvListExact, EvTimeout
<1>3. EvTypeOK'
  BY <1>2 DEF EvInv, EvTypeOK, EvTimeout
<1> QED  BY <1>1, <1>2, <1>3, EvLeavesKeeps DEF EvTimeout

LEMMA EvDeleteResumeKeeps ==
  ASSUME EvInv, EvDeleteResume
  PROVE  EvInv'
<1> DEFINE t == Head(ev_waiting)
<1>1. /\ t \in Threads /\ t \in Waiting(ev_waiting)
      /\ ev_waiting' \in Seq(Threads) /\ Distinct(ev_waiting')
      /\ Waiting(ev_waiting') = Waiting(ev_waiting) \ {t}
  BY TailRemovesHead DEF EvInv, EvTypeOK, EvListExact, EvDeleteResume
<1>2. EvTypeOK'
  BY <1>1 DEF EvInv, EvTypeOK, EvDeleteResume
<1> QED  BY <1>1, <1>2, EvLeavesKeeps DEF EvDeleteResume

LEMMA EvResetKeeps ==
  ASSUME EvInv, EvReset
  PROVE  EvInv'
<1>1. EvTypeOK'
  BY DEF EvInv, EvTypeOK, EvReset
<1>2. EvListExact'
  BY DEF EvInv, EvTypeOK, EvListExact, EvReset, Distinct, Waiting
<1>3. NoneOversleeps'
  BY DEF NoneOversleeps, EvReset, Waiting
<1> QED  BY <1>1, <1>2, <1>3 DEF EvInv, EvReset

\* The deletion begins or ends, or nothing happens.
LEMMA EvOtherKeeps ==
  ASSUME EvInv, ev_state' \in {"live", "deleting", "resuming", "lost", "freed"},
         ev_state' = "freed" => ev_waiting = <<>>,
         UNCHANGED <<ev_set, ev_waiting, ev_call, ev_want, ev_option, ev_got>>
  PROVE  EvInv'
BY DEF EvInv, EvTypeOK, EvListExact, NoneOversleeps, Content

LEMMA EvReceiveKeeps ==
  ASSUME EvInv, NEW t \in Threads, NEW want \in SUBSET Flags, NEW option \in Options,
         \/ EvRecvNow(t, want, option) \/ EvRecvRefused(t, want, option)
         \/ EvReturn(t)
  PROVE  EvInv'
<1>1. EvTypeOK'
  <2>1. NoOption \in Options
    BY DEF NoOption, Options
  <2>2. CASE EvRecvNow(t, want, option)
    BY <2>2 DEF EvInv, EvTypeOK, EvRecvNow, EvRecvCall
  <2>3. CASE EvRecvRefused(t, want, option)
    BY <2>3 DEF EvInv, EvTypeOK, EvRecvRefused
  <2>4. CASE EvReturn(t)
    BY <2>1, <2>4 DEF EvInv, EvTypeOK, EvReturn
  <2> QED  BY <2>2, <2>3, <2>4
<1>2. /\ ev_call[t] # "ev_wait" /\ ev_call'[t] # "ev_wait" /\ ev_set' \subseteq ev_set
      /\ UNCHANGED <<ev_state, ev_waiting>>
  BY DEF EvInv, EvTypeOK, EvRecvNow, EvRecvRefused, EvReturn, EvRecvCall
<1>3. \A u \in Threads \ {t} : /\ ev_call'[u] = ev_call[u]
                               /\ ev_want'[u] = ev_want[u]
                               /\ ev_option'[u] = ev_option[u]
  BY DEF EvInv, EvTypeOK, EvRecvNow, EvRecvRefused, EvReturn, EvRecvCall
<1> QED  BY <1>1, <1>2, <1>3, EvOffListKeeps

-----------------------------------------------------------------------------
(* The specification of an event *)

LEMMA EvInitEstablishes == EvInit => EvInv
<1> SUFFICES ASSUME EvInit  PROVE EvInv
  OBVIOUS
<1>1. EvTypeOK
  BY DEF EvInit, EvTypeOK, Options, NoOption
<1>2. EvListExact /\ NoneOversleeps
  BY DEF EvInit, EvListExact, NoneOversleeps, Distinct, Waiting
<1> QED  BY <1>1, <1>2 DEF EvInv, EvInit

LEMMA EvStepKeeps ==
  ASSUME EvInv, [EvNext]_evVars
  PROVE  EvInv'
<1>1. ASSUME NEW t \in Threads, NEW want \in SUBSET Flags, NEW option \in Options,
             EvRecvNow(t, want, option) \/ EvRecvRefused(t, want, option)
      PROVE  EvInv'
  BY <1>1, EvReceiveKeeps
<1>2. ASSUME NEW t \in Threads, NEW want \in SUBSET Flags, NEW option \in Options,
             EvRecvSuspend(t, want, option)
      PROVE  EvInv'
  BY <1>2, EvSuspendKeeps
<1>3. ASSUME NEW t \in Threads, EvTimeout(t)  PROVE EvInv'
  BY <1>3, EvTimeoutKeeps
<1>4. ASSUME NEW t \in Threads, EvReturn(t)  PROVE EvInv'
  <2>1. {} \in SUBSET Flags /\ NoOption \in Options
    BY DEF NoOption, Options
  <2> QED  BY <1>4, <2>1, EvReceiveKeeps
<1>5. ASSUME NEW set \in SUBSET Flags, EvSend(set)  PROVE EvInv'
  BY <1>5, EvSendKeeps
<1>6. CASE EvReset
  BY <1>6, EvResetKeeps
<1>7. CASE EvDeleteResume
  BY <1>7, EvDeleteResumeKeeps
<1>8. CASE \/ EvDeleteCall \/ EvDeleteTest \/ EvDeleteHead \/ EvDeleteFree
           \/ UNCHANGED evVars
  BY <1>8, EvOtherKeeps DEF EvDeleteCall, EvDeleteTest, EvDeleteHead, EvDeleteFree, evVars,
                            EvInv, EvTypeOK
<1> QED  BY <1>1, <1>2, <1>3, <1>4, <1>5, <1>6, <1>7, <1>8 DEF EvNext

\* The invariant holds in every reachable state of an event, for any number
\* of threads and flags.
THEOREM EvInvariance == EvSpec => []EvInv
<1> QED  BY EvInitEstablishes, EvStepKeeps, PTL DEF EvSpec

\* rt_event_send passes nobody by: a thread sleeps in rt_event_recv only as
\* long as the flags that are set do not satisfy it.
THEOREM NobodyOversleeps == EvSpec => []NoneOversleeps
<1>1. EvInv => NoneOversleeps
  BY DEF EvInv
<1> QED  BY EvInvariance, <1>1, PTL

\* A thread receives flags it asked for, enough to satisfy it; and a flag that
\* is cleared as it is received is given to one thread of those that clear,
\* and not set afterwards.
THEOREM FlagsAreClearedOnce == EvSpec => ClearedOnce
<1> DEFINE Fair == \A t \in Told :
        /\ ev_got'[t] \subseteq ev_want'[t]
        /\ Satisfied(ev_want'[t], ev_option'[t], ev_got'[t])
        /\ ev_option'[t].clear =>
             /\ ev_got'[t] \cap ev_set' = {}
             /\ \A u \in Told \ {t} :
                  ev_option'[u].clear => ev_got'[t] \cap ev_got'[u] = {}
<1>1. ASSUME EvInv, [EvNext]_evVars  PROVE [Fair]_evVars
  <2>1. ASSUME NEW set \in SUBSET Flags, EvSend(set)  PROVE Fair
    BY <1>1, <2>1, EvSendClears
  <2>2. ASSUME NEW t \in Threads, NEW want \in SUBSET Flags, NEW option \in Options,
               EvRecvNow(t, want, option)
        PROVE  Fair
    <3>1. Told \subseteq {t}
      BY <1>1, <2>2 DEF Told, EvInv, EvTypeOK, EvRecvNow, EvRecvCall
    <3>2. /\ ev_got'[t] = ev_set \cap want /\ ev_want'[t] = want /\ ev_option'[t] = option
          /\ ev_set' = IF option.clear THEN ev_set \ want ELSE ev_set
          /\ Satisfied(want, option, ev_set)
      BY <1>1, <2>2 DEF EvInv, EvTypeOK, EvRecvNow, EvRecvCall
    <3>3. Satisfied(want, option, ev_set \cap want)
      BY <3>2 DEF Satisfied
    <3> QED  BY <3>1, <3>2, <3>3
  <2>3. Told = {} => Fair
    OBVIOUS
  <2> HIDE DEF Fair
  <2>4. ASSUME NEW t \in Threads, NEW want \in SUBSET Flags, NEW option \in Options,
               EvRecvRefused(t, want, option) \/ EvRecvSuspend(t, want, option)
        PROVE  Fair
    <3>1. Told = {}
      BY <1>1, <2>4 DEF Told, EvInv, EvTypeOK, EvRecvRefused, EvRecvSuspend, EvRecvCall
    <3> QED  BY <2>3, <3>1
  <2>5. ASSUME NEW t \in Threads, EvTimeout(t) \/ EvReturn(t)  PROVE Fair
    <3>1. Told = {}
      BY <1>1, <2>5 DEF Told, EvInv, EvTypeOK, EvTimeout, EvReturn
    <3> QED  BY <2>3, <3>1
  <2>6. CASE EvReset \/ EvDeleteResume
    <3>1. Told = {}
      BY <1>1, <2>6 DEF Told, EvInv, EvTypeOK, EvReset, EvDeleteResume
    <3> QED  BY <2>3, <3>1
  <2>7. CASE EvDeleteCall \/ EvDeleteTest \/ EvDeleteHead \/ EvDeleteFree
    <3>1. Told = {}
      BY <2>7 DEF Told, EvDeleteCall, EvDeleteTest, EvDeleteHead, EvDeleteFree
    <3> QED  BY <2>3, <3>1
  <2> QED  BY <1>1, <2>1, <2>2, <2>4, <2>5, <2>6, <2>7 DEF EvNext
<1>2. EvInv /\ [EvNext]_evVars => [Fair]_evVars
  BY <1>1
<1> QED  BY EvInvariance, <1>2, PTL DEF EvSpec, ClearedOnce

=============================================================================
