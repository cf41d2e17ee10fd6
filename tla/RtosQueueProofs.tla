-------------------------- MODULE RtosQueueProofs ---------------------------
(***************************************************************************)
(* Proofs about RtosQueue, for any number of threads, blocks and messages.  *)
(*                                                                          *)
(* The inductive invariant QueueInv says where every block is.  Its parts:  *)
(* types, wait lists that hold exactly the waiting threads, program points  *)
(* of the three layers that agree, a ring whose offsets agree, and one      *)
(* owner for every block.  That a send finds room follows from the last:    *)
(* the sender's own block is not among those in the ring, so the ring holds *)
(* at most Size - 1.                                                        *)
(*                                                                          *)
(* FifoInv adds what a caller and rtos_deinit_queue rely on: waiting times  *)
(* that the layers agree on, a message written before it is sent, and       *)
(* threads that only leave once the queue is being deleted.  With it every  *)
(* step maps to a step of BoundedFifo or to none.                           *)
(***************************************************************************)
EXTENDS RtosQueue, KernelWaitProofs, FiniteSetTheorems, SequenceTheorems

-----------------------------------------------------------------------------
(* The inductive invariant *)

\* The wait lists hold exactly the threads that wait, once each; nobody ever
\* waits for room in the mailbox.
Lists ==
  /\ Distinct(suspend_thread)
  /\ Waiting(suspend_thread) = {t \in Threads : mp_call[t] = "alloc_wait"}
  /\ Len(suspend_thread) <= suspend_thread_count
  /\ Distinct(suspend_recv_thread)
  /\ Waiting(suspend_recv_thread) = {t \in Threads : mb_call[t] = "recv_wait"}
  /\ suspend_sender_thread = <<>>

\* Where a thread is in the queue tells where it is in the pool and in the
\* mailbox, and whether it has a block.
PointsOf(t) ==
  /\ pc[t] = "idle" =>
       mp_call[t] = "out" /\ mb_call[t] = "out" /\ msg_tmp[t] = NoBlock
  /\ pc[t] = "push_alloc" =>
       /\ mp_call[t] # "out" /\ mb_call[t] = "out"
       /\ mp_call[t] = "alloced" => msg_tmp[t] \in Blocks
       /\ mp_call[t] # "alloced" => msg_tmp[t] = NoBlock
  /\ pc[t] = "push_send" =>
       /\ mp_call[t] = "out" /\ mb_call[t] \in {"send", "sent"}
       /\ msg_tmp[t] \in Blocks /\ mb_value[t] = msg_tmp[t]
  /\ pc[t] = "pop_recv" =>
       /\ mp_call[t] = "out" /\ mb_call[t] \in RecvPoints
       /\ msg_tmp[t] = NoBlock
       /\ mb_call[t] = "recvd" => mb_value[t] \in Blocks
  /\ pc[t] = "pop_free" =>
       mp_call[t] = "out" /\ mb_call[t] = "out" /\ msg_tmp[t] \in Blocks
  /\ pc[t] # "push_undo"

Points == \A t \in Threads : PointsOf(t)

\* The offsets and the number of mails agree.
Placed ==
  \/ out_offset < in_offset /\ entry = in_offset - out_offset
  \/ in_offset < out_offset /\ entry = Size - out_offset + in_offset
  \/ in_offset = out_offset /\ entry \in {0, Size}

Ring ==
  /\ Placed
  /\ \A i \in 0 .. Size - 1 : Occupied(i) => msg_pool[i] \in Blocks

QueueInv == QueueTypeOK /\ Lists /\ Points /\ Ring /\ OneOwner /\ NoBlockLost

\* The thread that rt_mp_delete saw on the list is still counted when it is
\* resumed, even if it has timed out.
Counted == mp_state = "resuming" => suspend_thread_count > 0

-----------------------------------------------------------------------------
(* The ring *)

\* rt_mb_send_wait fills the slot at in_offset, which was empty.
LEMMA PutFills ==
  ASSUME MbTypeOK, Placed, NEW t \in Threads, MbSendPut(t)
  PROVE  /\ Placed'
         /\ ~Occupied(in_offset)
         /\ \A i \in 0 .. Size - 1 : Occupied(i)' <=> (Occupied(i) \/ i = in_offset)
<1> USE MailboxAssumption
<1>1. /\ Size \in Nat \ {0}
      /\ in_offset \in 0 .. Size - 1 /\ out_offset \in 0 .. Size - 1
      /\ entry \in 0 .. Size /\ entry # Size
      /\ out_offset' = out_offset /\ entry' = entry + 1
      /\ in_offset' = IF in_offset + 1 >= Size THEN 0 ELSE in_offset + 1
  BY DEF MbTypeOK, MbSendPut, NextOffset
<1>2. Placed'
  BY <1>1 DEF Placed
<1>3. ~Occupied(in_offset)
  BY <1>1 DEF Placed, Occupied
<1>4. ASSUME NEW i \in 0 .. Size - 1
      PROVE  Occupied(i)' <=> (Occupied(i) \/ i = in_offset)
  BY <1>1 DEF Placed, Occupied
<1> QED  BY <1>2, <1>3, <1>4

\* rt_mb_recv empties the slot at out_offset, which was occupied.
LEMMA TakeEmpties ==
  ASSUME MbTypeOK, Placed, NEW t \in Threads, MbRecvTake(t)
  PROVE  /\ Placed'
         /\ Occupied(out_offset)
         /\ \A i \in 0 .. Size - 1 : Occupied(i)' <=> (Occupied(i) /\ i # out_offset)
<1> USE MailboxAssumption
<1>1. /\ Size \in Nat \ {0}
      /\ in_offset \in 0 .. Size - 1 /\ out_offset \in 0 .. Size - 1
      /\ entry \in 0 .. Size /\ entry # 0
      /\ in_offset' = in_offset /\ entry' = entry - 1
      /\ out_offset' = IF out_offset + 1 >= Size THEN 0 ELSE out_offset + 1
  BY DEF MbTypeOK, MbRecvTake, NextOffset
<1>2. Placed'
  BY <1>1 DEF Placed
<1>3. Occupied(out_offset)
  BY <1>1 DEF Placed, Occupied
<1>4. ASSUME NEW i \in 0 .. Size - 1
      PROVE  Occupied(i)' <=> (Occupied(i) /\ i # out_offset)
  BY <1>1 DEF Placed, Occupied
<1> QED  BY <1>2, <1>3, <1>4

\* A step that leaves the ring alone leaves alone what is queued.
LEMMA RingFrame ==
  ASSUME Ring, UNCHANGED <<msg_pool, in_offset, out_offset, entry>>
  PROVE  /\ Ring'
         /\ Queued' = Queued
         /\ \A i \in 0 .. Size - 1 : Occupied(i)' <=> Occupied(i)
<1>1. \A i \in 0 .. Size - 1 : Occupied(i)' <=> Occupied(i)
  BY DEF Occupied
<1>2. Queued' = Queued
  BY <1>1 DEF Queued
<1>3. Ring'
  BY <1>1 DEF Ring, Placed
<1> QED  BY <1>1, <1>2, <1>3

-----------------------------------------------------------------------------
(* The owner of a block *)

\* A step that leaves the ring, the free blocks and what threads own alone.
LEMMA OwnerFrame ==
  ASSUME Ring, OneOwner, NoBlockLost,
         UNCHANGED <<msg_pool, in_offset, out_offset, entry, block_list, block_free_count>>,
         \A t \in Threads, b \in Blocks : Owns(t, b)' <=> Owns(t, b)
  PROVE  OneOwner' /\ NoBlockLost'
<1>1. /\ Queued' = Queued
      /\ \A i \in 0 .. Size - 1 : Occupied(i)' <=> Occupied(i)
  BY RingFrame
<1>2. OneOwner'
  BY <1>1 DEF OneOwner
<1>3. NoBlockLost'
  BY <1>1 DEF NoBlockLost
<1> QED  BY <1>2, <1>3

\* What is queued, and what is free, are finite sets of blocks.
LEMMA QueuedFinite ==
  ASSUME QueueInv
  PROVE  /\ Queued \subseteq Blocks /\ IsFiniteSet(Queued)
         /\ block_list \subseteq Blocks /\ IsFiniteSet(block_list)
<1>1. Queued \subseteq Blocks
  BY DEF QueueInv, Ring, Queued
<1>2. block_list \subseteq Blocks
  BY DEF QueueInv, QueueTypeOK, MpTypeOK
<1> QED  BY <1>1, <1>2, MemPoolAssumption, FS_Subset

\* A thread that has a block to send finds room.
LEMMA Room ==
  ASSUME QueueInv, NEW t \in Threads, mb_call[t] = "send"
  PROVE  entry < Size
<1>1. pc[t] = "push_send" /\ msg_tmp[t] \in Blocks
  BY DEF QueueInv, QueueTypeOK, Points, PointsOf, RecvPoints
<1>2. Owns(t, msg_tmp[t])
  BY <1>1 DEF Owns
<1>3. msg_tmp[t] \notin Queued
  BY <1>1, <1>2 DEF QueueInv, OneOwner
<1>4. /\ IsFiniteSet(Queued) /\ Queued \subseteq Blocks
      /\ Cardinality(Queued) = entry
  BY QueuedFinite DEF QueueInv, OneOwner
<1>5. /\ IsFiniteSet(Queued \cup {msg_tmp[t]})
      /\ Cardinality(Queued \cup {msg_tmp[t]}) = Cardinality(Queued) + 1
  BY <1>3, <1>4, FS_AddElement
<1>6. Cardinality(Queued \cup {msg_tmp[t]}) <= Cardinality(Blocks)
  BY <1>1, <1>4, MemPoolAssumption, FS_Subset
<1>7. entry \in Nat /\ Size \in Nat
  BY MailboxAssumption DEF QueueInv, QueueTypeOK, MbTypeOK
<1> QED  BY <1>4, <1>5, <1>6, <1>7, RtosQueueAssumption

\* MpAllocTake moves a block from the free list to the thread.
LEMMA AllocMoves ==
  ASSUME QueueInv, NEW t \in Threads, pc[t] = "push_alloc", MpAllocTake(t),
         UNCHANGED <<mbVars, queueVars>>
  PROVE  OneOwner' /\ NoBlockLost'
<1>1. PICK b \in block_list : /\ block_list' = block_list \ {b}
                              /\ msg_tmp' = [msg_tmp EXCEPT ![t] = b]
  BY DEF MpAllocTake
<1>2. /\ b \in Blocks
      /\ msg_tmp[t] = NoBlock /\ mb_call[t] = "out"
      /\ msg_tmp \in [Threads -> Blocks \cup {NoBlock}]
      /\ block_free_count' = block_free_count - 1
  BY <1>1 DEF QueueInv, QueueTypeOK, MpTypeOK, Points, PointsOf, MpAllocTake
<1>3. /\ Queued' = Queued
      /\ \A i \in 0 .. Size - 1 : Occupied(i)' <=> Occupied(i)
  BY RingFrame DEF QueueInv, mbVars
<1>4. ASSUME NEW u \in Threads, NEW c \in Blocks
      PROVE  Owns(u, c)' <=> (Owns(u, c) \/ (u = t /\ c = b))
  BY <1>1, <1>2, MemPoolAssumption DEF Owns, mbVars
<1>5. Cardinality(block_list') = block_free_count'
  BY <1>1, <1>2, QueuedFinite, FS_RemoveElement DEF QueueInv, OneOwner
<1>6. OneOwner'
  <2>1. \A u \in Threads, c \in Blocks :
          Owns(u, c)' => /\ c \notin Queued'
                         /\ c \notin block_list'
                         /\ \A v \in Threads : Owns(v, c)' => v = u
    BY <1>1, <1>3, <1>4 DEF QueueInv, OneOwner
  <2>2. entry' = entry /\ msg_pool' = msg_pool
    BY DEF mbVars
  <2> QED  BY <1>1, <1>3, <1>5, <2>1, <2>2 DEF QueueInv, OneOwner
<1>7. NoBlockLost'
  BY <1>1, <1>2, <1>3, <1>4 DEF QueueInv, NoBlockLost
<1> QED  BY <1>6, <1>7

\* MpLinkBlock moves a block from the thread to the free list.
LEMMA FreeMoves ==
  ASSUME QueueInv, NEW t \in Threads, pc[t] = "pop_free", MpLinkBlock(t),
         UNCHANGED mbVars
  PROVE  OneOwner' /\ NoBlockLost'
<1> DEFINE b == msg_tmp[t]
<1>1. /\ b \in Blocks
      /\ mb_call[t] = "out"
      /\ msg_tmp \in [Threads -> Blocks \cup {NoBlock}]
      /\ msg_tmp' = [msg_tmp EXCEPT ![t] = NoBlock]
      /\ block_list' = block_list \cup {b}
      /\ block_free_count' = block_free_count + 1
  BY DEF QueueInv, QueueTypeOK, MpTypeOK, Points, PointsOf, MpLinkBlock
<1>2. /\ Queued' = Queued
      /\ \A i \in 0 .. Size - 1 : Occupied(i)' <=> Occupied(i)
  BY RingFrame DEF QueueInv, mbVars
<1>3. ASSUME NEW u \in Threads, NEW c \in Blocks
      PROVE  Owns(u, c)' <=> (Owns(u, c) /\ u # t)
  BY <1>1, MemPoolAssumption DEF Owns, mbVars
<1>4. /\ Owns(t, b)
      /\ \A c \in Blocks : Owns(t, c) => c = b
  BY <1>1 DEF Owns
<1>5. b \notin Queued /\ b \notin block_list /\ \A u \in Threads : Owns(u, b) => u = t
  BY <1>1, <1>4 DEF QueueInv, OneOwner
<1>6. Cardinality(block_list') = block_free_count'
  BY <1>1, <1>5, QueuedFinite, FS_AddElement DEF QueueInv, OneOwner
<1> HIDE DEF b
<1>7. OneOwner'
  <2>1. \A u \in Threads, c \in Blocks :
          Owns(u, c)' => /\ c \notin Queued'
                         /\ c \notin block_list'
                         /\ \A v \in Threads : Owns(v, c)' => v = u
    BY <1>1, <1>2, <1>3, <1>5 DEF QueueInv, OneOwner
  <2>2. entry' = entry /\ msg_pool' = msg_pool
    BY DEF mbVars
  <2> QED  BY <1>1, <1>2, <1>5, <1>6, <2>1, <2>2 DEF QueueInv, OneOwner
<1>8. NoBlockLost'
  BY <1>1, <1>2, <1>3, <1>4 DEF QueueInv, NoBlockLost
<1> QED  BY <1>7, <1>8

\* What rt_mb_send_wait does to the points of the threads: the sender is
\* done and a waiting receiver, which is not the sender, looks again.
LEMMA PutPoints ==
  ASSUME QueueInv, NEW t \in Threads, MbSendPut(t)
  PROVE  /\ mb_call'[t] = "sent"
         /\ \A u \in Threads : u # t => \/ mb_call'[u] = mb_call[u]
                                        \/ mb_call[u] = "recv_wait" /\ mb_call'[u] = "recv"
         /\ mb_call' \in [Threads -> {"out"} \cup SendPoints \cup RecvPoints]
         /\ suspend_recv_thread' \in Seq(Threads)
         /\ Distinct(suspend_recv_thread')
         /\ Waiting(suspend_recv_thread') = {u \in Threads : mb_call'[u] = "recv_wait"}
<1>1. /\ mb_call \in [Threads -> {"out"} \cup SendPoints \cup RecvPoints]
      /\ suspend_recv_thread \in Seq(Threads)
      /\ Distinct(suspend_recv_thread)
      /\ Waiting(suspend_recv_thread) = {u \in Threads : mb_call[u] = "recv_wait"}
      /\ mb_call[t] = "send"
  BY DEF QueueInv, QueueTypeOK, MbTypeOK, Lists, MbSendPut
<1>2. CASE suspend_recv_thread = <<>>
  <2>1. /\ mb_call' = [mb_call EXCEPT ![t] = "sent"]
        /\ suspend_recv_thread' = suspend_recv_thread
    BY <1>2 DEF MbSendPut, Moved, Resumed
  <2> QED  BY <1>1, <2>1 DEF SendPoints
<1>3. CASE suspend_recv_thread # <<>>
  <2> DEFINE w == Head(suspend_recv_thread)
  <2>1. /\ mb_call' = [mb_call EXCEPT ![t] = "sent", ![w] = "recv"]
        /\ suspend_recv_thread' = Tail(suspend_recv_thread)
    BY <1>3 DEF MbSendPut, Moved, Resumed
  <2>2. /\ w \in Threads /\ w \in Waiting(suspend_recv_thread)
        /\ Tail(suspend_recv_thread) \in Seq(Threads)
        /\ Distinct(Tail(suspend_recv_thread))
        /\ Waiting(Tail(suspend_recv_thread)) = Waiting(suspend_recv_thread) \ {w}
    BY <1>1, <1>3, TailRemovesHead
  <2> HIDE DEF w
  <2>3. mb_call[w] = "recv_wait" /\ w # t
    BY <1>1, <2>2
  <2>4. \A u \in Threads : mb_call'[u] = IF u = t THEN "sent" ELSE IF u = w THEN "recv" ELSE mb_call[u]
    BY <1>1, <2>1, <2>2, <2>3
  <2>5. mb_call' \in [Threads -> {"out"} \cup SendPoints \cup RecvPoints]
    BY <1>1, <2>1 DEF SendPoints, RecvPoints
  <2> QED  BY <1>1, <2>1, <2>2, <2>3, <2>4, <2>5
<1> QED  BY <1>2, <1>3

\* MbSendPut moves a block from the thread to the ring.
LEMMA PutMoves ==
  ASSUME QueueInv, NEW t \in Threads, pc[t] = "push_send", MbSendPut(t),
         UNCHANGED mpVars
  PROVE  Ring' /\ OneOwner' /\ NoBlockLost'
<1> DEFINE b == msg_tmp[t]
<1>1. /\ b \in Blocks /\ mb_value[t] = b /\ mb_call[t] = "send"
      /\ msg_pool \in [0 .. Size - 1 -> Blocks \cup {NoBlock}]
      /\ in_offset \in 0 .. Size - 1
      /\ msg_pool' = [msg_pool EXCEPT ![in_offset] = b]
      /\ entry' = entry + 1
      /\ mb_value' = mb_value
  BY RtosQueueAssumption DEF QueueInv, QueueTypeOK, MbTypeOK, Points, PointsOf, MbSendPut
<1>2. /\ Placed'
      /\ ~Occupied(in_offset)
      /\ \A i \in 0 .. Size - 1 : Occupied(i)' <=> (Occupied(i) \/ i = in_offset)
  BY PutFills DEF QueueInv, QueueTypeOK, Ring
<1>3. Queued' = Queued \cup {b}
  BY <1>1, <1>2 DEF Queued
<1>4. ASSUME NEW u \in Threads, NEW c \in Blocks
      PROVE  Owns(u, c)' <=> (Owns(u, c) /\ u # t)
  BY <1>1, PutPoints DEF Owns, mpVars
<1>5. /\ Owns(t, b)
      /\ \A c \in Blocks : Owns(t, c) => c = b
  BY <1>1 DEF Owns
<1>6. b \notin Queued /\ b \notin block_list /\ \A u \in Threads : Owns(u, b) => u = t
  BY <1>1, <1>5 DEF QueueInv, OneOwner
<1>7. Cardinality(Queued') = entry'
  BY <1>1, <1>3, <1>6, QueuedFinite, FS_AddElement DEF QueueInv, OneOwner
<1> HIDE DEF b
<1>8. Ring'
  BY <1>1, <1>2 DEF QueueInv, Ring
<1>9. OneOwner'
  <2>1. \A i, j \in 0 .. Size - 1 :
          Occupied(i)' /\ Occupied(j)' /\ msg_pool'[i] = msg_pool'[j] => i = j
    <3>1. \A i \in 0 .. Size - 1 : Occupied(i) => msg_pool[i] # b
      BY <1>6 DEF Queued
    <3> QED  BY <1>1, <1>2, <3>1 DEF QueueInv, OneOwner
  <2>2. \A u \in Threads, c \in Blocks :
          Owns(u, c)' => /\ c \notin Queued'
                         /\ c \notin block_list'
                         /\ \A v \in Threads : Owns(v, c)' => v = u
    BY <1>3, <1>4, <1>6 DEF QueueInv, OneOwner, mpVars
  <2>3. block_list' = block_list /\ block_free_count' = block_free_count
    BY DEF mpVars
  <2> QED  BY <1>3, <1>6, <1>7, <2>1, <2>2, <2>3 DEF QueueInv, OneOwner
<1>10. NoBlockLost'
  <2>1. block_list' = block_list
    BY DEF mpVars
  <2> QED  BY <1>1, <1>3, <1>4, <1>5, <2>1 DEF QueueInv, NoBlockLost
<1> QED  BY <1>8, <1>9, <1>10

\* MbRecvTake moves a block from the ring to the thread; nobody waits for
\* room, so nobody is resumed.
LEMMA TakeMoves ==
  ASSUME QueueInv, NEW t \in Threads, pc[t] = "pop_recv", MbRecvTake(t),
         UNCHANGED mpVars
  PROVE  /\ Ring' /\ OneOwner' /\ NoBlockLost'
         /\ mb_call' = [mb_call EXCEPT ![t] = "recvd"]
         /\ mb_timeout' = mb_timeout
         /\ suspend_sender_thread' = <<>>
         /\ mb_value' = [mb_value EXCEPT ![t] = msg_pool[out_offset]]
         /\ msg_pool[out_offset] \in Blocks
<1> DEFINE b == msg_pool[out_offset]
<1>1. /\ mb_call' = [mb_call EXCEPT ![t] = "recvd"]
      /\ mb_timeout' = mb_timeout
      /\ suspend_sender_thread' = <<>>
  BY DEF QueueInv, Lists, MbRecvTake, Moved, TimeLeft, Resumed
<1>2. /\ out_offset \in 0 .. Size - 1
      /\ msg_pool' = msg_pool
      /\ entry' = entry - 1 /\ entry \in Nat
      /\ mb_value' = [mb_value EXCEPT ![t] = b]
      /\ mb_call[t] = "recv" /\ msg_tmp[t] = NoBlock
      /\ mb_call \in [Threads -> {"out"} \cup SendPoints \cup RecvPoints]
      /\ mb_value \in [Threads -> Blocks \cup {NoBlock}]
  BY RtosQueueAssumption DEF QueueInv, QueueTypeOK, MbTypeOK, Points, PointsOf, MbRecvTake
<1>3. /\ Placed'
      /\ Occupied(out_offset)
      /\ \A i \in 0 .. Size - 1 : Occupied(i)' <=> (Occupied(i) /\ i # out_offset)
  BY TakeEmpties DEF QueueInv, QueueTypeOK, Ring
<1>4. b \in Blocks /\ b \in Queued
  BY <1>2, <1>3 DEF QueueInv, Ring, Queued
<1>5. Queued' = Queued \ {b}
  BY <1>2, <1>3 DEF Queued, QueueInv, OneOwner
<1>6. ASSUME NEW u \in Threads, NEW c \in Blocks
      PROVE  Owns(u, c)' <=> (Owns(u, c) \/ (u = t /\ c = b))
  BY <1>1, <1>2, <1>4, MemPoolAssumption DEF Owns, mpVars
<1>7. Cardinality(Queued') = entry'
  BY <1>2, <1>4, <1>5, QueuedFinite, FS_RemoveElement DEF QueueInv, OneOwner
<1> HIDE DEF b
<1>8. Ring'
  BY <1>2, <1>3 DEF QueueInv, Ring
<1>9. OneOwner'
  <2>1. \A i, j \in 0 .. Size - 1 :
          Occupied(i)' /\ Occupied(j)' /\ msg_pool'[i] = msg_pool'[j] => i = j
    BY <1>2, <1>3 DEF QueueInv, OneOwner
  <2>2. block_list' = block_list /\ block_free_count' = block_free_count
    BY DEF mpVars
  <2>3. \A u \in Threads : ~Owns(u, b)
    BY <1>4 DEF QueueInv, OneOwner
  <2>4. b \notin block_list
    BY <1>4 DEF QueueInv, OneOwner
  <2>5. \A u \in Threads, c \in Blocks :
          Owns(u, c)' => /\ c \notin Queued'
                         /\ c \notin block_list'
                         /\ \A v \in Threads : Owns(v, c)' => v = u
    BY <1>5, <1>6, <2>2, <2>3, <2>4 DEF QueueInv, OneOwner
  <2> QED  BY <1>5, <1>7, <2>1, <2>2, <2>5 DEF QueueInv, OneOwner
<1>10. NoBlockLost'
  <2>1. block_list' = block_list
    BY DEF mpVars
  <2> QED  BY <1>4, <1>5, <1>6, <2>1 DEF QueueInv, NoBlockLost
<1> QED  BY <1>1, <1>2, <1>4, <1>8, <1>9, <1>10 DEF b

-----------------------------------------------------------------------------
(* The invariant is inductive *)

\* rtos_init_queue establishes it.
LEMMA InitInv == Init => QueueInv
<1> SUFFICES ASSUME Init PROVE QueueInv
  OBVIOUS
<1> USE MemPoolAssumption, MailboxAssumption, RtosQueueAssumption DEF Init, MpInit, MbInit
<1>1. QueueTypeOK
  <2>1. Cardinality(Blocks) \in Nat
    BY FS_CardinalityType
  <2>2. MpTypeOK
    BY <2>1 DEF MpTypeOK, Timeouts
  <2>3. MbTypeOK
    BY DEF MbTypeOK, Timeouts
  <2>4. /\ message \in [Threads -> Messages]
        /\ content \in [Blocks -> Messages]
    OBVIOUS
  <2> QED  BY <2>2, <2>3, <2>4 DEF QueueTypeOK, Timeouts
<1>2. Lists
  BY DEF Lists, Distinct, Waiting
<1>3. Points
  BY DEF Points, PointsOf
<1>4. \A i \in 0 .. Size - 1 : ~Occupied(i)
  BY DEF Occupied
<1>5. Queued = {}
  BY <1>4 DEF Queued
<1>6. Ring
  BY <1>4 DEF Ring, Placed
<1>7. \A t \in Threads, b \in Blocks : ~Owns(t, b)
  BY DEF Owns
<1>8. OneOwner
  BY <1>4, <1>5, <1>7, FS_EmptySet DEF OneOwner
<1>9. NoBlockLost
  BY <1>5, <1>7 DEF NoBlockLost
<1> QED  BY <1>1, <1>2, <1>3, <1>6, <1>8, <1>9 DEF QueueInv

\* Calls and returns change no list, no ring and no owner.

LEMMA PushCallKeeps ==
  ASSUME QueueInv, NEW t \in Threads, NEW m \in Messages, NEW time \in Timeouts,
         PushCall(t, m, time)
  PROVE  QueueInv'
<1> USE DEF QueueInv, PushCall, MpAllocCall, mbVars
<1>1. QueueTypeOK'
  BY DEF QueueTypeOK, MpTypeOK, MbTypeOK
<1>2. Lists'
  BY DEF Lists, QueueTypeOK, MpTypeOK
<1>3. Points'
  BY DEF Points, PointsOf, QueueTypeOK, MpTypeOK
<1>4. \A u \in Threads, b \in Blocks : Owns(u, b)' <=> Owns(u, b)
  BY DEF Owns
<1> QED  BY <1>1, <1>2, <1>3, <1>4, RingFrame, OwnerFrame

LEMMA PushNoBlockKeeps ==
  ASSUME QueueInv, NEW t \in Threads, PushNoBlock(t)
  PROVE  QueueInv'
<1> USE DEF QueueInv, PushNoBlock, MpAllocReturn, Return, mbVars
<1>1. QueueTypeOK'
  BY DEF QueueTypeOK, MpTypeOK, MbTypeOK, Timeouts
<1>2. Lists'
  BY DEF Lists, QueueTypeOK, MpTypeOK
<1>3. Points'
  BY DEF Points, PointsOf, QueueTypeOK, MpTypeOK
<1>4. \A u \in Threads, b \in Blocks : Owns(u, b)' <=> Owns(u, b)
  BY DEF Owns
<1> QED  BY <1>1, <1>2, <1>3, <1>4, RingFrame, OwnerFrame

LEMMA PushCopyKeeps ==
  ASSUME QueueInv, NEW t \in Threads, PushCopy(t)
  PROVE  QueueInv'
<1> USE RtosQueueAssumption
<1> USE DEF QueueInv, PushCopy, MpAllocReturn, MbSendCall
<1>1. QueueTypeOK'
  <2>1. MpTypeOK'
    BY DEF QueueTypeOK, MpTypeOK, Timeouts
  <2>2. MbTypeOK'
    BY DEF QueueTypeOK, MpTypeOK, MbTypeOK, SendPoints
  <2> QED  BY <2>1, <2>2 DEF QueueTypeOK
<1>2. Lists'
  BY DEF Lists, QueueTypeOK, MpTypeOK, MbTypeOK
<1>3. Points'
  BY DEF Points, PointsOf, QueueTypeOK, MpTypeOK, MbTypeOK
<1>4. mb_call[t] = "out"
  BY DEF Points, PointsOf
<1>5. \A u \in Threads, b \in Blocks : Owns(u, b)' <=> Owns(u, b)
  BY <1>4 DEF Owns, QueueTypeOK, MbTypeOK
<1> QED  BY <1>1, <1>2, <1>3, <1>5, RingFrame, OwnerFrame

LEMMA PushSentKeeps ==
  ASSUME QueueInv, NEW t \in Threads, PushSent(t)
  PROVE  QueueInv'
<1> USE RtosQueueAssumption, MemPoolAssumption
<1> USE DEF QueueInv, MbReturn
<1>1. /\ pc[t] = "push_send" /\ mb_call[t] = "sent"
      /\ pc' = [pc EXCEPT ![t] = "idle"]
      /\ ret' = [ret EXCEPT ![t] = "kNoErr"]
      /\ timeout_ms' = [timeout_ms EXCEPT ![t] = "no_wait"]
      /\ msg_tmp' = [msg_tmp EXCEPT ![t] = NoBlock]
      /\ mb_call' = [mb_call EXCEPT ![t] = "out"]
      /\ mb_timeout' = [mb_timeout EXCEPT ![t] = "no_wait"]
      /\ mb_value' = [mb_value EXCEPT ![t] = NoMail]
      /\ UNCHANGED <<mp_state, block_list, block_free_count, suspend_thread,
                     suspend_thread_count, mp_call, mp_time, wild, message, content,
                     mb_state, msg_pool, in_offset, out_offset, entry,
                     suspend_recv_thread, suspend_sender_thread>>
  BY DEF PushSent, Return, Points, PointsOf
<1>2. QueueTypeOK'
  <2>1. MpTypeOK'
    BY <1>1 DEF QueueTypeOK, MpTypeOK
  <2>2. MbTypeOK'
    BY <1>1 DEF QueueTypeOK, MbTypeOK, Timeouts
  <2> QED  BY <1>1, <2>1, <2>2 DEF QueueTypeOK, Timeouts
<1>3. Lists'
  BY <1>1 DEF Lists, QueueTypeOK, MbTypeOK
<1>4. Points'
  BY <1>1 DEF Points, PointsOf, QueueTypeOK, MpTypeOK, MbTypeOK
<1>5. \A u \in Threads, b \in Blocks : Owns(u, b)' <=> Owns(u, b)
  BY <1>1 DEF Owns, QueueTypeOK, MpTypeOK, MbTypeOK
<1> QED  BY <1>1, <1>2, <1>3, <1>4, <1>5, RingFrame, OwnerFrame

LEMMA PopCallKeeps ==
  ASSUME QueueInv, NEW t \in Threads, NEW time \in Timeouts, PopCall(t, time)
  PROVE  QueueInv'
<1> USE DEF QueueInv, PopCall, MbRecvCall, mpVars
<1>1. QueueTypeOK'
  BY DEF QueueTypeOK, MpTypeOK, MbTypeOK, RecvPoints
<1>2. Lists'
  BY DEF Lists, QueueTypeOK, MbTypeOK
<1>3. Points'
  BY DEF Points, PointsOf, QueueTypeOK, MbTypeOK, RecvPoints
<1>4. \A u \in Threads, b \in Blocks : Owns(u, b)' <=> Owns(u, b)
  BY DEF Owns, QueueTypeOK, MbTypeOK
<1> QED  BY <1>1, <1>2, <1>3, <1>4, RingFrame, OwnerFrame

LEMMA PopNoMailKeeps ==
  ASSUME QueueInv, NEW t \in Threads, PopNoMail(t)
  PROVE  QueueInv'
<1> USE RtosQueueAssumption DEF QueueInv, PopNoMail, MbReturn, Return, mpVars
<1>1. QueueTypeOK'
  BY DEF QueueTypeOK, MpTypeOK, MbTypeOK, Timeouts
<1>2. Lists'
  BY DEF Lists, QueueTypeOK, MbTypeOK
<1>3. Points'
  BY DEF Points, PointsOf, QueueTypeOK, MbTypeOK
<1>4. \A u \in Threads, b \in Blocks : Owns(u, b)' <=> Owns(u, b)
  BY DEF Owns, QueueTypeOK, MbTypeOK
<1> QED  BY <1>1, <1>2, <1>3, <1>4, RingFrame, OwnerFrame

\* The block a thread received stays its own when it is copied out.
LEMMA PopCopyKeeps ==
  ASSUME QueueInv, NEW t \in Threads, PopCopy(t)
  PROVE  QueueInv'
<1> USE RtosQueueAssumption, MemPoolAssumption DEF QueueInv, PopCopy, MbReturn
<1>1. mb_value[t] \in Blocks /\ msg_tmp[t] = NoBlock
  BY DEF Points, PointsOf
<1>2. QueueTypeOK'
  <2>1. MpTypeOK'
    BY <1>1 DEF QueueTypeOK, MpTypeOK
  <2>2. MbTypeOK'
    BY DEF QueueTypeOK, MbTypeOK, Timeouts
  <2>3. content[mb_value[t]] \in Messages
    BY <1>1 DEF QueueTypeOK
  <2> QED  BY <2>1, <2>2, <2>3 DEF QueueTypeOK
<1>3. Lists'
  BY DEF Lists, QueueTypeOK, MbTypeOK
<1>4. Points'
  BY <1>1 DEF Points, PointsOf, QueueTypeOK, MpTypeOK, MbTypeOK
<1>5. \A u \in Threads, b \in Blocks : Owns(u, b)' <=> Owns(u, b)
  BY <1>1 DEF Owns, QueueTypeOK, MpTypeOK, MbTypeOK
<1> QED  BY <1>2, <1>3, <1>4, <1>5, RingFrame, OwnerFrame

\* Steps inside rt_mp_alloc.
LEMMA PushAllocKeeps ==
  ASSUME QueueInv, NEW t \in Threads, PushAlloc(t)
  PROVE  QueueInv'
<1> USE DEF QueueInv, mbVars, queueVars
<1>1. /\ pc[t] = "push_alloc"
      /\ MpAllocStep(t)
      /\ UNCHANGED <<mbVars, queueVars>>
  BY DEF PushAlloc
<1>2. ASSUME MpTypeOK'  PROVE QueueTypeOK'
  BY <1>1, <1>2 DEF QueueTypeOK, MbTypeOK
<1>3. Ring'
  BY <1>1, RingFrame
<1>4. CASE MpAllocTake(t)
  <2>1. PICK b \in block_list : msg_tmp' = [msg_tmp EXCEPT ![t] = b]
    BY <1>4 DEF MpAllocTake
  <2>2. b \in Blocks
    BY DEF QueueTypeOK, MpTypeOK
  <2>3. MpTypeOK'
    BY <1>4, <2>1, <2>2 DEF QueueTypeOK, MpTypeOK, MpAllocTake
  <2>4. Lists'
    BY <1>1, <1>4 DEF Lists, QueueTypeOK, MpTypeOK, MpAllocTake
  <2>5. Points'
    BY <1>1, <1>4, <2>1, <2>2 DEF Points, PointsOf, QueueTypeOK, MpTypeOK, MpAllocTake
  <2>6. OneOwner' /\ NoBlockLost'
    BY <1>1, <1>4, AllocMoves
  <2> QED  BY <1>2, <1>3, <2>3, <2>4, <2>5, <2>6
<1>5. ASSUME UNCHANGED <<block_list, block_free_count, msg_tmp>>
      PROVE  OneOwner' /\ NoBlockLost'
  <2>1. \A u \in Threads, b \in Blocks : Owns(u, b)' <=> Owns(u, b)
    BY <1>1, <1>5 DEF Owns
  <2> QED  BY <1>1, <1>5, <2>1, OwnerFrame
<1>6. CASE MpAllocNull(t)
  <2>1. MpTypeOK'
    BY <1>6 DEF QueueTypeOK, MpTypeOK, MpAllocNull
  <2>2. Lists'
    BY <1>1, <1>6 DEF Lists, QueueTypeOK, MpTypeOK, MpAllocNull
  <2>3. Points'
    BY <1>1, <1>6 DEF Points, PointsOf, QueueTypeOK, MpTypeOK, MpAllocNull
  <2>4. OneOwner' /\ NoBlockLost'
    BY <1>5, <1>6 DEF MpAllocNull
  <2> QED  BY <1>2, <1>3, <2>1, <2>2, <2>3, <2>4
<1>7. CASE MpAllocSuspend(t)
  <2>1. /\ suspend_thread' = EnqueueFirst(suspend_thread, t)
        /\ suspend_thread_count' = suspend_thread_count + 1
        /\ mp_call' = [mp_call EXCEPT ![t] = "alloc_wait"]
        /\ mp_call[t] = "alloc"
        /\ UNCHANGED <<mp_state, block_list, block_free_count, mp_time, msg_tmp, wild>>
    BY <1>7 DEF MpAllocSuspend
  <2>2. t \notin Waiting(suspend_thread)
    BY <2>1 DEF Lists
  <2>3. /\ suspend_thread' \in Seq(Threads)
        /\ Len(suspend_thread') = Len(suspend_thread) + 1
        /\ Distinct(suspend_thread')
        /\ Waiting(suspend_thread') = Waiting(suspend_thread) \cup {t}
    BY <2>1, <2>2, EnqueueFirstAdds DEF Lists, QueueTypeOK, MpTypeOK
  <2>4. MpTypeOK'
    BY <2>1, <2>3 DEF QueueTypeOK, MpTypeOK
  <2>5. Lists'
    <3>1. Waiting(suspend_thread') = {u \in Threads : mp_call'[u] = "alloc_wait"}
      BY <2>1, <2>3 DEF Lists, QueueTypeOK, MpTypeOK
    <3>2. Len(suspend_thread') <= suspend_thread_count'
      BY <2>1, <2>3 DEF Lists, QueueTypeOK, MpTypeOK
    <3> QED  BY <1>1, <2>3, <3>1, <3>2 DEF Lists
  <2>6. Points'
    BY <1>1, <2>1 DEF Points, PointsOf, QueueTypeOK, MpTypeOK
  <2>7. OneOwner' /\ NoBlockLost'
    BY <1>5, <2>1
  <2> QED  BY <1>2, <1>3, <2>4, <2>5, <2>6, <2>7
<1>8. CASE MpTimeout(t)
  <2>1. /\ suspend_thread' = Unlink(suspend_thread, t)
        /\ mp_call' = [mp_call EXCEPT ![t] = "alloc_null"]
        /\ mp_call[t] = "alloc_wait"
        /\ UNCHANGED <<mp_state, block_list, block_free_count, suspend_thread_count,
                       mp_time, msg_tmp, wild>>
    BY <1>8 DEF MpTimeout
  <2>2. t \in Waiting(suspend_thread)
    BY <2>1 DEF Lists
  <2>3. /\ suspend_thread' \in Seq(Threads)
        /\ Len(suspend_thread') = Len(suspend_thread) - 1
        /\ Distinct(suspend_thread')
        /\ Waiting(suspend_thread') = Waiting(suspend_thread) \ {t}
    BY <2>1, <2>2, UnlinkRemoves DEF Lists, QueueTypeOK, MpTypeOK
  <2>4. MpTypeOK'
    BY <2>1, <2>3 DEF QueueTypeOK, MpTypeOK
  <2>5. Lists'
    <3>1. Waiting(suspend_thread') = {u \in Threads : mp_call'[u] = "alloc_wait"}
      BY <2>1, <2>3 DEF Lists, QueueTypeOK, MpTypeOK
    <3>2. Len(suspend_thread') <= suspend_thread_count'
      BY <2>1, <2>3 DEF Lists, QueueTypeOK, MpTypeOK
    <3> QED  BY <1>1, <2>3, <3>1, <3>2 DEF Lists
  <2>6. Points'
    BY <1>1, <2>1 DEF Points, PointsOf, QueueTypeOK, MpTypeOK
  <2>7. OneOwner' /\ NoBlockLost'
    BY <1>5, <2>1
  <2> QED  BY <1>2, <1>3, <2>4, <2>5, <2>6, <2>7
<1> QED  BY <1>1, <1>4, <1>6, <1>7, <1>8 DEF MpAllocStep

\* Steps inside rt_mb_send_wait: there is room, so it is always MbSendPut.
LEMMA PushSendKeeps ==
  ASSUME QueueInv, NEW t \in Threads, PushSend(t)
  PROVE  QueueInv'
<1> USE DEF QueueInv, mpVars, queueVars
<1>1. /\ pc[t] = "push_send"
      /\ MbSendStep(t)
      /\ UNCHANGED <<mpVars, queueVars>>
  BY DEF PushSend
<1>2. mb_call[t] # "send_wait" /\ (mb_call[t] = "send" => entry < Size)
  BY <1>1, Room DEF Points, PointsOf
<1>3. Size \in Nat /\ entry \in Nat
  BY MailboxAssumption DEF QueueTypeOK, MbTypeOK
<1>4. MbSendPut(t)
  BY <1>1, <1>2, <1>3 DEF MbSendStep, MbSendFull, MbSendSuspend, MbSendTimeout
<1>5. /\ mb_call'[t] = "sent"
      /\ \A u \in Threads : u # t => \/ mb_call'[u] = mb_call[u]
                                     \/ mb_call[u] = "recv_wait" /\ mb_call'[u] = "recv"
      /\ mb_call' \in [Threads -> {"out"} \cup SendPoints \cup RecvPoints]
      /\ suspend_recv_thread' \in Seq(Threads)
      /\ Distinct(suspend_recv_thread')
      /\ Waiting(suspend_recv_thread') = {u \in Threads : mb_call'[u] = "recv_wait"}
  BY <1>4, PutPoints
<1>6. MbTypeOK'
  <2>1. mb_timeout' \in [Threads -> Timeouts]
    <3>1. CASE suspend_recv_thread = <<>>
      BY <1>4, <3>1 DEF MbSendPut, TimeLeft, QueueTypeOK, MbTypeOK
    <3>2. CASE suspend_recv_thread # <<>>
      <4>1. PICK left \in Remaining(mb_timeout[Head(suspend_recv_thread)]) :
              mb_timeout' = [mb_timeout EXCEPT ![Head(suspend_recv_thread)] = left]
        BY <1>4, <3>2 DEF MbSendPut, TimeLeft
      <4>2. Head(suspend_recv_thread) \in Threads
        BY <3>2, TailRemovesHead DEF Lists, QueueTypeOK, MbTypeOK
      <4>3. left \in Timeouts
        BY <4>2 DEF Remaining, QueueTypeOK, MbTypeOK, Timeouts
      <4> QED  BY <4>1, <4>3 DEF QueueTypeOK, MbTypeOK
    <3> QED  BY <3>1, <3>2
  <2>2. /\ msg_pool' \in [0 .. Size - 1 -> Mails \cup {NoMail}]
        /\ in_offset' \in 0 .. Size - 1
        /\ entry' \in 0 .. Size
        /\ UNCHANGED <<mb_state, out_offset, suspend_sender_thread, mb_value>>
    BY <1>4, MailboxAssumption DEF MbSendPut, NextOffset, QueueTypeOK, MbTypeOK
  <2> QED  BY <1>5, <2>1, <2>2 DEF QueueTypeOK, MbTypeOK
<1>7. QueueTypeOK'
  BY <1>1, <1>6 DEF QueueTypeOK, MpTypeOK
<1>8. Lists'
  BY <1>1, <1>4, <1>5 DEF Lists, MbSendPut
<1>9. Points'
  <2>1. mb_value' = mb_value
    BY <1>4 DEF MbSendPut
  <2>2. ASSUME NEW u \in Threads  PROVE PointsOf(u)'
    BY <1>1, <1>5, <2>1 DEF Points, PointsOf, RecvPoints
  <2> QED  BY <2>2 DEF Points
<1>10. Ring' /\ OneOwner' /\ NoBlockLost'
  BY <1>1, <1>4, PutMoves
<1> QED  BY <1>7, <1>8, <1>9, <1>10

\* Steps inside rt_mb_recv.
LEMMA PopRecvKeeps ==
  ASSUME QueueInv, NEW t \in Threads, PopRecv(t)
  PROVE  QueueInv'
<1> USE DEF QueueInv, mpVars, queueVars
<1>1. /\ pc[t] = "pop_recv"
      /\ MbRecvStep(t)
      /\ UNCHANGED <<mpVars, queueVars>>
  BY DEF PopRecv
<1>2. ASSUME MbTypeOK'  PROVE QueueTypeOK'
  BY <1>1, <1>2 DEF QueueTypeOK, MpTypeOK
<1>3. CASE MbRecvTake(t)
  <2>1. /\ Ring' /\ OneOwner' /\ NoBlockLost'
        /\ mb_call' = [mb_call EXCEPT ![t] = "recvd"]
        /\ mb_timeout' = mb_timeout
        /\ suspend_sender_thread' = <<>>
        /\ mb_value' = [mb_value EXCEPT ![t] = msg_pool[out_offset]]
        /\ msg_pool[out_offset] \in Blocks
        /\ mb_call[t] = "recv"
        /\ UNCHANGED <<mb_state, msg_pool, in_offset, suspend_recv_thread>>
    BY <1>1, <1>3, TakeMoves DEF MbRecvTake
  <2>2. MbTypeOK'
    <3>1. out_offset' \in 0 .. Size - 1 /\ entry' \in 0 .. Size
      BY <1>3, MailboxAssumption DEF QueueTypeOK, MbTypeOK, MbRecvTake, NextOffset
    <3> QED  BY <2>1, <3>1, RtosQueueAssumption DEF QueueTypeOK, MbTypeOK, RecvPoints
  <2>3. Lists'
    BY <1>1, <2>1 DEF Lists, QueueTypeOK, MbTypeOK
  <2>4. Points'
    BY <1>1, <2>1 DEF Points, PointsOf, QueueTypeOK, MbTypeOK, RecvPoints
  <2> QED  BY <1>2, <2>1, <2>2, <2>3, <2>4
<1>4. ASSUME UNCHANGED <<msg_pool, in_offset, out_offset, entry, mb_value>>,
             mb_call[t] # "recvd",
             NEW p \in {"recv_wait", "recv_error"},
             mb_call' = [mb_call EXCEPT ![t] = p]
      PROVE  Ring' /\ OneOwner' /\ NoBlockLost' /\ Points'
  <2>1. \A u \in Threads, b \in Blocks : Owns(u, b)' <=> Owns(u, b)
    BY <1>1, <1>4 DEF Owns, Points, PointsOf, QueueTypeOK, MbTypeOK, RecvPoints
  <2>2. Points'
    BY <1>1, <1>4 DEF Points, PointsOf, QueueTypeOK, MbTypeOK, RecvPoints
  <2> QED  BY <1>1, <1>4, <2>1, <2>2, RingFrame, OwnerFrame
<1>5. CASE MbRecvEmpty(t)
  <2>1. MbTypeOK'
    BY <1>5 DEF QueueTypeOK, MbTypeOK, MbRecvEmpty, RecvPoints
  <2>2. Lists'
    BY <1>1, <1>5 DEF Lists, QueueTypeOK, MbTypeOK, MbRecvEmpty
  <2>3. Ring' /\ OneOwner' /\ NoBlockLost' /\ Points'
    BY <1>4, <1>5 DEF MbRecvEmpty
  <2> QED  BY <1>2, <2>1, <2>2, <2>3
<1>6. CASE MbRecvSuspend(t)
  <2>1. /\ suspend_recv_thread' = EnqueueLast(suspend_recv_thread, t)
        /\ mb_call' = [mb_call EXCEPT ![t] = "recv_wait"]
        /\ mb_call[t] = "recv"
        /\ UNCHANGED <<mb_state, msg_pool, in_offset, out_offset, entry,
                       suspend_sender_thread, mb_timeout, mb_value>>
    BY <1>6 DEF MbRecvSuspend
  <2>2. t \notin Waiting(suspend_recv_thread)
    BY <2>1 DEF Lists
  <2>3. /\ suspend_recv_thread' \in Seq(Threads)
        /\ Distinct(suspend_recv_thread')
        /\ Waiting(suspend_recv_thread') = Waiting(suspend_recv_thread) \cup {t}
    BY <2>1, <2>2, EnqueueLastAdds DEF Lists, QueueTypeOK, MbTypeOK
  <2>4. MbTypeOK'
    BY <2>1, <2>3 DEF QueueTypeOK, MbTypeOK, RecvPoints
  <2>5. Waiting(suspend_recv_thread') = {u \in Threads : mb_call'[u] = "recv_wait"}
    BY <2>1, <2>3 DEF Lists, QueueTypeOK, MbTypeOK
  <2>6. Lists'
    BY <1>1, <2>1, <2>3, <2>5 DEF Lists
  <2>7. Ring' /\ OneOwner' /\ NoBlockLost' /\ Points'
    BY <1>4, <2>1
  <2> QED  BY <1>2, <2>4, <2>6, <2>7
<1>7. CASE MbRecvTimeout(t)
  <2>1. /\ suspend_recv_thread' = Unlink(suspend_recv_thread, t)
        /\ mb_call' = [mb_call EXCEPT ![t] = "recv_error"]
        /\ mb_call[t] = "recv_wait"
        /\ UNCHANGED <<mb_state, msg_pool, in_offset, out_offset, entry,
                       suspend_sender_thread, mb_timeout, mb_value>>
    BY <1>7 DEF MbRecvTimeout
  <2>2. t \in Waiting(suspend_recv_thread)
    BY <2>1 DEF Lists
  <2>3. /\ suspend_recv_thread' \in Seq(Threads)
        /\ Distinct(suspend_recv_thread')
        /\ Waiting(suspend_recv_thread') = Waiting(suspend_recv_thread) \ {t}
    BY <2>1, <2>2, UnlinkRemoves DEF Lists, QueueTypeOK, MbTypeOK
  <2>4. MbTypeOK'
    BY <2>1, <2>3 DEF QueueTypeOK, MbTypeOK, RecvPoints
  <2>5. Waiting(suspend_recv_thread') = {u \in Threads : mb_call'[u] = "recv_wait"}
    BY <2>1, <2>3 DEF Lists, QueueTypeOK, MbTypeOK
  <2>6. Lists'
    BY <1>1, <2>1, <2>3, <2>5 DEF Lists
  <2>7. Ring' /\ OneOwner' /\ NoBlockLost' /\ Points'
    BY <1>4, <2>1
  <2> QED  BY <1>2, <2>4, <2>6, <2>7
<1> QED  BY <1>1, <1>3, <1>5, <1>6, <1>7 DEF MbRecvStep

\* rt_mp_free, with the thread it resumes, if it finds one.
LEMMA FreeKeeps ==
  ASSUME QueueInv, NEW t \in Threads, Free(t)
  PROVE  QueueInv'
<1> USE DEF QueueInv, mbVars
<1>1. /\ pc[t] = "pop_free"
      /\ MpFree(t)
      /\ MpLinkBlock(t)
      /\ pc' = [pc EXCEPT ![t] = "idle"]
      /\ timeout_ms' = [timeout_ms EXCEPT ![t] = "no_wait"]
      /\ ret' = [ret EXCEPT ![t] = "kNoErr"]
      /\ UNCHANGED <<mbVars, message, content>>
  BY DEF Free, Return, MpFree, MpFreeQuiet, MpFreeResume, MpFreeWild, Points, PointsOf
<1>2. OneOwner' /\ NoBlockLost' /\ Ring'
  BY <1>1, FreeMoves, RingFrame
<1>3. /\ mp_state' = mp_state
      /\ block_list' \in SUBSET Blocks
      /\ block_free_count' \in Nat
      /\ msg_tmp' = [msg_tmp EXCEPT ![t] = NoBlock]
      /\ msg_tmp' \in [Threads -> Blocks \cup {NoBlock}]
      /\ mp_call[t] = "out" /\ mb_call[t] = "out"
  BY <1>1 DEF QueueTypeOK, MpTypeOK, MpLinkBlock, Points, PointsOf
<1>4. ASSUME MpTypeOK'  PROVE QueueTypeOK'
  BY <1>1, <1>4 DEF QueueTypeOK, MbTypeOK, Timeouts
<1>5. CASE suspend_thread = <<>>
  <2>1. /\ UNCHANGED <<suspend_thread, mp_call, mp_time>>
        /\ suspend_thread_count' \in Nat
        /\ wild' \in {"no", "written", "scheduled"}
    BY <1>1, <1>5 DEF MpFree, MpFreeQuiet, MpFreeResume, MpFreeWild, QueueTypeOK, MpTypeOK
  <2>2. QueueTypeOK'
    BY <1>3, <1>4, <2>1 DEF QueueTypeOK, MpTypeOK
  <2>3. Len(suspend_thread') = 0
    BY <1>5, <2>1
  <2>4. Lists'
    BY <1>1, <2>1, <2>3 DEF Lists
  <2>5. Points'
    BY <1>1, <1>3, <2>1 DEF Points, PointsOf, QueueTypeOK, MpTypeOK
  <2> QED  BY <1>2, <2>2, <2>4, <2>5
<1>6. CASE suspend_thread # <<>>
  <2> DEFINE w == Head(suspend_thread)
  <2>1. /\ w \in Threads /\ w \in Waiting(suspend_thread)
        /\ Tail(suspend_thread) \in Seq(Threads)
        /\ Len(Tail(suspend_thread)) = Len(suspend_thread) - 1
        /\ Len(suspend_thread) \in Nat \ {0}
        /\ Distinct(Tail(suspend_thread))
        /\ Waiting(Tail(suspend_thread)) = Waiting(suspend_thread) \ {w}
    BY <1>6, TailRemovesHead DEF Lists, QueueTypeOK, MpTypeOK
  <2>2. suspend_thread_count \in Nat /\ suspend_thread_count > 0
    BY <2>1 DEF Lists, QueueTypeOK, MpTypeOK
  <2>3. MpFreeResume(t)
    BY <1>1, <1>6, <2>2 DEF MpFree, MpFreeQuiet, MpFreeWild
  <2>4. PICK left \in Remaining(mp_time[w]) :
          /\ suspend_thread' = Tail(suspend_thread)
          /\ suspend_thread_count' = suspend_thread_count - 1
          /\ mp_call' = [mp_call EXCEPT ![w] = "alloc"]
          /\ mp_time' = [mp_time EXCEPT ![w] = left]
          /\ wild' = wild
    BY <2>3 DEF MpFreeResume
  <2> HIDE DEF w
  <2>5. mp_call[w] = "alloc_wait" /\ w # t
    BY <1>3, <2>1 DEF Lists
  <2>6. left \in Timeouts
    BY <2>1 DEF Remaining, QueueTypeOK, MpTypeOK, Timeouts
  <2>7. QueueTypeOK'
    BY <1>3, <1>4, <2>1, <2>2, <2>4, <2>6 DEF QueueTypeOK, MpTypeOK
  <2>8. Lists'
    <3>1. Waiting(suspend_thread') = {u \in Threads : mp_call'[u] = "alloc_wait"}
      BY <2>1, <2>4, <2>5 DEF Lists, QueueTypeOK, MpTypeOK
    <3>2. Len(suspend_thread') <= suspend_thread_count'
      BY <2>1, <2>2, <2>4 DEF Lists
    <3> QED  BY <1>1, <2>1, <2>4, <3>1, <3>2 DEF Lists
  <2>9. Points'
    BY <1>1, <1>3, <2>1, <2>4, <2>5 DEF Points, PointsOf, QueueTypeOK, MpTypeOK
  <2> QED  BY <1>2, <2>7, <2>8, <2>9
<1> QED  BY <1>5, <1>6

\* rtos_deinit_queue: states of the mailbox and the pool change, waiting
\* threads are sent home, blocks stay where they are.

LEMMA DeinitCallsKeep ==
  ASSUME QueueInv, DeinitCall \/ DeinitPoolCall
  PROVE  QueueInv'
<1> USE DEF QueueInv, DeinitCall, DeinitPoolCall, MbDeleteCall, MpDeleteCall,
            mpVars, mbVars, queueVars
<1>1. QueueTypeOK'
  BY DEF QueueTypeOK, MpTypeOK, MbTypeOK
<1>2. Lists'
  BY DEF Lists
<1>3. Points'
  BY DEF Points, PointsOf
<1>4. \A u \in Threads, b \in Blocks : Owns(u, b)' <=> Owns(u, b)
  BY DEF Owns
<1> QED  BY <1>1, <1>2, <1>3, <1>4, RingFrame, OwnerFrame

\* A step of rt_mb_delete resumes the first receiver, or changes only the
\* state of the mailbox.
LEMMA DeinitMailboxIs ==
  ASSUME QueueInv, DeinitMailbox
  PROVE  /\ mb_state \notin {"live", "freed"} /\ mb_state' # "live"
         /\ mb_state' \in {"deleting", "resume_recv", "lost", "freed"}
         /\ mb_state' = "freed" => suspend_recv_thread' = <<>>
         /\ UNCHANGED <<mpVars, queueVars, msg_pool, in_offset, out_offset, entry,
                        suspend_sender_thread, mb_timeout, mb_value>>
         /\ \/ UNCHANGED <<suspend_recv_thread, mb_call>>
            \/ /\ suspend_recv_thread # <<>>
               /\ suspend_recv_thread' = Tail(suspend_recv_thread)
               /\ mb_call' = [mb_call EXCEPT ![Head(suspend_recv_thread)] = "recv_error"]
<1>1. suspend_sender_thread = <<>>
  BY DEF QueueInv, Lists
<1>2. UNCHANGED <<mpVars, queueVars>>
  BY DEF DeinitMailbox
<1>3. CASE MbDeleteTestRecv \/ MbDeleteTestSender \/ MbDeleteHead \/ MbDeleteFree
  BY <1>1, <1>2, <1>3 DEF MbDeleteTestRecv, MbDeleteTestSender, MbDeleteHead, MbDeleteFree
<1>4. CASE MbDeleteResumeRecv \/ MbDeleteResumeSender
  BY <1>1, <1>2, <1>4 DEF MbDeleteResumeRecv, MbDeleteResumeSender
<1> QED  BY <1>3, <1>4 DEF DeinitMailbox, MbDeleteStep

LEMMA DeinitMailboxKeeps ==
  ASSUME QueueInv, DeinitMailbox
  PROVE  QueueInv'
<1> USE DEF QueueInv, mpVars, queueVars
<1>1. /\ mb_state' \in {"deleting", "resume_recv", "lost", "freed"}
      /\ UNCHANGED <<mpVars, queueVars, msg_pool, in_offset, out_offset, entry,
                     suspend_sender_thread, mb_timeout, mb_value>>
      /\ \/ UNCHANGED <<suspend_recv_thread, mb_call>>
         \/ /\ suspend_recv_thread # <<>>
            /\ suspend_recv_thread' = Tail(suspend_recv_thread)
            /\ mb_call' = [mb_call EXCEPT ![Head(suspend_recv_thread)] = "recv_error"]
  BY DeinitMailboxIs
<1>2. CASE UNCHANGED <<suspend_recv_thread, mb_call>>
  <2>1. QueueTypeOK'
    BY <1>1, <1>2 DEF QueueTypeOK, MpTypeOK, MbTypeOK
  <2>2. Lists'
    BY <1>1, <1>2 DEF Lists
  <2>3. Points'
    BY <1>1, <1>2 DEF Points, PointsOf
  <2>4. \A u \in Threads, b \in Blocks : Owns(u, b)' <=> Owns(u, b)
    BY <1>1, <1>2 DEF Owns
  <2> QED  BY <1>1, <2>1, <2>2, <2>3, <2>4, RingFrame, OwnerFrame
<1>3. CASE ~UNCHANGED <<suspend_recv_thread, mb_call>>
  <2> DEFINE w == Head(suspend_recv_thread)
  <2>1. /\ suspend_recv_thread # <<>>
        /\ suspend_recv_thread' = Tail(suspend_recv_thread)
        /\ mb_call' = [mb_call EXCEPT ![w] = "recv_error"]
    BY <1>1, <1>3
  <2>2. /\ w \in Threads /\ w \in Waiting(suspend_recv_thread)
        /\ Tail(suspend_recv_thread) \in Seq(Threads)
        /\ Distinct(Tail(suspend_recv_thread))
        /\ Waiting(Tail(suspend_recv_thread)) = Waiting(suspend_recv_thread) \ {w}
    BY <2>1, TailRemovesHead DEF Lists, QueueTypeOK, MbTypeOK
  <2> HIDE DEF w
  <2>3. mb_call[w] = "recv_wait"
    BY <2>2 DEF Lists
  <2>4. pc[w] = "pop_recv"
    BY <2>2, <2>3 DEF Points, PointsOf, QueueTypeOK
  <2>5. QueueTypeOK'
    <3>1. MbTypeOK'
      BY <1>1, <2>1, <2>2 DEF QueueTypeOK, MbTypeOK, RecvPoints
    <3> QED  BY <1>1, <3>1 DEF QueueTypeOK, MpTypeOK
  <2>6. Waiting(suspend_recv_thread') = {u \in Threads : mb_call'[u] = "recv_wait"}
    BY <2>1, <2>2 DEF Lists, QueueTypeOK, MbTypeOK
  <2>7. Lists'
    BY <1>1, <2>1, <2>2, <2>6 DEF Lists
  <2>8. Points'
    BY <1>1, <2>1, <2>2, <2>3, <2>4 DEF Points, PointsOf, QueueTypeOK, MbTypeOK, RecvPoints
  <2>9. \A u \in Threads, b \in Blocks : Owns(u, b)' <=> Owns(u, b)
    BY <1>1, <2>1, <2>2, <2>3 DEF Owns, QueueTypeOK, MbTypeOK
  <2> QED  BY <1>1, <2>5, <2>7, <2>8, <2>9, RingFrame, OwnerFrame
<1> QED  BY <1>2, <1>3

\* A step of rt_mp_delete resumes the first thread, or takes the list head
\* for one, or changes only the state of the pool.
LEMMA DeinitPoolIs ==
  ASSUME DeinitPool
  PROVE  /\ mp_state \in {"deleting", "resuming"}
         /\ mp_state' \in {"deleting", "resuming", "lost", "freed"}
         /\ mp_state' = "freed" => suspend_thread' = <<>>
         /\ mp_state' = "resuming" => /\ suspend_thread # <<>>
                                      /\ suspend_thread_count' = suspend_thread_count
         /\ UNCHANGED <<mbVars, queueVars, block_list, block_free_count, mp_time, msg_tmp, wild>>
         /\ \/ UNCHANGED <<suspend_thread, suspend_thread_count, mp_call>>
            \/ /\ mp_state = "resuming" /\ suspend_thread = <<>>
               /\ suspend_thread_count' = suspend_thread_count - 1
               /\ UNCHANGED <<suspend_thread, mp_call>>
            \/ /\ suspend_thread # <<>>
               /\ suspend_thread' = Tail(suspend_thread)
               /\ suspend_thread_count' = suspend_thread_count - 1
               /\ mp_call' = [mp_call EXCEPT ![Head(suspend_thread)] = "alloc_null"]
<1>1. UNCHANGED <<mbVars, queueVars>>
  BY DEF DeinitPool
<1>2. CASE MpDeleteTest \/ MpDeleteFree
  BY <1>1, <1>2 DEF MpDeleteTest, MpDeleteFree
<1>3. CASE MpDeleteResume \/ MpDeleteHead
  BY <1>1, <1>3 DEF MpDeleteResume, MpDeleteHead
<1> QED  BY <1>2, <1>3 DEF DeinitPool, MpDeleteStep

LEMMA DeinitPoolKeeps ==
  ASSUME QueueInv, Counted, DeinitPool
  PROVE  QueueInv'
<1> USE DEF QueueInv, mbVars, queueVars
<1>1. /\ mp_state' \in {"deleting", "resuming", "lost", "freed"}
      /\ UNCHANGED <<mbVars, queueVars, block_list, block_free_count, mp_time, msg_tmp, wild>>
      /\ \/ UNCHANGED <<suspend_thread, suspend_thread_count, mp_call>>
         \/ /\ mp_state = "resuming" /\ suspend_thread = <<>>
            /\ suspend_thread_count' = suspend_thread_count - 1
            /\ UNCHANGED <<suspend_thread, mp_call>>
         \/ /\ suspend_thread # <<>>
            /\ suspend_thread' = Tail(suspend_thread)
            /\ suspend_thread_count' = suspend_thread_count - 1
            /\ mp_call' = [mp_call EXCEPT ![Head(suspend_thread)] = "alloc_null"]
  BY DeinitPoolIs
<1>2. \A u \in Threads, b \in Blocks : Owns(u, b)' <=> Owns(u, b)
  BY <1>1 DEF Owns
<1>3. CASE UNCHANGED <<suspend_thread, mp_call>>
  <2>1. suspend_thread_count' \in Nat /\ Len(suspend_thread') <= suspend_thread_count'
    BY <1>1, <1>3 DEF Counted, Lists, QueueTypeOK, MpTypeOK
  <2>2. QueueTypeOK'
    BY <1>1, <1>3, <2>1 DEF QueueTypeOK, MpTypeOK, MbTypeOK
  <2>3. Lists'
    BY <1>1, <1>3, <2>1 DEF Lists
  <2>4. Points'
    BY <1>1, <1>3 DEF Points, PointsOf
  <2> QED  BY <1>1, <1>2, <2>2, <2>3, <2>4, RingFrame, OwnerFrame
<1>4. CASE ~UNCHANGED <<suspend_thread, mp_call>>
  <2> DEFINE w == Head(suspend_thread)
  <2>1. /\ suspend_thread # <<>>
        /\ suspend_thread' = Tail(suspend_thread)
        /\ suspend_thread_count' = suspend_thread_count - 1
        /\ mp_call' = [mp_call EXCEPT ![w] = "alloc_null"]
    BY <1>1, <1>4
  <2>2. /\ w \in Threads /\ w \in Waiting(suspend_thread)
        /\ Tail(suspend_thread) \in Seq(Threads)
        /\ Len(Tail(suspend_thread)) = Len(suspend_thread) - 1
        /\ Len(suspend_thread) \in Nat \ {0}
        /\ Distinct(Tail(suspend_thread))
        /\ Waiting(Tail(suspend_thread)) = Waiting(suspend_thread) \ {w}
    BY <2>1, TailRemovesHead DEF Lists, QueueTypeOK, MpTypeOK
  <2> HIDE DEF w
  <2>3. mp_call[w] = "alloc_wait"
    BY <2>2 DEF Lists
  <2>4. pc[w] = "push_alloc"
    BY <2>2, <2>3 DEF Points, PointsOf, QueueTypeOK
  <2>5. suspend_thread_count' \in Nat /\ Len(suspend_thread') <= suspend_thread_count'
    BY <2>1, <2>2 DEF Lists, QueueTypeOK, MpTypeOK
  <2>6. QueueTypeOK'
    <3>1. MpTypeOK'
      BY <1>1, <2>1, <2>2, <2>5 DEF QueueTypeOK, MpTypeOK
    <3> QED  BY <1>1, <3>1 DEF QueueTypeOK, MbTypeOK
  <2>7. Waiting(suspend_thread') = {u \in Threads : mp_call'[u] = "alloc_wait"}
    BY <2>1, <2>2 DEF Lists, QueueTypeOK, MpTypeOK
  <2>8. Lists'
    BY <1>1, <2>1, <2>2, <2>5, <2>7 DEF Lists
  <2>9. Points'
    BY <1>1, <2>1, <2>2, <2>3, <2>4 DEF Points, PointsOf, QueueTypeOK, MpTypeOK
  <2> QED  BY <1>1, <1>2, <2>6, <2>8, <2>9, RingFrame, OwnerFrame
<1> QED  BY <1>3, <1>4

\* Every step of the queue keeps the invariant.
LEMMA NextKeeps ==
  ASSUME QueueInv, Counted, [Next]_vars
  PROVE  QueueInv'
<1>1. CASE UNCHANGED vars
  <2> USE <1>1 DEF QueueInv, vars, mpVars, mbVars, queueVars
  <2>1. QueueTypeOK' /\ Lists' /\ Points'
    BY DEF QueueTypeOK, MpTypeOK, MbTypeOK, Lists, Points, PointsOf
  <2>2. \A u \in Threads, b \in Blocks : Owns(u, b)' <=> Owns(u, b)
    BY DEF Owns
  <2> QED  BY <2>1, <2>2, RingFrame, OwnerFrame
<1>2. ASSUME NEW t \in Threads, NEW m \in Messages, NEW time \in Timeouts,
             PushCall(t, m, time)
      PROVE  QueueInv'
  BY <1>2, PushCallKeeps
<1>3. ASSUME NEW t \in Threads, NEW time \in Timeouts, PopCall(t, time)
      PROVE  QueueInv'
  BY <1>3, PopCallKeeps
<1>4. ASSUME NEW t \in Threads, Step(t)
      PROVE  QueueInv'
  <2>1. CASE PushAlloc(t)    BY <2>1, PushAllocKeeps
  <2>2. CASE PushNoBlock(t)  BY <2>2, PushNoBlockKeeps
  <2>3. CASE PushCopy(t)     BY <2>3, PushCopyKeeps
  <2>4. CASE PushSend(t)     BY <2>4, PushSendKeeps
  <2>5. CASE PushSent(t)     BY <2>5, PushSentKeeps
  <2>6. CASE PopRecv(t)      BY <2>6, PopRecvKeeps
  <2>7. CASE PopNoMail(t)    BY <2>7, PopNoMailKeeps
  <2>8. CASE PopCopy(t)      BY <2>8, PopCopyKeeps
  <2>9. CASE Free(t)         BY <2>9, FreeKeeps
  <2> QED  BY <1>4, <2>1, <2>2, <2>3, <2>4, <2>5, <2>6, <2>7, <2>8, <2>9 DEF Step
<1>5. CASE DeinitCall \/ DeinitPoolCall
  BY <1>5, DeinitCallsKeep
<1>6. CASE DeinitMailbox
  BY <1>6, DeinitMailboxKeeps
<1>7. CASE DeinitPool
  BY <1>7, DeinitPoolKeeps
<1> QED  BY <1>1, <1>2, <1>3, <1>4, <1>5, <1>6, <1>7 DEF Next

-----------------------------------------------------------------------------
(* What the refinement and rtos_deinit_queue need besides QueueInv *)

\* The layers below see the waiting time of the call, and they fail a call
\* that waits without a limit only when the queue is being deleted.
TimedAt(t) ==
  /\ pc[t] = "push_alloc" =>
       /\ mp_time[t] = "forever" <=> timeout_ms[t] = "forever"
       /\ mp_call[t] = "alloc_null" /\ mp_time[t] = "forever" => mb_state # "live"
  /\ pc[t] = "pop_recv" =>
       /\ mb_timeout[t] = "forever" <=> timeout_ms[t] = "forever"
       /\ mb_call[t] = "recv_error" /\ mb_timeout[t] = "forever" => mb_state # "live"

Timed == \A t \in Threads : TimedAt(t)

\* A block on its way to the mailbox holds its sender's message.
Written == \A t \in Threads : mb_call[t] = "send" => content[msg_tmp[t]] = message[t]

\* Once rtos_deinit_queue has begun, threads only leave; the mailbox is freed
\* when nobody waits for a mail, the pool after it when nobody waits for a
\* block.
Deserted ==
  /\ mb_state # "live" =>
       \A t \in Threads : \/ pc[t] = "idle"
                          \/ pc[t] = "push_alloc" /\ mp_call[t] \in {"alloc_wait", "alloc_null"}
                          \/ pc[t] = "pop_recv" /\ mb_call[t] \in {"recv_wait", "recv_error"}
  /\ mb_state = "freed" => suspend_recv_thread = <<>>
  /\ mp_state # "live" => mb_state = "freed"
  /\ mp_state = "freed" => suspend_thread = <<>>

FifoInv == Timed /\ Written /\ Deserted /\ Counted

LEMMA FifoInvInit ==
  ASSUME Init
  PROVE  FifoInv
BY DEF Init, MpInit, MbInit, FifoInv, Timed, TimedAt, Written, Deserted, Counted

\* A thread waits for a block or a mail, and nowhere else.
LEMMA WaitersAre ==
  ASSUME QueueInv
  PROVE  /\ suspend_thread # <<>> =>
              /\ Head(suspend_thread) \in Threads
              /\ mp_call[Head(suspend_thread)] = "alloc_wait"
              /\ pc[Head(suspend_thread)] = "push_alloc"
              /\ mb_call[Head(suspend_thread)] = "out"
         /\ suspend_recv_thread # <<>> =>
              /\ Head(suspend_recv_thread) \in Threads
              /\ mb_call[Head(suspend_recv_thread)] = "recv_wait"
              /\ pc[Head(suspend_recv_thread)] = "pop_recv"
              /\ mp_call[Head(suspend_recv_thread)] = "out"
<1>1. ASSUME suspend_thread # <<>>
      PROVE  /\ Head(suspend_thread) \in Threads
             /\ mp_call[Head(suspend_thread)] = "alloc_wait"
  BY <1>1, TailRemovesHead DEF QueueInv, Lists, QueueTypeOK, MpTypeOK
<1>2. ASSUME suspend_recv_thread # <<>>
      PROVE  /\ Head(suspend_recv_thread) \in Threads
             /\ mb_call[Head(suspend_recv_thread)] = "recv_wait"
  BY <1>2, TailRemovesHead DEF QueueInv, Lists, QueueTypeOK, MbTypeOK
<1>3. ASSUME NEW t \in Threads, mp_call[t] = "alloc_wait"
      PROVE  pc[t] = "push_alloc" /\ mb_call[t] = "out"
  BY <1>3 DEF QueueInv, Points, PointsOf, QueueTypeOK
<1>4. ASSUME NEW t \in Threads, mb_call[t] = "recv_wait"
      PROVE  pc[t] = "pop_recv" /\ mp_call[t] = "out"
  BY <1>4 DEF QueueInv, Points, PointsOf, QueueTypeOK, RecvPoints
<1> QED  BY <1>1, <1>2, <1>3, <1>4

\* A send is always MbSendPut.
LEMMA SendIsPut ==
  ASSUME QueueInv, NEW t \in Threads, PushSend(t)
  PROVE  /\ pc[t] = "push_send" /\ mb_call[t] = "send"
         /\ entry < Size
         /\ MbSendPut(t)
         /\ UNCHANGED <<mpVars, queueVars>>
<1>1. pc[t] = "push_send" /\ MbSendStep(t) /\ UNCHANGED <<mpVars, queueVars>>
  BY DEF PushSend
<1>2. mb_call[t] # "send_wait" /\ (mb_call[t] = "send" => entry < Size)
  BY <1>1, Room DEF QueueInv, Points, PointsOf
<1>3. Size \in Nat /\ entry \in Nat
  BY MailboxAssumption DEF QueueInv, QueueTypeOK, MbTypeOK
<1> QED
  BY <1>1, <1>2, <1>3 DEF MbSendStep, MbSendFull, MbSendSuspend, MbSendTimeout, MbSendPut

LEMMA TimedKeeps ==
  ASSUME QueueInv, FifoInv, Next
  PROVE  Timed'
<1> USE DEF QueueInv, FifoInv
<1> SUFFICES ASSUME NEW u \in Threads  PROVE TimedAt(u)'
  BY DEF Timed
<1>0. /\ mp_call \in [Threads -> {"out", "alloc", "alloc_wait", "alloced", "alloc_null"}]
      /\ mp_time \in [Threads -> Timeouts]
      /\ mb_call \in [Threads -> {"out"} \cup SendPoints \cup RecvPoints]
      /\ mb_timeout \in [Threads -> Timeouts]
      /\ pc \in [Threads -> {"idle", "push_alloc", "push_send", "push_undo",
                             "pop_recv", "pop_free"}]
      /\ timeout_ms \in [Threads -> Timeouts]
  BY DEF QueueTypeOK, MpTypeOK, MbTypeOK
<1>1. ASSUME NEW t \in Threads, NEW m \in Messages, NEW time \in Timeouts, PushCall(t, m, time)
      PROVE  TimedAt(u)'
  BY <1>0, <1>1 DEF PushCall, MpAllocCall, Timed, TimedAt, mbVars
<1>2. ASSUME NEW t \in Threads, NEW time \in Timeouts, PopCall(t, time)
      PROVE  TimedAt(u)'
  BY <1>0, <1>2 DEF PopCall, MbRecvCall, Timed, TimedAt, mpVars
<1>3. ASSUME NEW t \in Threads, PushAlloc(t)
      PROVE  TimedAt(u)'
  BY <1>0, <1>3 DEF PushAlloc, MpAllocStep, MpAllocTake, MpAllocNull, MpAllocSuspend, MpTimeout,
                    Timed, TimedAt, mbVars, queueVars
<1>4. ASSUME NEW t \in Threads,
             PushNoBlock(t) \/ PushCopy(t) \/ PushSent(t) \/ PopNoMail(t) \/ PopCopy(t)
      PROVE  TimedAt(u)'
  <2>1. CASE PushNoBlock(t)
    BY <1>0, <2>1 DEF PushNoBlock, MpAllocReturn, Return, Timed, TimedAt, mbVars
  <2>2. CASE PushCopy(t)
    BY <1>0, <2>2 DEF PushCopy, MpAllocReturn, MbSendCall, Timed, TimedAt
  <2>3. CASE PushSent(t)
    BY <1>0, <2>3 DEF PushSent, MbReturn, Return, Timed, TimedAt
  <2>4. CASE PopNoMail(t)
    BY <1>0, <2>4 DEF PopNoMail, MbReturn, Return, Timed, TimedAt, mpVars
  <2>5. CASE PopCopy(t)
    BY <1>0, <2>5 DEF PopCopy, MbReturn, Timed, TimedAt
  <2> QED  BY <1>4, <2>1, <2>2, <2>3, <2>4, <2>5
<1>5. ASSUME NEW t \in Threads, PushSend(t)
      PROVE  TimedAt(u)'
  <2>1. /\ MbSendPut(t) /\ pc[t] = "push_send"
        /\ UNCHANGED <<mpVars, queueVars, mb_state>>
    BY <1>5, SendIsPut DEF MbSendPut
  <2>2. mb_call'[u] = "recv_error" => mb_call[u] = "recv_error"
    BY <2>1, PutPoints
  <2>3. mb_timeout'[u] = "forever" <=> mb_timeout[u] = "forever"
    <3>1. CASE suspend_recv_thread = <<>>
      BY <2>1, <3>1 DEF MbSendPut, TimeLeft
    <3>2. CASE suspend_recv_thread # <<>>
      BY <1>0, <2>1, <3>2 DEF MbSendPut, TimeLeft, Remaining
    <3> QED  BY <3>1, <3>2
  <2> QED  BY <2>1, <2>2, <2>3 DEF Timed, TimedAt, mpVars, queueVars
<1>6. ASSUME NEW t \in Threads, PopRecv(t)
      PROVE  TimedAt(u)'
  <2>1. mb_timeout' = mb_timeout /\ mb_state' = mb_state
    BY <1>6 DEF PopRecv, MbRecvStep, MbRecvEmpty, MbRecvSuspend, MbRecvTake, MbRecvTimeout,
                TimeLeft, Lists
  <2>2. mb_call'[u] = "recv_error" =>
          \/ mb_call[u] = "recv_error"
          \/ mb_timeout[u] # "forever"
    BY <1>0, <1>6 DEF PopRecv, MbRecvStep, MbRecvEmpty, MbRecvSuspend, MbRecvTake, MbRecvTimeout,
                Moved, Lists
  <2> QED  BY <1>6, <2>1, <2>2 DEF PopRecv, Timed, TimedAt, mpVars, queueVars
<1>7. ASSUME NEW t \in Threads, Free(t)
      PROVE  TimedAt(u)'
  <2>1. /\ pc' = [pc EXCEPT ![t] = "idle"]
        /\ timeout_ms' = [timeout_ms EXCEPT ![t] = "no_wait"]
        /\ MpFree(t)
        /\ UNCHANGED mbVars
    BY <1>7 DEF Free, Return
  <2>2. /\ mp_call'[u] = "alloc_null" => mp_call[u] = "alloc_null"
        /\ mp_time'[u] = "forever" <=> mp_time[u] = "forever"
    BY <1>0, <2>1 DEF MpFree, MpFreeQuiet, MpFreeResume, MpFreeWild, Remaining
  <2> QED  BY <1>0, <2>1, <2>2 DEF Timed, TimedAt, mbVars
<1>8. CASE DeinitCall \/ DeinitPoolCall
  BY <1>8 DEF DeinitCall, DeinitPoolCall, MbDeleteCall, MpDeleteCall, Timed, TimedAt,
              mpVars, mbVars, queueVars
<1>9. CASE DeinitMailbox
  <2>1. UNCHANGED <<mpVars, queueVars, mb_timeout>> /\ mb_state' # "live"
    BY <1>9, DeinitMailboxIs
  <2> QED  BY <2>1 DEF Timed, TimedAt, mpVars, queueVars
<1>10. CASE DeinitPool
  <2>1. UNCHANGED <<mbVars, queueVars, mp_time>>
    BY <1>10, DeinitPoolIs
  <2>2. mb_state # "live"
    BY <1>10, DeinitPoolIs DEF Deserted
  <2> QED  BY <2>1, <2>2 DEF Timed, TimedAt, mbVars, queueVars
<1> QED
  BY <1>1, <1>2, <1>3, <1>4, <1>5, <1>6, <1>7, <1>8, <1>9, <1>10 DEF Next, Step

LEMMA WrittenKeeps ==
  ASSUME QueueInv, FifoInv, Next
  PROVE  Written'
<1> USE DEF QueueInv, FifoInv
<1> SUFFICES ASSUME NEW u \in Threads, mb_call'[u] = "send"
             PROVE  content'[msg_tmp'[u]] = message'[u]
  BY DEF Written
<1>0. /\ msg_tmp \in [Threads -> Blocks \cup {NoBlock}]
      /\ mb_call \in [Threads -> {"out"} \cup SendPoints \cup RecvPoints]
      /\ content \in [Blocks -> Messages]
      /\ message \in [Threads -> Messages]
  BY DEF QueueTypeOK, MpTypeOK, MbTypeOK
<1>1. ASSUME mb_call[u] = "send",
             UNCHANGED content \/ \E t \in Threads : PushCopy(t),
             message'[u] = message[u], msg_tmp'[u] = msg_tmp[u]
      PROVE  content'[msg_tmp'[u]] = message'[u]
  <2>1. CASE UNCHANGED content
    BY <1>1, <2>1 DEF Written
  <2>2. ASSUME NEW t \in Threads, PushCopy(t)
        PROVE  content'[msg_tmp'[u]] = message'[u]
    <3>1. /\ msg_tmp[t] \in Blocks /\ mb_call[t] = "out"
          /\ content' = [content EXCEPT ![msg_tmp[t]] = message[t]]
      BY <2>2 DEF PushCopy, Points, PointsOf
    <3>2. Owns(t, msg_tmp[t])
      BY <3>1 DEF Owns
    <3>3. msg_tmp[u] # msg_tmp[t]
      <4>1. msg_tmp[u] = msg_tmp[t] => Owns(u, msg_tmp[t])
        BY <1>1 DEF Owns
      <4>2. u # t
        BY <1>1, <3>1
      <4> QED  BY <3>1, <3>2, <4>1, <4>2 DEF OneOwner
    <3>4. content'[msg_tmp[u]] = content[msg_tmp[u]]
      BY <1>0, <3>1, <3>3
    <3> QED  BY <1>1, <3>4 DEF Written
  <2> QED  BY <1>1, <2>1, <2>2
<1>2. pc[u] = "push_send" \/ mb_call[u] # "send"
  BY DEF Points, PointsOf, QueueTypeOK, RecvPoints
<1>3. ASSUME NEW t \in Threads, NEW m \in Messages, NEW time \in Timeouts, PushCall(t, m, time)
      PROVE  content'[msg_tmp'[u]] = message'[u]
  BY <1>0, <1>1, <1>2, <1>3 DEF PushCall, MpAllocCall, mbVars
<1>4. ASSUME NEW t \in Threads, NEW time \in Timeouts, PopCall(t, time)
      PROVE  content'[msg_tmp'[u]] = message'[u]
  BY <1>0, <1>1, <1>4 DEF PopCall, MbRecvCall, mpVars
<1>5. ASSUME NEW t \in Threads, PushAlloc(t)
      PROVE  content'[msg_tmp'[u]] = message'[u]
  BY <1>0, <1>1, <1>2, <1>5
     DEF PushAlloc, MpAllocStep, MpAllocTake, MpAllocNull, MpAllocSuspend, MpTimeout,
         mbVars, queueVars
<1>6. ASSUME NEW t \in Threads, PushNoBlock(t)
      PROVE  content'[msg_tmp'[u]] = message'[u]
  BY <1>1, <1>6 DEF PushNoBlock, MpAllocReturn, mbVars
<1>7. ASSUME NEW t \in Threads, PushCopy(t)
      PROVE  content'[msg_tmp'[u]] = message'[u]
  <2>1. CASE u = t
    BY <1>0, <1>7, <2>1 DEF PushCopy, MpAllocReturn, Points, PointsOf
  <2>2. CASE u # t
    BY <1>0, <1>1, <1>7, <2>2 DEF PushCopy, MpAllocReturn, MbSendCall
  <2> QED  BY <2>1, <2>2
<1>8. ASSUME NEW t \in Threads, PushSend(t)
      PROVE  content'[msg_tmp'[u]] = message'[u]
  <2>1. /\ MbSendPut(t) /\ UNCHANGED <<mpVars, queueVars>>
    BY <1>8, SendIsPut
  <2>2. mb_call[u] = "send"
    BY <2>1, PutPoints
  <2> QED  BY <1>1, <2>1, <2>2 DEF mpVars, queueVars
<1>9. ASSUME NEW t \in Threads, PushSent(t) \/ PopNoMail(t) \/ PopCopy(t)
      PROVE  content'[msg_tmp'[u]] = message'[u]
  <2>1. /\ mb_call' = [mb_call EXCEPT ![t] = "out"]
        /\ UNCHANGED content
    BY <1>9 DEF PushSent, PopNoMail, PopCopy, MbReturn
  <2>2. u # t /\ mb_call[u] = "send"
    BY <1>0, <2>1
  <2>3. message'[u] = message[u] /\ msg_tmp'[u] = msg_tmp[u]
    BY <1>0, <1>9, <2>2 DEF PushSent, PopNoMail, PopCopy, Return, mpVars
  <2> QED  BY <1>1, <2>1, <2>2, <2>3
<1>10. ASSUME NEW t \in Threads, PopRecv(t)
       PROVE  content'[msg_tmp'[u]] = message'[u]
  <2>1. mb_call[u] = "send"
    BY <1>0, <1>10 DEF PopRecv, MbRecvStep, MbRecvEmpty, MbRecvSuspend, MbRecvTake, MbRecvTimeout,
                Moved, Lists
  <2> QED  BY <1>1, <1>10, <2>1 DEF PopRecv, mpVars, queueVars
<1>11. ASSUME NEW t \in Threads, Free(t)
       PROVE  content'[msg_tmp'[u]] = message'[u]
  <2>1. /\ pc[t] \in {"pop_free", "push_undo"}
        /\ msg_tmp' = [msg_tmp EXCEPT ![t] = NoBlock]
        /\ UNCHANGED <<mbVars, message, content>>
    BY <1>11 DEF Free, MpFree, MpFreeQuiet, MpFreeResume, MpFreeWild, MpLinkBlock
  <2> QED  BY <1>0, <1>1, <1>2, <2>1 DEF mbVars
<1>12. CASE DeinitCall \/ DeinitPoolCall
  BY <1>1, <1>12 DEF DeinitCall, DeinitPoolCall, MbDeleteCall, MpDeleteCall,
                     mpVars, mbVars, queueVars
<1>13. CASE DeinitMailbox
  <2>1. UNCHANGED <<mpVars, queueVars>>
    BY <1>13 DEF DeinitMailbox
  <2>2. mb_call[u] = "send"
    BY <1>0, <1>13, DeinitMailboxIs
  <2> QED  BY <1>1, <2>1, <2>2 DEF mpVars, queueVars
<1>14. CASE DeinitPool
  BY <1>1, <1>14, DeinitPoolIs DEF mbVars, queueVars
<1> QED
  BY <1>3, <1>4, <1>5, <1>6, <1>7, <1>8, <1>9, <1>10, <1>11, <1>12, <1>13, <1>14 DEF Next, Step

LEMMA DesertedKeeps ==
  ASSUME QueueInv, FifoInv, Next
  PROVE  Deserted'
<1> USE DEF QueueInv, FifoInv
<1> DEFINE Gone(t) == \/ pc[t] = "idle"
                      \/ pc[t] = "push_alloc" /\ mp_call[t] \in {"alloc_wait", "alloc_null"}
                      \/ pc[t] = "pop_recv" /\ mb_call[t] \in {"recv_wait", "recv_error"}
<1>0. /\ mp_call \in [Threads -> {"out", "alloc", "alloc_wait", "alloced", "alloc_null"}]
      /\ mb_call \in [Threads -> {"out"} \cup SendPoints \cup RecvPoints]
      /\ pc \in [Threads -> {"idle", "push_alloc", "push_send", "push_undo",
                             "pop_recv", "pop_free"}]
  BY DEF QueueTypeOK, MpTypeOK, MbTypeOK
<1>1. CASE mb_state = "live"
  <2>1. mp_state = "live"
    BY <1>1 DEF Deserted
  <2>2. CASE DeinitCall
    <3>1. /\ mb_state' = "deleting"
          /\ UNCHANGED <<mp_state, pc, mp_call, mb_call>>
      BY <2>2 DEF DeinitCall, MbDeleteCall, mpVars, queueVars
    <3>2. \A t \in Threads : Gone(t)
      BY <2>2 DEF DeinitCall, Quiet
    <3> QED  BY <2>1, <3>1, <3>2 DEF Deserted
  <2>3. CASE ~DeinitCall
    <3>1. ~DeinitMailbox /\ ~DeinitPoolCall /\ ~DeinitPool
      BY <1>1, <2>1, DeinitMailboxIs, DeinitPoolIs DEF DeinitPoolCall
    <3>2. mb_state' = "live"
      BY <1>1, <2>3, <3>1
         DEF Next, Step, PushCall, PopCall, PushAlloc, PushNoBlock, PushCopy, PushSend,
             PushSent, PopRecv, PopNoMail, PopCopy, Free,
             MbSendCall, MbRecvCall, MbReturn, MbSendStep, MbSendFull, MbSendSuspend, MbSendPut,
             MbSendTimeout, MbRecvStep, MbRecvEmpty, MbRecvSuspend, MbRecvTake, MbRecvTimeout,
             mbVars
    <3>3. mp_state' = "live"
      BY <2>1, <2>3, <3>1
         DEF Next, Step, PushCall, PopCall, PushAlloc, PushNoBlock, PushCopy, PushSend,
             PushSent, PopRecv, PopNoMail, PopCopy, Free,
             MpAllocCall, MpAllocStep, MpAllocTake, MpAllocNull, MpAllocSuspend, MpTimeout,
             MpAllocReturn, MpFree, MpFreeQuiet, MpFreeResume, MpFreeWild, MpLinkBlock, mpVars
    <3> QED  BY <3>2, <3>3 DEF Deserted
  <2> QED  BY <2>2, <2>3
<1>2. CASE mb_state # "live"
  <2>1. \A t \in Threads : Gone(t)
    BY <1>2 DEF Deserted
  <2>2. ASSUME NEW t \in Threads, PushAlloc(t)
        PROVE  Deserted'
    <3>1. /\ mp_call[t] = "alloc_wait" /\ MpTimeout(t) /\ pc[t] = "push_alloc"
          /\ UNCHANGED <<mbVars, queueVars, mp_state>>
      BY <2>1, <2>2 DEF PushAlloc, MpAllocStep, MpAllocTake, MpAllocNull, MpAllocSuspend, MpTimeout
    <3>2. suspend_thread # <<>>
      BY <3>1 DEF Lists, Waiting
    <3>3. mp_call' = [mp_call EXCEPT ![t] = "alloc_null"]
      BY <3>1 DEF MpTimeout
    <3>4. \A u \in Threads : Gone(u)'
      BY <1>0, <2>1, <3>1, <3>3 DEF mbVars, queueVars
    <3> QED  BY <3>1, <3>2, <3>4 DEF Deserted, mbVars
  <2>3. ASSUME NEW t \in Threads, PushNoBlock(t)
        PROVE  Deserted'
    <3>1. \A u \in Threads : Gone(u)'
      BY <1>0, <2>1, <2>3 DEF PushNoBlock, MpAllocReturn, Return, mbVars
    <3> QED  BY <2>3, <3>1 DEF PushNoBlock, MpAllocReturn, Deserted, mbVars
  <2>4. ASSUME NEW t \in Threads, PopRecv(t)
        PROVE  Deserted'
    <3>1. /\ mb_call[t] = "recv_wait" /\ MbRecvTimeout(t) /\ pc[t] = "pop_recv"
          /\ UNCHANGED <<mpVars, queueVars, mb_state>>
      BY <2>1, <2>4 DEF PopRecv, MbRecvStep, MbRecvEmpty, MbRecvSuspend, MbRecvTake, MbRecvTimeout
    <3>2. suspend_recv_thread # <<>>
      BY <3>1 DEF Lists, Waiting
    <3>3. mb_call' = [mb_call EXCEPT ![t] = "recv_error"]
      BY <3>1 DEF MbRecvTimeout
    <3>4. \A u \in Threads : Gone(u)'
      BY <1>0, <2>1, <3>1, <3>3 DEF mpVars, queueVars
    <3> QED  BY <3>1, <3>2, <3>4 DEF Deserted, mpVars
  <2>5. ASSUME NEW t \in Threads, PopNoMail(t)
        PROVE  Deserted'
    <3>1. \A u \in Threads : Gone(u)'
      BY <1>0, <2>1, <2>5 DEF PopNoMail, MbReturn, Return, mpVars
    <3> QED  BY <2>5, <3>1 DEF PopNoMail, MbReturn, Deserted, mpVars
  <2>6. CASE DeinitMailbox
    <3>1. /\ mb_state # "freed" /\ UNCHANGED <<mpVars, queueVars>>
          /\ mb_state' = "freed" => suspend_recv_thread' = <<>>
          /\ \/ UNCHANGED mb_call
             \/ /\ suspend_recv_thread # <<>>
                /\ mb_call' = [mb_call EXCEPT ![Head(suspend_recv_thread)] = "recv_error"]
      BY <2>6, DeinitMailboxIs
    <3>2. mp_state = "live"
      BY <3>1 DEF Deserted
    <3>3. \A u \in Threads : Gone(u)'
      BY <1>0, <2>1, <3>1, WaitersAre DEF mpVars, queueVars
    <3> QED  BY <3>1, <3>2, <3>3 DEF Deserted, mpVars
  <2>7. CASE DeinitPoolCall
    BY <2>1, <2>7 DEF DeinitPoolCall, MpDeleteCall, Deserted, mbVars, queueVars
  <2>8. CASE DeinitPool
    <3>1. /\ mp_state # "live" /\ UNCHANGED <<mbVars, queueVars>>
          /\ mp_state' = "freed" => suspend_thread' = <<>>
          /\ \/ UNCHANGED mp_call
             \/ /\ suspend_thread # <<>>
                /\ mp_call' = [mp_call EXCEPT ![Head(suspend_thread)] = "alloc_null"]
      BY <2>8, DeinitPoolIs
    <3>2. \A u \in Threads : Gone(u)'
      BY <1>0, <2>1, <3>1, WaitersAre DEF mbVars, queueVars
    <3> QED  BY <3>1, <3>2 DEF Deserted, mbVars
  <2>9. \A t \in Threads :
          /\ \A time \in Timeouts : /\ \A m \in Messages : ~PushCall(t, m, time)
                                    /\ ~PopCall(t, time)
          /\ ~PushCopy(t) /\ ~PushSend(t) /\ ~PushSent(t) /\ ~PopCopy(t) /\ ~Free(t)
    BY <1>2, <2>1 DEF PushCall, PopCall, Open, PushCopy, PushSend, PushSent, PopCopy, Free
  <2>10. ~DeinitCall
    BY <1>2 DEF DeinitCall, Open
  <2> QED
    BY <2>2, <2>3, <2>4, <2>5, <2>6, <2>7, <2>8, <2>9, <2>10 DEF Next, Step
<1> QED  BY <1>1, <1>2

\* The pool's own steps keep a thread counted; nobody frees a block any more.
LEMMA CountedKeeps ==
  ASSUME QueueInv, FifoInv, Next
  PROVE  Counted'
<1> USE DEF QueueInv, FifoInv
<1> SUFFICES ASSUME mp_state' = "resuming"  PROVE suspend_thread_count' > 0
  BY DEF Counted
<1>1. CASE DeinitPool
  <2>1. suspend_thread # <<>> /\ suspend_thread_count' = suspend_thread_count
    BY <1>1, DeinitPoolIs
  <2>2. Len(suspend_thread) \in Nat \ {0}
    BY <2>1, TailRemovesHead DEF Lists, QueueTypeOK, MpTypeOK
  <2> QED  BY <2>1, <2>2 DEF Lists, QueueTypeOK, MpTypeOK
<1>2. CASE ~DeinitPool
  <2>1. mp_state = "resuming"
    BY <1>2 DEF Next, Step, PushCall, PopCall, PushAlloc, PushNoBlock, PushCopy, PushSend,
           PushSent, PopRecv, PopNoMail, PopCopy, Free, DeinitCall, DeinitMailbox,
           DeinitPoolCall, MpDeleteCall,
           MpAllocCall, MpAllocStep, MpAllocTake, MpAllocNull, MpAllocSuspend, MpTimeout,
           MpAllocReturn, MpFree, MpFreeQuiet, MpFreeResume, MpFreeWild, MpLinkBlock, mpVars
  <2>2. \A t \in Threads : ~Free(t)
    BY <2>1 DEF Deserted, Free
  <2>3. suspend_thread_count' \in {suspend_thread_count, suspend_thread_count + 1}
    BY <1>2, <2>2
       DEF Next, Step, PushCall, PopCall, PushAlloc, PushNoBlock, PushCopy, PushSend,
           PushSent, PopRecv, PopNoMail, PopCopy, DeinitCall, DeinitMailbox,
           DeinitPoolCall, MpDeleteCall,
           MpAllocCall, MpAllocStep, MpAllocTake, MpAllocNull, MpAllocSuspend, MpTimeout,
           MpAllocReturn, mpVars
  <2> QED  BY <2>1, <2>3 DEF Counted, QueueTypeOK, MpTypeOK
<1> QED  BY <1>1, <1>2

LEMMA FifoInvKeeps ==
  ASSUME QueueInv, FifoInv, [Next]_vars
  PROVE  FifoInv'
<1>1. CASE UNCHANGED vars
  BY <1>1 DEF FifoInv, Timed, TimedAt, Written, Deserted, Counted, vars, mpVars, mbVars, queueVars
<1>2. CASE Next
  BY <1>2, TimedKeeps, WrittenKeeps, DesertedKeeps, CountedKeeps DEF FifoInv
<1> QED  BY <1>1, <1>2

-----------------------------------------------------------------------------
(* Theorems *)

\* The inductive invariant holds of rtos_pub.c's queue over mempool.c's pool
\* and ipc.c's mailbox, for any number of threads, blocks and messages.
THEOREM Invariance == Spec => [](QueueInv /\ FifoInv)
<1>1. Init => QueueInv /\ FifoInv
  BY InitInv, FifoInvInit
<1>2. QueueInv /\ FifoInv /\ [Next]_vars => QueueInv' /\ FifoInv'
  BY NextKeeps, FifoInvKeeps DEF FifoInv
<1> QED  BY <1>1, <1>2, PTL DEF Spec

\* Type correctness: no call of the queue leaves a counter, an offset or a
\* program point outside its range.
THEOREM TypeCorrect == Spec => []QueueTypeOK
<1>1. QueueInv => QueueTypeOK
  BY DEF QueueInv
<1> QED  BY <1>1, Invariance, PTL

\* No block is in two places: rtos_push_to_queue never writes a message into
\* a block whose message is not yet read, whatever the interleaving.
THEOREM OwnershipIsUnique == Spec => []OneOwner
<1>1. QueueInv => OneOwner
  BY DEF QueueInv
<1> QED  BY <1>1, Invariance, PTL

\* rtos_push_to_queue and rtos_pop_from_queue leak no block on any path,
\* early returns and timeouts included.
THEOREM BlocksAreConserved == Spec => []NoBlockLost
<1>1. QueueInv => NoBlockLost
  BY DEF QueueInv
<1> QED  BY <1>1, Invariance, PTL

\* The mailbox of a queue is never full for a thread that has a block, so the
\* branch of rtos_push_to_queue that frees a refused block is never taken.
THEOREM RoomForEveryBlock == Spec => []SendFindsRoom
<1>1. ASSUME QueueInv  PROVE SendFindsRoom
  <2>1. ASSUME NEW t \in Threads
        PROVE  mb_call[t] \notin {"send_wait", "send_error"} /\ pc[t] # "push_undo"
    BY <1>1 DEF QueueInv, QueueTypeOK, Points, PointsOf, RecvPoints
  <2>2. ASSUME NEW t \in Threads, mb_call[t] = "send"
        PROVE  entry < Size
    BY <1>1, <2>2, Room
  <2> QED  BY <2>1, <2>2 DEF SendFindsRoom
<1> QED  BY <1>1, Invariance, PTL

\* Once rtos_deinit_queue has freed the mailbox and the pool, nobody is in
\* them and nobody has a block, whatever threads waited when it was called.
THEOREM NothingFreedIsTouched == Spec => []DeinitUntouched
<1>1. ASSUME QueueInv, FifoInv  PROVE DeinitUntouched
  <2> USE DEF QueueInv, FifoInv
  <2>1. MbFreedUntouched
    BY <1>1 DEF Points, PointsOf, Lists, Waiting, Deserted, MbFreedUntouched
  <2>2. MpFreedUntouched
    BY <1>1 DEF Points, PointsOf, Lists, Waiting, Deserted, MpFreedUntouched
  <2>3. mp_state = "freed" => \A t \in Threads : msg_tmp[t] = NoBlock
    BY <1>1 DEF Points, PointsOf, Deserted
  <2> QED  BY <2>1, <2>2, <2>3 DEF DeinitUntouched
<1>2. QueueInv /\ FifoInv => DeinitUntouched
  BY <1>1
<1> QED  BY <1>2, Invariance, PTL

-----------------------------------------------------------------------------
(* The ring as a sequence *)

LEMMA ModIs ==
  ASSUME NEW n \in Nat \ {0}, NEW k \in 0 .. 2 * n - 1
  PROVE  k % n = IF k < n THEN k ELSE k - n
OBVIOUS

\* A sequence without its head.
LEMMA TailIs ==
  ASSUME NEW S, NEW q \in Seq(S), q # <<>>
  PROVE  Tail(q) = [i \in 1 .. Len(q) - 1 |-> q[i + 1]]
<1> DEFINE rest == [i \in 1 .. Len(q) - 1 |-> q[i + 1]]
<1>1. /\ Tail(q) \in Seq(S)
      /\ Len(Tail(q)) = Len(q) - 1
      /\ \A i \in 1 .. Len(Tail(q)) : Tail(q)[i] = q[i + 1]
  BY HeadTailProperties
<1>2. Len(q) \in Nat \ {0} /\ q \in [1 .. Len(q) -> S]
  BY LenProperties
<1>3. rest \in [1 .. Len(q) - 1 -> S]
  BY <1>2
<1>4. rest \in Seq(S) /\ Len(rest) = Len(q) - 1
  BY <1>2, <1>3
<1>5. \A i \in 1 .. Len(Tail(q)) : Tail(q)[i] = rest[i]
  BY <1>1, <1>2
<1> HIDE DEF rest
<1>6. Tail(q) = rest
  BY <1>1, <1>4, <1>5, SeqEqual
<1> QED  BY <1>6 DEF rest

\* The slot of the i-th mail.
SlotOf(i) == (out_offset + i - 1) % Size

LEMMA SlotIs ==
  ASSUME MbTypeOK, NEW i \in 1 .. entry + 1
  PROVE  SlotOf(i) = IF out_offset + i - 1 < Size THEN out_offset + i - 1
                                                 ELSE out_offset + i - 1 - Size
<1>1. /\ Size \in Nat \ {0} /\ out_offset \in 0 .. Size - 1 /\ entry \in 0 .. Size
  BY MailboxAssumption DEF MbTypeOK
<1> DEFINE k == out_offset + i - 1
<1>2. k \in 0 .. 2 * Size - 1
  BY <1>1
<1>3. SlotOf(i) = k % Size
  BY DEF SlotOf
<1> HIDE DEF k
<1>4. k % Size = IF k < Size THEN k ELSE k - Size
  BY <1>1, <1>2, ModIs
<1>5. SlotOf(i) = IF k < Size THEN k ELSE k - Size
  BY <1>3, <1>4
<1> QED  BY <1>1, <1>2, <1>5 DEF k

\* The mails of the ring are in its occupied slots.
LEMMA SlotOccupied ==
  ASSUME MbTypeOK, Placed, NEW i \in 1 .. entry
  PROVE  SlotOf(i) \in 0 .. Size - 1 /\ Occupied(SlotOf(i))
<1>1. /\ Size \in Nat \ {0} /\ out_offset \in 0 .. Size - 1 /\ entry \in 0 .. Size
      /\ in_offset \in 0 .. Size - 1 /\ i \in 1 .. entry + 1
  BY MailboxAssumption DEF MbTypeOK
<1>2. SlotOf(i) = IF out_offset + i - 1 < Size THEN out_offset + i - 1
                                              ELSE out_offset + i - 1 - Size
  BY <1>1, SlotIs
<1> QED  BY <1>1, <1>2 DEF Placed, Occupied

\* The next mail goes to in_offset, while there is room.
LEMMA NextSlot ==
  ASSUME MbTypeOK, Placed, entry < Size
  PROVE  SlotOf(entry + 1) = in_offset
<1>1. /\ Size \in Nat \ {0} /\ out_offset \in 0 .. Size - 1 /\ entry \in 0 .. Size
      /\ in_offset \in 0 .. Size - 1 /\ entry + 1 \in 1 .. entry + 1
  BY MailboxAssumption DEF MbTypeOK
<1>2. SlotOf(entry + 1) = IF out_offset + entry < Size THEN out_offset + entry
                                                       ELSE out_offset + entry - Size
  BY <1>1, SlotIs
<1> QED  BY <1>1, <1>2 DEF Placed

\* The mapping as the proofs below use it.
LEMMA QueueIs ==
  ASSUME QueueInv
  PROVE  /\ FifoQueue = [i \in 1 .. entry |-> content[msg_pool[SlotOf(i)]]]
         /\ FifoQueue \in Seq(Messages)
         /\ Len(FifoQueue) = entry
         /\ entry \in Nat /\ Size \in Nat
         /\ \A i \in 1 .. entry : msg_pool[SlotOf(i)] \in Queued \cap Blocks
<1>1. /\ entry \in Nat /\ Size \in Nat /\ MbTypeOK /\ Placed
      /\ content \in [Blocks -> Messages]
  BY MailboxAssumption DEF QueueInv, QueueTypeOK, MbTypeOK, Ring
<1>2. FifoQueue = [i \in 1 .. entry |-> content[msg_pool[SlotOf(i)]]]
  BY DEF FifoQueue, SlotOf
<1>3. \A i \in 1 .. entry : msg_pool[SlotOf(i)] \in Queued \cap Blocks
  BY <1>1, SlotOccupied DEF QueueInv, Ring, Queued
<1>4. FifoQueue \in [1 .. entry -> Messages]
  BY <1>1, <1>2, <1>3
<1>5. FifoQueue \in Seq(Messages) /\ Len(FifoQueue) = entry
  BY <1>1, <1>2, <1>4
<1> QED  BY <1>1, <1>2, <1>3, <1>5

\* What neither moves the ring nor writes a block in it leaves the queue.
LEMMA QueueStays ==
  ASSUME QueueInv, UNCHANGED <<msg_pool, in_offset, out_offset, entry>>,
         \A b \in Queued : content'[b] = content[b]
  PROVE  FifoQueue' = FifoQueue
<1>1. FifoQueue' = [i \in 1 .. entry |-> content'[msg_pool[SlotOf(i)]]]
  BY DEF FifoQueue, SlotOf
<1> QED  BY <1>1, QueueIs

\* rt_mb_send_wait appends.
LEMMA PutAppends ==
  ASSUME QueueInv, NEW t \in Threads, MbSendPut(t), entry < Size,
         mb_value[t] \in Blocks, UNCHANGED content
  PROVE  FifoQueue' = Append(FifoQueue, content[mb_value[t]])
<1>1. /\ msg_pool' = [msg_pool EXCEPT ![in_offset] = mb_value[t]]
      /\ entry' = entry + 1 /\ out_offset' = out_offset
      /\ in_offset \in 0 .. Size - 1
      /\ msg_pool \in [0 .. Size - 1 -> Mails \cup {NoMail}]
      /\ MbTypeOK /\ Placed
      /\ content \in [Blocks -> Messages]
  BY DEF MbSendPut, QueueInv, QueueTypeOK, MbTypeOK, Ring
<1>2. FifoQueue' = [i \in 1 .. entry + 1 |-> content[msg_pool'[SlotOf(i)]]]
  BY <1>1 DEF FifoQueue, SlotOf
<1>3. ~Occupied(in_offset)
  BY <1>1, PutFills
<1>4. \A i \in 1 .. entry : msg_pool'[SlotOf(i)] = msg_pool[SlotOf(i)]
  BY <1>1, <1>3, SlotOccupied
<1>5. msg_pool'[SlotOf(entry + 1)] = mb_value[t]
  BY <1>1, NextSlot
<1>6. /\ FifoQueue = [i \in 1 .. entry |-> content[msg_pool[SlotOf(i)]]]
      /\ FifoQueue \in Seq(Messages) /\ Len(FifoQueue) = entry /\ entry \in Nat
  BY QueueIs
<1>7. Append(FifoQueue, content[mb_value[t]])
        = [i \in 1 .. entry + 1 |-> IF i = entry + 1 THEN content[mb_value[t]] ELSE FifoQueue[i]]
  BY <1>1, <1>6
<1> QED  BY <1>2, <1>4, <1>5, <1>6, <1>7

\* rt_mb_recv takes the first.
LEMMA TakeRemoves ==
  ASSUME QueueInv, NEW t \in Threads, MbRecvTake(t), UNCHANGED content
  PROVE  /\ FifoQueue # <<>>
         /\ Head(FifoQueue) = content[msg_pool[out_offset]]
         /\ FifoQueue' = Tail(FifoQueue)
<1>1. /\ msg_pool' = msg_pool /\ entry # 0 /\ entry' = entry - 1
      /\ out_offset' = NextOffset(out_offset)
      /\ out_offset \in 0 .. Size - 1 /\ entry \in 0 .. Size /\ Size \in Nat \ {0}
      /\ MbTypeOK /\ Placed
  BY MailboxAssumption DEF MbRecvTake, QueueInv, QueueTypeOK, MbTypeOK, Ring
<1>2. /\ FifoQueue = [i \in 1 .. entry |-> content[msg_pool[SlotOf(i)]]]
      /\ FifoQueue \in Seq(Messages) /\ Len(FifoQueue) = entry /\ entry \in Nat
  BY QueueIs
<1>3. FifoQueue # <<>>
  BY <1>1, <1>2
<1>4. SlotOf(1) = out_offset
  <2>1. 1 \in 1 .. entry + 1
    BY <1>2
  <2>2. SlotOf(1) = IF out_offset + 1 - 1 < Size THEN out_offset + 1 - 1
                                                 ELSE out_offset + 1 - 1 - Size
    BY <1>1, <2>1, SlotIs
  <2> QED  BY <1>1, <2>2
<1>5. Head(FifoQueue) = content[msg_pool[out_offset]]
  BY <1>1, <1>2, <1>3, <1>4
<1>6. ASSUME NEW i \in 1 .. entry - 1
      PROVE  (out_offset' + i - 1) % Size = SlotOf(i + 1)
  <2>1. i + 1 \in 1 .. entry + 1
    BY <1>1
  <2>2. SlotOf(i + 1) = IF out_offset + (i + 1) - 1 < Size THEN out_offset + (i + 1) - 1
                                                     ELSE out_offset + (i + 1) - 1 - Size
    BY <1>1, <2>1, SlotIs
  <2>3. out_offset' = IF out_offset + 1 >= Size THEN 0 ELSE out_offset + 1
    BY <1>1 DEF NextOffset
  <2> DEFINE k == out_offset' + i - 1
  <2>4. k \in 0 .. 2 * Size - 1
    BY <1>1, <2>3
  <2> HIDE DEF k
  <2>5. k % Size = IF k < Size THEN k ELSE k - Size
    BY <1>1, <2>4, ModIs
  <2> USE DEF k
  <2> QED  BY <1>1, <2>2, <2>3, <2>5
<1>7. FifoQueue' = [i \in 1 .. entry - 1 |-> content[msg_pool[SlotOf(i + 1)]]]
  BY <1>1, <1>6 DEF FifoQueue
<1>8. Tail(FifoQueue) = [i \in 1 .. entry - 1 |-> FifoQueue[i + 1]]
  BY <1>2, <1>3, TailIs
<1>9. \A i \in 1 .. entry - 1 : FifoQueue[i + 1] = content[msg_pool[SlotOf(i + 1)]]
  BY <1>1, <1>2
<1> QED  BY <1>3, <1>5, <1>7, <1>8, <1>9

-----------------------------------------------------------------------------
(* The refinement mapping, thread by thread *)

\* What the points of a call are for the caller.
LEMMA FifoPoints ==
  /\ \A p : FifoPoint("idle", p) = "idle"
  /\ \A p : FifoPoint("push_alloc", p) = "push"
  /\ \A p : FifoPoint("push_send", p) = IF p = "sent" THEN "pushed" ELSE "push"
  /\ \A p : FifoPoint("pop_recv", p) = IF p = "recvd" THEN "popped" ELSE "pop"
  /\ \A p : FifoPoint("pop_free", p) = "popped"
BY DEF FifoPoint

\* What the mapping says of one thread.
LEMMA FifoAt ==
  ASSUME NEW t \in Threads
  PROVE  /\ FifoCall[t] = FifoPoint(pc[t], mb_call[t])
         /\ FifoPatience[t] = IF timeout_ms[t] = "forever" THEN "forever" ELSE "limited"
         /\ FifoLetter[t] = IF mb_call[t] = "recvd" THEN content[mb_value[t]] ELSE message[t]
BY DEF FifoCall, FifoPatience, FifoLetter

\* A step of t whose callers, but that of t, see no difference.
LEMMA CallMoves ==
  ASSUME NEW t \in Threads,
         \A u \in Threads : u # t => FifoPoint(pc'[u], mb_call'[u]) = FifoPoint(pc[u], mb_call[u]),
         NEW point, FifoPoint(pc'[t], mb_call'[t]) = point
  PROVE  FifoCall' = [FifoCall EXCEPT ![t] = point]
BY DEF FifoCall

LEMMA CallStays ==
  ASSUME \A u \in Threads : FifoPoint(pc'[u], mb_call'[u]) = FifoPoint(pc[u], mb_call[u])
  PROVE  FifoCall' = FifoCall
BY DEF FifoCall

LEMMA LetterMoves ==
  ASSUME NEW t \in Threads,
         \A u \in Threads : u # t => FifoLetter'[u] = FifoLetter[u],
         NEW m, FifoLetter'[t] = m
  PROVE  FifoLetter' = [FifoLetter EXCEPT ![t] = m]
BY DEF FifoLetter

LEMMA LetterStays ==
  ASSUME \A u \in Threads : FifoLetter'[u] = FifoLetter[u]
  PROVE  FifoLetter' = FifoLetter
BY DEF FifoLetter

LEMMA LetterAt ==
  ASSUME NEW t \in Threads
  PROVE  FifoLetter'[t] = IF mb_call'[t] = "recvd" THEN content'[mb_value'[t]] ELSE message'[t]
BY DEF FifoLetter

LEMMA PatienceMoves ==
  ASSUME QueueTypeOK, NEW t \in Threads, NEW time \in Timeouts,
         timeout_ms' = [timeout_ms EXCEPT ![t] = time]
  PROVE  FifoPatience' =
           [FifoPatience EXCEPT ![t] = IF time = "forever" THEN "forever" ELSE "limited"]
BY DEF FifoPatience, QueueTypeOK

LEMMA ResultMoves ==
  ASSUME QueueTypeOK, NEW t \in Threads, NEW r \in {"none", "kNoErr", "kGeneralErr"},
         ret' = [ret EXCEPT ![t] = r]
  PROVE  FifoResult' = [FifoResult EXCEPT ![t] = IF r = "kNoErr" THEN "ok"
                                                 ELSE IF r = "kGeneralErr" THEN "error"
                                                 ELSE "none"]
BY DEF FifoResult, QueueTypeOK

LEMMA PatienceStays == timeout_ms' = timeout_ms => FifoPatience' = FifoPatience
BY DEF FifoPatience

LEMMA ResultStays == ret' = ret => FifoResult' = FifoResult
BY DEF FifoResult

LEMMA ClosedStays ==
  ASSUME mb_state' = mb_state
  PROVE  FifoClosed' = FifoClosed
BY DEF FifoClosed

\* Types the steps below need.
LEMMA StepTypes ==
  ASSUME QueueInv
  PROVE  /\ QueueTypeOK
         /\ pc \in [Threads -> {"idle", "push_alloc", "push_send", "push_undo",
                                "pop_recv", "pop_free"}]
         /\ mb_call \in [Threads -> {"out"} \cup SendPoints \cup RecvPoints]
         /\ mb_value \in [Threads -> Blocks \cup {NoBlock}]
         /\ message \in [Threads -> Messages]
         /\ content \in [Blocks -> Messages]
         /\ msg_tmp \in [Threads -> Blocks \cup {NoBlock}]
         /\ ret \in [Threads -> {"none", "kNoErr", "kGeneralErr"}]
BY RtosQueueAssumption DEF QueueInv, QueueTypeOK, MpTypeOK, MbTypeOK

-----------------------------------------------------------------------------
(* Calls and returns *)

LEMMA PushCallMaps ==
  ASSUME QueueInv, NEW t \in Threads, NEW m \in Messages, NEW time \in Timeouts,
         PushCall(t, m, time)
  PROVE  Fifo!FifoCallPush(t)
<1>1. /\ mb_state = "live" /\ pc[t] = "idle"
      /\ pc' = [pc EXCEPT ![t] = "push_alloc"]
      /\ timeout_ms' = [timeout_ms EXCEPT ![t] = time]
      /\ message' = [message EXCEPT ![t] = m]
      /\ ret' = [ret EXCEPT ![t] = "none"]
      /\ UNCHANGED <<mbVars, content>>
  BY DEF PushCall, Open
<1>2. mb_call[t] = "out"
  BY <1>1 DEF QueueInv, Points, PointsOf
<1>3. ~FifoClosed /\ FifoCall[t] = "idle"
  BY <1>1, FifoAt, FifoPoints DEF FifoClosed
<1>4. FifoCall' = [FifoCall EXCEPT ![t] = "push"]
  <2>1. FifoPoint(pc'[t], mb_call'[t]) = "push"
    BY <1>1, StepTypes, FifoPoints
  <2>2. \A u \in Threads : u # t => FifoPoint(pc'[u], mb_call'[u]) = FifoPoint(pc[u], mb_call[u])
    BY <1>1, StepTypes DEF mbVars
  <2> QED  BY <2>1, <2>2, CallMoves
<1>5. \E w \in {"limited", "forever"} : FifoPatience' = [FifoPatience EXCEPT ![t] = w]
  BY <1>1, PatienceMoves, StepTypes
<1>6. FifoLetter' = [FifoLetter EXCEPT ![t] = m]
  <2>1. \A u \in Threads : u # t => FifoLetter'[u] = FifoLetter[u]
    BY <1>1, StepTypes, LetterAt, FifoAt DEF mbVars
  <2>2. FifoLetter'[t] = m
    BY <1>1, <1>2, StepTypes, LetterAt DEF mbVars
  <2> QED  BY <2>1, <2>2, LetterMoves
<1>7. FifoResult' = [FifoResult EXCEPT ![t] = "none"]
  BY <1>1, ResultMoves, StepTypes
<1>8. FifoQueue' = FifoQueue
  BY <1>1, QueueStays DEF mbVars
<1>9. FifoClosed' = FifoClosed
  BY <1>1, ClosedStays DEF mbVars
<1> QED  BY <1>3, <1>4, <1>5, <1>6, <1>7, <1>8, <1>9 DEF Fifo!FifoCallPush

LEMMA PopCallMaps ==
  ASSUME QueueInv, NEW t \in Threads, NEW time \in Timeouts, PopCall(t, time)
  PROVE  Fifo!FifoCallPop(t)
<1>1. /\ mb_state = "live" /\ pc[t] = "idle"
      /\ pc' = [pc EXCEPT ![t] = "pop_recv"]
      /\ timeout_ms' = [timeout_ms EXCEPT ![t] = time]
      /\ ret' = [ret EXCEPT ![t] = "none"]
      /\ mb_call[t] = "out"
      /\ mb_call' = [mb_call EXCEPT ![t] = "recv"]
      /\ UNCHANGED <<mb_state, msg_pool, in_offset, out_offset, entry, mb_value, message, content>>
  BY DEF PopCall, MbRecvCall, Open
<1>2. ~FifoClosed /\ FifoCall[t] = "idle"
  BY <1>1, FifoAt, FifoPoints DEF FifoClosed
<1>3. FifoCall' = [FifoCall EXCEPT ![t] = "pop"]
  <2>1. FifoPoint(pc'[t], mb_call'[t]) = "pop"
    BY <1>1, StepTypes, FifoPoints
  <2>2. \A u \in Threads : u # t => FifoPoint(pc'[u], mb_call'[u]) = FifoPoint(pc[u], mb_call[u])
    BY <1>1, StepTypes
  <2> QED  BY <2>1, <2>2, CallMoves
<1>4. \E w \in {"limited", "forever"} : FifoPatience' = [FifoPatience EXCEPT ![t] = w]
  BY <1>1, PatienceMoves, StepTypes
<1>5. FifoLetter' = FifoLetter
  <2>1. \A u \in Threads : FifoLetter'[u] = FifoLetter[u]
    BY <1>1, StepTypes, LetterAt, FifoAt
  <2> QED  BY <2>1, LetterStays
<1>6. FifoResult' = [FifoResult EXCEPT ![t] = "none"]
  BY <1>1, ResultMoves, StepTypes
<1>7. FifoQueue' = FifoQueue
  BY <1>1, QueueStays
<1>8. FifoClosed' = FifoClosed
  BY <1>1, ClosedStays
<1> QED  BY <1>2, <1>3, <1>4, <1>5, <1>6, <1>7, <1>8 DEF Fifo!FifoCallPop

\* A call that returns, with or without success.
LEMMA ReturnMaps ==
  ASSUME QueueInv, NEW t \in Threads, NEW r \in {"kNoErr", "kGeneralErr"}, Return(t, r),
         mb_call' = [mb_call EXCEPT ![t] = "out"],
         mb_call[t] # "recvd",
         \A u \in Threads \ {t} : mb_value'[u] = mb_value[u],
         UNCHANGED <<mb_state, msg_pool, in_offset, out_offset, entry, message, content>>
  PROVE  /\ r = "kNoErr" /\ FifoCall[t] \in {"pushed", "popped"} => Fifo!FifoReturn(t)
         /\ /\ r = "kGeneralErr" /\ FifoCall[t] \in {"push", "pop"}
            /\ FifoPatience[t] # "forever" \/ FifoClosed
            => Fifo!FifoFail(t)
<1>1. /\ pc' = [pc EXCEPT ![t] = "idle"]
      /\ timeout_ms' = [timeout_ms EXCEPT ![t] = "no_wait"]
      /\ ret' = [ret EXCEPT ![t] = r]
  BY DEF Return
<1>2. FifoCall' = [FifoCall EXCEPT ![t] = "idle"]
  <2>1. FifoPoint(pc'[t], mb_call'[t]) = "idle"
    BY <1>1, StepTypes, FifoPoints
  <2>2. \A u \in Threads : u # t => FifoPoint(pc'[u], mb_call'[u]) = FifoPoint(pc[u], mb_call[u])
    BY <1>1, StepTypes
  <2> QED  BY <2>1, <2>2, CallMoves
<1>3. FifoPatience' = [FifoPatience EXCEPT ![t] = "limited"]
  BY <1>1, PatienceMoves, StepTypes DEF Timeouts
<1>4. FifoLetter' = FifoLetter
  <2>1. \A u \in Threads : FifoLetter'[u] = FifoLetter[u]
    BY <1>1, StepTypes, LetterAt, FifoAt
  <2> QED  BY <2>1, LetterStays
<1>5. FifoResult' = [FifoResult EXCEPT ![t] = IF r = "kNoErr" THEN "ok" ELSE "error"]
  BY <1>1, ResultMoves, StepTypes
<1>6. FifoQueue' = FifoQueue
  BY QueueStays
<1>7. FifoClosed' = FifoClosed
  BY ClosedStays
<1>8. ASSUME r = "kNoErr", FifoCall[t] \in {"pushed", "popped"}
      PROVE  Fifo!FifoReturn(t)
  BY <1>2, <1>3, <1>4, <1>5, <1>6, <1>7, <1>8 DEF Fifo!FifoReturn
<1>9. ASSUME r = "kGeneralErr", FifoCall[t] \in {"push", "pop"},
             FifoPatience[t] # "forever" \/ FifoClosed
      PROVE  Fifo!FifoFail(t)
  BY <1>2, <1>3, <1>4, <1>5, <1>6, <1>7, <1>9 DEF Fifo!FifoFail, Fifo!MayGiveUp, Fifo!Pending
<1> QED  BY <1>8, <1>9

LEMMA PushNoBlockMaps ==
  ASSUME QueueInv, FifoInv, NEW t \in Threads, PushNoBlock(t)
  PROVE  Fifo!FifoFail(t)
<1>1. /\ pc[t] = "push_alloc" /\ mp_call[t] = "alloc_null"
      /\ Return(t, "kGeneralErr")
      /\ UNCHANGED <<mbVars, message, content>>
  BY DEF PushNoBlock
<1>2. mb_call[t] = "out"
  BY <1>1 DEF QueueInv, Points, PointsOf
<1>3. mb_call' = [mb_call EXCEPT ![t] = "out"]
  BY <1>1, <1>2, StepTypes DEF mbVars
<1>4. FifoCall[t] = "push"
  BY <1>1, FifoAt, FifoPoints
<1>5. FifoPatience[t] # "forever" \/ FifoClosed
  BY <1>1, FifoAt DEF FifoInv, Timed, TimedAt, FifoClosed
<1>6. /\ mb_call[t] # "recvd"
      /\ \A u \in Threads \ {t} : mb_value'[u] = mb_value[u]
      /\ UNCHANGED <<mb_state, msg_pool, in_offset, out_offset, entry, message, content>>
  BY <1>1, <1>2 DEF mbVars
<1> QED  BY <1>1, <1>3, <1>4, <1>5, <1>6, ReturnMaps

LEMMA PopNoMailMaps ==
  ASSUME QueueInv, FifoInv, NEW t \in Threads, PopNoMail(t)
  PROVE  Fifo!FifoFail(t)
<1>1. /\ pc[t] = "pop_recv" /\ mb_call[t] = "recv_error"
      /\ Return(t, "kGeneralErr")
      /\ mb_call' = [mb_call EXCEPT ![t] = "out"]
      /\ mb_value' = [mb_value EXCEPT ![t] = NoMail]
      /\ UNCHANGED <<mb_state, msg_pool, in_offset, out_offset, entry, message, content>>
  BY DEF PopNoMail, MbReturn
<1>2. FifoCall[t] = "pop"
  BY <1>1, FifoAt, FifoPoints
<1>3. FifoPatience[t] # "forever" \/ FifoClosed
  BY <1>1, FifoAt DEF FifoInv, Timed, TimedAt, FifoClosed
<1>4. \A u \in Threads \ {t} : mb_value'[u] = mb_value[u]
  BY <1>1, StepTypes
<1> QED  BY <1>1, <1>2, <1>3, <1>4, ReturnMaps

LEMMA PushSentMaps ==
  ASSUME QueueInv, NEW t \in Threads, PushSent(t)
  PROVE  Fifo!FifoReturn(t)
<1>1. pc[t] = "push_send" /\ mb_call[t] = "sent"
  BY DEF PushSent, MbReturn, QueueInv, Points, PointsOf
<1>2. /\ Return(t, "kNoErr")
      /\ mb_call' = [mb_call EXCEPT ![t] = "out"]
      /\ mb_value' = [mb_value EXCEPT ![t] = NoMail]
      /\ UNCHANGED <<mb_state, msg_pool, in_offset, out_offset, entry, message, content>>
  BY <1>1 DEF PushSent, MbReturn
<1>3. FifoCall[t] = "pushed"
  BY <1>1, FifoAt, FifoPoints
<1>4. \A u \in Threads \ {t} : mb_value'[u] = mb_value[u]
  BY <1>2, StepTypes
<1> QED  BY <1>1, <1>2, <1>3, <1>4, ReturnMaps

LEMMA FreeMaps ==
  ASSUME QueueInv, NEW t \in Threads, Free(t)
  PROVE  Fifo!FifoReturn(t)
<1>1. /\ pc[t] = "pop_free" /\ mb_call[t] = "out"
      /\ UNCHANGED <<mbVars, message, content>>
  BY DEF Free, QueueInv, Points, PointsOf
<1>2. Return(t, "kNoErr")
  BY <1>1 DEF Free
<1>3. mb_call' = [mb_call EXCEPT ![t] = "out"]
  BY <1>1, StepTypes DEF mbVars
<1>4. FifoCall[t] = "popped"
  BY <1>1, FifoAt, FifoPoints
<1>5. /\ mb_call[t] # "recvd"
      /\ \A u \in Threads \ {t} : mb_value'[u] = mb_value[u]
      /\ UNCHANGED <<mb_state, msg_pool, in_offset, out_offset, entry, message, content>>
  BY <1>1 DEF mbVars
<1> QED  BY <1>2, <1>3, <1>4, <1>5, ReturnMaps

-----------------------------------------------------------------------------
(* The moments at which a call takes effect *)

\* rt_mb_send_wait links the message; a receiver it resumes goes on waiting
\* as far as its caller can see.
LEMMA PushSendMaps ==
  ASSUME QueueInv, FifoInv, NEW t \in Threads, PushSend(t)
  PROVE  Fifo!FifoEnqueue(t)
<1>1. /\ pc[t] = "push_send" /\ mb_call[t] = "send" /\ entry < Size
      /\ MbSendPut(t)
      /\ UNCHANGED <<mpVars, queueVars, mb_state, mb_value>>
  BY SendIsPut DEF MbSendPut
<1>2. /\ mb_call'[t] = "sent"
      /\ \A u \in Threads : u # t => \/ mb_call'[u] = mb_call[u]
                                     \/ mb_call[u] = "recv_wait" /\ mb_call'[u] = "recv"
  BY <1>1, PutPoints
<1>3. FifoCall[t] = "push"
  BY <1>1, FifoAt, FifoPoints
<1>4. mb_value[t] \in Blocks /\ content[mb_value[t]] = FifoLetter[t]
  BY <1>1, FifoAt DEF FifoInv, Written, QueueInv, Points, PointsOf
<1>5. /\ Len(FifoQueue) < Size
      /\ FifoQueue' = Append(FifoQueue, FifoLetter[t])
  BY <1>1, <1>4, QueueIs, PutAppends DEF queueVars
<1>6. FifoCall' = [FifoCall EXCEPT ![t] = "pushed"]
  <2>1. FifoPoint(pc'[t], mb_call'[t]) = "pushed"
    BY <1>1, <1>2, FifoPoints DEF queueVars
  <2>2. ASSUME NEW u \in Threads, u # t
        PROVE  FifoPoint(pc'[u], mb_call'[u]) = FifoPoint(pc[u], mb_call[u])
    <3>1. pc' = pc
      BY <1>1 DEF queueVars
    <3>2. CASE mb_call'[u] = mb_call[u]
      BY <3>1, <3>2
    <3>3. CASE mb_call[u] = "recv_wait" /\ mb_call'[u] = "recv"
      <4>1. pc[u] = "pop_recv"
        BY <3>3, StepTypes DEF QueueInv, Points, PointsOf
      <4> QED  BY <3>1, <3>3, <4>1, FifoPoints
    <3> QED  BY <1>2, <2>2, <3>2, <3>3
  <2> QED  BY <2>1, <2>2, CallMoves
<1>7. FifoLetter' = FifoLetter
  <2>1. \A u \in Threads : FifoLetter'[u] = FifoLetter[u]
    BY <1>1, <1>2, LetterAt, FifoAt DEF queueVars
  <2> QED  BY <2>1, LetterStays
<1>8. FifoPatience' = FifoPatience /\ FifoResult' = FifoResult
  BY <1>1, PatienceStays, ResultStays DEF queueVars
<1>9. FifoClosed' = FifoClosed
  BY <1>1, ClosedStays
<1> QED  BY <1>3, <1>5, <1>6, <1>7, <1>8, <1>9 DEF Fifo!FifoEnqueue

\* rt_mb_recv unlinks it.
LEMMA PopTakeMaps ==
  ASSUME QueueInv, NEW t \in Threads, PopRecv(t), MbRecvTake(t)
  PROVE  Fifo!FifoDequeue(t)
<1>1. /\ pc[t] = "pop_recv" /\ mb_call[t] = "recv"
      /\ UNCHANGED <<mpVars, queueVars, mb_state>>
      /\ mb_call' = [mb_call EXCEPT ![t] = "recvd"]
      /\ mb_value' = [mb_value EXCEPT ![t] = msg_pool[out_offset]]
  BY TakeMoves DEF PopRecv, MbRecvTake
<1>2. FifoCall[t] = "pop"
  BY <1>1, FifoAt, FifoPoints
<1>3. /\ FifoQueue # <<>>
      /\ Head(FifoQueue) = content[msg_pool[out_offset]]
      /\ FifoQueue' = Tail(FifoQueue)
  BY <1>1, TakeRemoves DEF queueVars
<1>4. FifoCall' = [FifoCall EXCEPT ![t] = "popped"]
  <2>1. FifoPoint(pc'[t], mb_call'[t]) = "popped"
    BY <1>1, StepTypes, FifoPoints DEF queueVars
  <2>2. \A u \in Threads : u # t => FifoPoint(pc'[u], mb_call'[u]) = FifoPoint(pc[u], mb_call[u])
    BY <1>1, StepTypes DEF queueVars
  <2> QED  BY <2>1, <2>2, CallMoves
<1>5. FifoLetter' = [FifoLetter EXCEPT ![t] = Head(FifoQueue)]
  <2>1. FifoLetter'[t] = Head(FifoQueue)
    BY <1>1, <1>3, StepTypes, LetterAt DEF queueVars
  <2>2. \A u \in Threads : u # t => FifoLetter'[u] = FifoLetter[u]
    BY <1>1, StepTypes, LetterAt, FifoAt DEF queueVars
  <2> QED  BY <2>1, <2>2, LetterMoves
<1>6. FifoPatience' = FifoPatience /\ FifoResult' = FifoResult
  BY <1>1, PatienceStays, ResultStays DEF queueVars
<1>7. FifoClosed' = FifoClosed
  BY <1>1, ClosedStays
<1> QED  BY <1>2, <1>3, <1>4, <1>5, <1>6, <1>7 DEF Fifo!FifoDequeue

\* rtos_deinit_queue closes the queue when it begins.
LEMMA DeinitCallMaps ==
  ASSUME QueueInv, DeinitCall
  PROVE  Fifo!FifoClose
<1>1. /\ mb_state' = "deleting"
      /\ UNCHANGED <<queueVars, msg_pool, in_offset, out_offset, entry, mb_call, mb_value>>
  BY DEF DeinitCall, MbDeleteCall
<1>2. FifoClosed' = TRUE
  BY <1>1 DEF FifoClosed
<1>3. FifoQueue' = FifoQueue
  BY <1>1, QueueStays DEF queueVars
<1>4. FifoCall' = FifoCall
  BY <1>1, CallStays DEF queueVars
<1>5. FifoLetter' = FifoLetter
  BY <1>1 DEF FifoLetter, queueVars
<1>6. FifoPatience' = FifoPatience /\ FifoResult' = FifoResult
  BY <1>1, PatienceStays, ResultStays DEF queueVars
<1> QED  BY <1>2, <1>3, <1>4, <1>5, <1>6 DEF Fifo!FifoClose

-----------------------------------------------------------------------------
(* Steps that callers do not see *)

\* Steps that change where a thread is, and nothing else a caller sees.
LEMMA Unseen ==
  ASSUME QueueInv, UNCHANGED queueVars,
         UNCHANGED <<msg_pool, in_offset, out_offset, entry, mb_value>>,
         mb_state' = "live" <=> mb_state = "live",
         \A u \in Threads : \/ mb_call'[u] = mb_call[u]
                            \/ /\ pc[u] = "pop_recv"
                               /\ mb_call[u] # "recvd" /\ mb_call'[u] # "recvd"
  PROVE  UNCHANGED (Fifo!fifoVars)
<1>1. FifoQueue' = FifoQueue
  BY QueueStays DEF queueVars
<1>2. FifoCall' = FifoCall
  <2>1. pc' = pc
    BY DEF queueVars
  <2>2. \A u \in Threads : FifoPoint(pc'[u], mb_call'[u]) = FifoPoint(pc[u], mb_call[u])
    BY <2>1, FifoPoints
  <2> QED  BY <2>2, CallStays
<1>3. FifoLetter' = FifoLetter
  <2>1. \A u \in Threads : FifoLetter'[u] = FifoLetter[u]
    BY LetterAt, FifoAt DEF queueVars
  <2> QED  BY <2>1, LetterStays
<1>4. FifoPatience' = FifoPatience /\ FifoResult' = FifoResult
  BY PatienceStays, ResultStays DEF queueVars
<1>5. FifoClosed' = FifoClosed
  BY DEF FifoClosed
<1> QED  BY <1>1, <1>2, <1>3, <1>4, <1>5 DEF Fifo!fifoVars

LEMMA PoolUnseen ==
  ASSUME QueueInv, UNCHANGED queueVars, UNCHANGED mbVars
  PROVE  UNCHANGED (Fifo!fifoVars)
<1>1. /\ UNCHANGED <<msg_pool, in_offset, out_offset, entry, mb_value>>
      /\ mb_state' = mb_state /\ mb_call' = mb_call
  BY DEF mbVars
<1> QED  BY <1>1, Unseen

\* The message is copied into a block nobody else has or reads.
LEMMA PushCopyMaps ==
  ASSUME QueueInv, NEW t \in Threads, PushCopy(t)
  PROVE  UNCHANGED (Fifo!fifoVars)
<1>1. /\ pc[t] = "push_alloc" /\ mb_call[t] = "out" /\ msg_tmp[t] \in Blocks
      /\ pc' = [pc EXCEPT ![t] = "push_send"]
      /\ mb_call' = [mb_call EXCEPT ![t] = "send"]
      /\ mb_value' = [mb_value EXCEPT ![t] = msg_tmp[t]]
      /\ content' = [content EXCEPT ![msg_tmp[t]] = message[t]]
      /\ UNCHANGED <<mb_state, msg_pool, in_offset, out_offset, entry, timeout_ms, message, ret>>
  BY DEF PushCopy, MbSendCall, QueueInv, Points, PointsOf
<1>2. Owns(t, msg_tmp[t])
  BY <1>1 DEF Owns
<1>3. /\ msg_tmp[t] \notin Queued
      /\ \A u \in Threads : Owns(u, msg_tmp[t]) => u = t
  BY <1>1, <1>2 DEF QueueInv, OneOwner
<1>4. FifoQueue' = FifoQueue
  <2>1. \A b \in Queued : content'[b] = content[b]
    BY <1>1, <1>3, StepTypes, QueuedFinite
  <2> QED  BY <1>1, <2>1, QueueStays
<1>5. FifoCall' = FifoCall
  <2>1. \A u \in Threads : FifoPoint(pc'[u], mb_call'[u]) = FifoPoint(pc[u], mb_call[u])
    BY <1>1, StepTypes, FifoPoints
  <2> QED  BY <2>1, CallStays
<1>6. FifoLetter' = FifoLetter
  <2>1. ASSUME NEW u \in Threads  PROVE FifoLetter'[u] = FifoLetter[u]
    <3>1. CASE u = t
      BY <1>1, <3>1, StepTypes, LetterAt, FifoAt
    <3>2. CASE u # t /\ mb_call[u] = "recvd"
      <4>1. mb_value[u] \in Blocks
        BY <3>2, StepTypes DEF QueueInv, Points, PointsOf
      <4>2. mb_value[u] # msg_tmp[t]
        BY <1>3, <3>2, <4>1 DEF Owns
      <4>3. content'[mb_value[u]] = content[mb_value[u]]
        BY <1>1, <4>1, <4>2, StepTypes
      <4> QED  BY <1>1, <3>2, <4>3, StepTypes, LetterAt, FifoAt
    <3>3. CASE u # t /\ mb_call[u] # "recvd"
      BY <1>1, <3>3, StepTypes, LetterAt, FifoAt
    <3> QED  BY <3>1, <3>2, <3>3
  <2> QED  BY <2>1, LetterStays
<1>7. FifoPatience' = FifoPatience /\ FifoResult' = FifoResult
  BY <1>1, PatienceStays, ResultStays
<1>8. FifoClosed' = FifoClosed
  BY <1>1, ClosedStays
<1> QED  BY <1>4, <1>5, <1>6, <1>7, <1>8 DEF Fifo!fifoVars

\* The message is copied out; the caller has had it since rt_mb_recv.
LEMMA PopCopyMaps ==
  ASSUME QueueInv, NEW t \in Threads, PopCopy(t)
  PROVE  UNCHANGED (Fifo!fifoVars)
<1>1. /\ pc[t] = "pop_recv" /\ mb_call[t] = "recvd"
      /\ pc' = [pc EXCEPT ![t] = "pop_free"]
      /\ mb_call' = [mb_call EXCEPT ![t] = "out"]
      /\ mb_value' = [mb_value EXCEPT ![t] = NoMail]
      /\ message' = [message EXCEPT ![t] = content[mb_value[t]]]
      /\ UNCHANGED <<mb_state, msg_pool, in_offset, out_offset, entry, timeout_ms, content, ret>>
  BY DEF PopCopy, MbReturn
<1>2. FifoQueue' = FifoQueue
  BY <1>1, QueueStays
<1>3. FifoCall' = FifoCall
  <2>1. \A u \in Threads : FifoPoint(pc'[u], mb_call'[u]) = FifoPoint(pc[u], mb_call[u])
    BY <1>1, StepTypes, FifoPoints
  <2> QED  BY <2>1, CallStays
<1>4. FifoLetter' = FifoLetter
  <2>1. \A u \in Threads : FifoLetter'[u] = FifoLetter[u]
    BY <1>1, StepTypes, LetterAt, FifoAt
  <2> QED  BY <2>1, LetterStays
<1>5. FifoPatience' = FifoPatience /\ FifoResult' = FifoResult
  BY <1>1, PatienceStays, ResultStays
<1>6. FifoClosed' = FifoClosed
  BY <1>1, ClosedStays
<1> QED  BY <1>2, <1>3, <1>4, <1>5, <1>6 DEF Fifo!fifoVars

\* Waiting for a mail, and the end of that wait.
LEMMA PopWaitMaps ==
  ASSUME QueueInv, NEW t \in Threads, PopRecv(t), ~MbRecvTake(t)
  PROVE  UNCHANGED (Fifo!fifoVars)
<1>1. /\ pc[t] = "pop_recv" /\ mb_call[t] \in {"recv", "recv_wait"}
      /\ UNCHANGED queueVars /\ mb_state' = mb_state
      /\ UNCHANGED <<msg_pool, in_offset, out_offset, entry, mb_value>>
      /\ \E p \in {"recv_wait", "recv_error"} : mb_call' = [mb_call EXCEPT ![t] = p]
  BY DEF PopRecv, MbRecvStep, MbRecvEmpty, MbRecvSuspend, MbRecvTimeout
<1>2. \A u \in Threads : \/ mb_call'[u] = mb_call[u]
                         \/ /\ pc[u] = "pop_recv"
                            /\ mb_call[u] # "recvd" /\ mb_call'[u] # "recvd"
  BY <1>1, StepTypes
<1> QED  BY <1>1, <1>2, Unseen

\* The rest of rtos_deinit_queue.
LEMMA DeinitMaps ==
  ASSUME QueueInv, DeinitMailbox \/ DeinitPoolCall \/ DeinitPool
  PROVE  UNCHANGED (Fifo!fifoVars)
<1>1. CASE DeinitPoolCall \/ DeinitPool
  <2>1. UNCHANGED mbVars /\ UNCHANGED queueVars
    BY <1>1 DEF DeinitPoolCall, DeinitPool
  <2> QED  BY <2>1, PoolUnseen
<1>2. CASE DeinitMailbox
  <2>1. /\ mb_state # "live" /\ mb_state' # "live"
        /\ UNCHANGED queueVars
        /\ UNCHANGED <<msg_pool, in_offset, out_offset, entry, mb_value>>
        /\ \/ UNCHANGED mb_call
           \/ /\ suspend_recv_thread # <<>>
              /\ mb_call' = [mb_call EXCEPT ![Head(suspend_recv_thread)] = "recv_error"]
    BY <1>2, DeinitMailboxIs
  <2>2. \A u \in Threads : \/ mb_call'[u] = mb_call[u]
                           \/ /\ pc[u] = "pop_recv"
                              /\ mb_call[u] # "recvd" /\ mb_call'[u] # "recvd"
    BY <2>1, WaitersAre, StepTypes
  <2> QED  BY <2>1, <2>2, Unseen
<1> QED  BY <1>1, <1>2

-----------------------------------------------------------------------------
(* The refinement *)

LEMMA FifoInitMaps ==
  ASSUME Init
  PROVE  Fifo!FifoInit
<1>1. /\ entry = 0 /\ mb_state = "live"
      /\ pc = [t \in Threads |-> "idle"]
      /\ mb_call = [t \in Threads |-> "out"]
      /\ timeout_ms = [t \in Threads |-> "no_wait"]
      /\ ret = [t \in Threads |-> "none"]
  BY DEF Init, MbInit
<1>2. PICK m \in Messages : message = [t \in Threads |-> m]
  BY DEF Init
<1>3. FifoQueue = <<>>
  BY <1>1 DEF FifoQueue
<1>4. FifoCall = [t \in Threads |-> "idle"]
  BY <1>1, FifoPoints DEF FifoCall
<1>5. FifoPatience = [t \in Threads |-> "limited"]
  BY <1>1 DEF FifoPatience
<1>6. FifoLetter \in [Threads -> Messages]
  BY <1>1, <1>2 DEF FifoLetter
<1>7. FifoResult = [t \in Threads |-> "none"]
  BY <1>1 DEF FifoResult
<1>8. FifoClosed = FALSE
  BY <1>1 DEF FifoClosed
<1> QED  BY <1>3, <1>4, <1>5, <1>6, <1>7, <1>8 DEF Fifo!FifoInit

LEMMA FifoStepMaps ==
  ASSUME QueueInv, FifoInv, [Next]_vars
  PROVE  [Fifo!FifoNext]_(Fifo!fifoVars)
<1>1. ASSUME NEW t \in Threads, NEW m \in Messages, NEW time \in Timeouts, PushCall(t, m, time)
      PROVE  Fifo!FifoNext
  BY <1>1, PushCallMaps DEF Fifo!FifoNext
<1>2. ASSUME NEW t \in Threads, NEW time \in Timeouts, PopCall(t, time)
      PROVE  Fifo!FifoNext
  BY <1>2, PopCallMaps DEF Fifo!FifoNext
<1>3. ASSUME NEW t \in Threads, Step(t)
      PROVE  [Fifo!FifoNext]_(Fifo!fifoVars)
  <2>1. CASE PushAlloc(t)
    <3>1. UNCHANGED mbVars /\ UNCHANGED queueVars
      BY <2>1 DEF PushAlloc
    <3> QED  BY <3>1, PoolUnseen
  <2>2. CASE PushNoBlock(t)
    BY <2>2, PushNoBlockMaps DEF Fifo!FifoNext
  <2>3. CASE PushCopy(t)
    BY <2>3, PushCopyMaps
  <2>4. CASE PushSend(t)
    BY <2>4, PushSendMaps DEF Fifo!FifoNext
  <2>5. CASE PushSent(t)
    BY <2>5, PushSentMaps DEF Fifo!FifoNext
  <2>6. CASE PopRecv(t) /\ MbRecvTake(t)
    BY <2>6, PopTakeMaps DEF Fifo!FifoNext
  <2>7. CASE PopRecv(t) /\ ~MbRecvTake(t)
    BY <2>7, PopWaitMaps
  <2>8. CASE PopNoMail(t)
    BY <2>8, PopNoMailMaps DEF Fifo!FifoNext
  <2>9. CASE PopCopy(t)
    BY <2>9, PopCopyMaps
  <2>10. CASE Free(t)
    BY <2>10, FreeMaps DEF Fifo!FifoNext
  <2> QED
    BY <1>3, <2>1, <2>2, <2>3, <2>4, <2>5, <2>6, <2>7, <2>8, <2>9, <2>10 DEF Step
<1>4. CASE DeinitCall
  BY <1>4, DeinitCallMaps DEF Fifo!FifoNext
<1>5. CASE DeinitMailbox \/ DeinitPoolCall \/ DeinitPool
  BY <1>5, DeinitMaps
<1>6. CASE UNCHANGED vars
  <2>1. UNCHANGED mbVars /\ UNCHANGED queueVars
    BY <1>6 DEF vars
  <2> QED  BY <2>1, PoolUnseen
<1> QED  BY <1>1, <1>2, <1>3, <1>4, <1>5, <1>6 DEF Next

\* rtos_push_to_queue, rtos_pop_from_queue and rtos_deinit_queue over
\* mempool.c and ipc.c together are a bounded FIFO of messages: though a call
\* goes through two objects and sleeps in either, it takes effect at one
\* moment, and a message is popped as it was pushed.
THEOREM QueueIsFifo == Spec => IsBoundedFifo
<1>1. Init => Fifo!FifoInit
  BY FifoInitMaps
<1>2. QueueInv /\ FifoInv /\ [Next]_vars => [Fifo!FifoNext]_(Fifo!fifoVars)
  BY FifoStepMaps
<1> QED
  BY <1>1, <1>2, Invariance, PTL DEF Spec, IsBoundedFifo, Fifo!FifoSpec

=============================================================================
