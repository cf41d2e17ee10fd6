-------------------------- MODULE DeviceIpcProofs ---------------------------
(***************************************************************************)
(* Proofs about the objects of rt-thread/components/drivers/src, DataQueue  *)
(* and Workqueue, for any number of threads, and about all the kernel       *)
(* objects together, as MCIpc composes them.                                *)
(***************************************************************************)
EXTENDS MCIpc, IpcProofs, MsgQueueProofs

-----------------------------------------------------------------------------
(***************************************************************************)
(* The data queue.  A push moves one sleeping popper to those about to look *)
(* for an item; a pop moves a sleeping pusher only at the low water mark,   *)
(* and then a full ring, above the mark, is what it takes for one to sleep  *)
(* again.  The 16-bit indices wrap.  Two counts are never nearer than their *)
(* indices are, so a ring that looks full holds as many items as it can;    *)
(* and one that looks empty is empty as long as no item was overwritten.    *)
(***************************************************************************)

\* The threads about to look for an item, and for a free place.
DqPoppers == {t \in Threads : dq_call[t] = "pop"}
DqPushers == {t \in Threads : dq_call[t] = "push"}

\* The two sides of DqSomeoneComes.
DqItemsTaken ==
  dq_poppers # <<>> /\ ~dq_overrun => dq_puts - dq_gets <= Cardinality(DqPoppers)

DqRoomFilled ==
  dq_pushers # <<>> => dq_puts - dq_gets + Cardinality(DqPushers) > Lwm

\* As many items as there are places, until one is overwritten, which none is
\* before put_index has wrapped.
DqCounts ==
  /\ dq_gets <= dq_puts
  /\ ~dq_overrun => dq_puts - dq_gets <= RingSize
  /\ dq_overrun => dq_puts > IndexModulus

DqInv ==
  /\ DqTypeOK
  /\ DqListsExact
  /\ DqCounts
  /\ DqItemsTaken
  /\ DqRoomFilled

LEMMA DqCountsAreNumbers ==
  /\ IsFiniteSet(DqPoppers) /\ Cardinality(DqPoppers) \in Nat
  /\ IsFiniteSet(DqPushers) /\ Cardinality(DqPushers) \in Nat
<1>1. DqPoppers \in SUBSET Threads /\ DqPushers \in SUBSET Threads
  BY DEF DqPoppers, DqPushers
<1> QED  BY <1>1, ThreadsAssumption, FS_Subset, FS_CardinalityType

\* The numbers, as integers.
LEMMA DqNumbers ==
  ASSUME DqInv
  PROVE  /\ dq_puts \in Nat /\ dq_gets \in Nat /\ RingSize \in Nat /\ Lwm \in Nat
         /\ Lwm < RingSize
         /\ dq_gets <= dq_puts /\ (~dq_overrun => dq_puts - dq_gets <= RingSize)
         /\ dq_puts - dq_gets \in Nat
BY DataQueueAssumption DEF DqInv, DqTypeOK, DqCounts

\* Division with remainder.
LEMMA DqDivision ==
  ASSUME NEW n \in Nat \ {0}, NEW a \in Nat
  PROVE  a = n * (a \div n) + (a % n) /\ a \div n \in Int /\ a % n \in 0 .. n - 1
OBVIOUS

\* Multiples of n are n apart.
LEMMA DqMultiples ==
  ASSUME NEW n \in Nat \ {0}, NEW d \in 1 .. n - 1, NEW p \in Int, NEW q \in Int
  PROVE  n * p # n * q + d
<1>1. CASE p <= q
  <2>1. n * p <= n * q
    BY <1>1
  <2> QED  BY <2>1
<1>2. CASE p >= q + 1
  <2>1. n * p >= n * (q + 1)
    BY <1>2
  <2>2. n * (q + 1) = n * q + n
    OBVIOUS
  <2> QED  BY <2>1, <2>2
<1> QED  BY <1>1, <1>2

\* Numbers less than n apart have different places in a ring of n.
LEMMA DqPlacesDiffer ==
  ASSUME NEW n \in Nat \ {0}, NEW a \in Nat, NEW d \in 1 .. n - 1
  PROVE  (a + d) % n # a % n
<1> SUFFICES ASSUME (a + d) % n = a % n  PROVE FALSE
  OBVIOUS
<1> DEFINE q == a \div n
           p == (a + d) \div n
           r == a % n
<1>1. a = n * q + r /\ q \in Int /\ r \in Int
  BY DqDivision
<1>2. a + d \in Nat
  OBVIOUS
<1>3. a + d = n * p + r /\ p \in Int
  BY <1>2, DqDivision
<1> HIDE DEF p, q, r
<1>4. n * p = n * q + d
  BY <1>1, <1>3
<1> QED  BY <1>1, <1>3, <1>4, DqMultiples

\* Two numbers are at least as far apart as their remainders.
LEMMA DqApart ==
  ASSUME NEW n \in Nat \ {0}, NEW k \in Nat, NEW l \in Nat, l <= k
  PROVE  (k % n) - (l % n) <= k - l
<1> DEFINE p == k \div n
           q == l \div n
           r == k % n
           v == l % n
<1>1. k = n * p + r /\ p \in Int /\ r \in 0 .. n - 1
  BY DqDivision
<1>2. l = n * q + v /\ q \in Int /\ v \in 0 .. n - 1
  BY DqDivision
<1> HIDE DEF p, q, r, v
<1>3. CASE q <= p
  <2>1. n * q <= n * p
    BY <1>1, <1>2, <1>3
  <2> QED  BY <1>1, <1>2, <2>1 DEF r, v
<1>4. CASE q >= p + 1
  <2>1. n * q >= n * (p + 1)
    BY <1>1, <1>2, <1>4
  <2>2. n * (p + 1) = n * p + n
    BY <1>1
  <2> QED  BY <1>1, <1>2, <2>1, <2>2
<1> QED  BY <1>1, <1>2, <1>3, <1>4

\* What the comparisons of the indices say of the counts.
LEMMA DqIndices ==
  ASSUME DqInv
  PROVE  /\ IsFull => dq_puts - dq_gets >= RingSize
         /\ ~IsEmpty => dq_gets < dq_puts
         /\ IsEmpty /\ ~dq_overrun => dq_puts = dq_gets
         /\ Awakened # <<>> => Awakened = dq_pushers
         /\ dq_gets < dq_puts /\ Awakened = <<>> /\ dq_pushers # <<>> =>
              dq_puts - (dq_gets + 1) > Lwm
<1>1. /\ IndexModulus \in Nat \ {0} /\ RingSize < IndexModulus /\ RingSize \in Nat /\ Lwm \in Nat
      /\ dq_puts \in Nat /\ dq_gets \in Nat /\ dq_gets <= dq_puts
  BY DqNumbers, DataQueueAssumption
<1>2. put_index - get_index <= dq_puts - dq_gets
  BY <1>1, DqApart DEF put_index, get_index
<1>3. IsFull => dq_puts - dq_gets >= RingSize
  BY <1>2 DEF IsFull
<1>4. ~IsEmpty => dq_gets < dq_puts
  BY <1>1 DEF IsEmpty, put_index, get_index
<1>5. ASSUME ~dq_overrun, dq_puts # dq_gets  PROVE ~IsEmpty
  <2> DEFINE d == dq_puts - dq_gets
  <2>1. d \in 1 .. IndexModulus - 1 /\ dq_puts = dq_gets + d
    BY <1>1, <1>5, DqNumbers
  <2> HIDE DEF d
  <2> QED  BY <1>1, <2>1, DqPlacesDiffer DEF IsEmpty, put_index, get_index
<1>6. Awakened # <<>> => Awakened = dq_pushers
  BY DEF Awakened
<1>7. ASSUME dq_gets < dq_puts, Awakened = <<>>, dq_pushers # <<>>
      PROVE  dq_puts - (dq_gets + 1) > Lwm
  <2>1. ~(put_index - ((dq_gets + 1) % IndexModulus) <= Lwm)
    BY <1>7 DEF Awakened
  <2>2. dq_gets + 1 \in Nat /\ dq_gets + 1 <= dq_puts
    BY <1>1, <1>7
  <2>3. put_index - ((dq_gets + 1) % IndexModulus) <= dq_puts - (dq_gets + 1)
    BY <1>1, <2>2, DqApart DEF put_index
  <2>4. put_index \in Int /\ (dq_gets + 1) % IndexModulus \in Int
    BY <1>1, <2>2 DEF put_index
  <2> QED  BY <1>1, <2>1, <2>2, <2>3, <2>4
<1> QED  BY <1>3, <1>4, <1>5, <1>6, <1>7

\* Nothing is missed if the items are as many, as many threads are about to
\* look, and nobody starts to wait.
LEMMA DqNobodyMisses ==
  ASSUME DqInv, UNCHANGED <<dq_puts, dq_gets, dq_overrun>>,
         DqPoppers' = DqPoppers, DqPushers' = DqPushers,
         dq_poppers' # <<>> => dq_poppers # <<>>,
         dq_pushers' # <<>> => dq_pushers # <<>>
  PROVE  DqItemsTaken' /\ DqRoomFilled'
BY DEF DqInv, DqItemsTaken, DqRoomFilled

-----------------------------------------------------------------------------
(* rt_data_queue_push *)

LEMMA SlotType ==
  ASSUME NEW n \in Nat
  PROVE  Slot(n) \in 0 .. RingSize - 1
<1>1. /\ IndexModulus \in Nat \ {0} /\ RingSize \in Nat \ {0}
  BY DataQueueAssumption
<1>2. n % IndexModulus \in Nat
  BY <1>1, DqDivision
<1> QED  BY <1>1, <1>2, DqDivision DEF Slot

LEMMA DqPushCallKeeps ==
  ASSUME DqInv, NEW t \in Threads, NEW m \in Items, NEW time \in Timeouts,
         DqPushCall(t, m, time)
  PROVE  DqInv'
<1>1. DqTypeOK'
  BY DEF DqInv, DqTypeOK, DqPushCall
<1>2. DqListsExact' /\ DqCounts'
  BY DEF DqInv, DqTypeOK, DqListsExact, DqPushCall, DqIdle, DqCounts
<1>3. /\ DqPushers' = DqPushers \cup {t} /\ t \notin DqPushers
      /\ DqPoppers' = DqPoppers
  BY DEF DqInv, DqTypeOK, DqPushers, DqPoppers, DqPushCall, DqIdle
<1>4. Cardinality(DqPushers') = Cardinality(DqPushers) + 1
  BY <1>3, MbOneMore, DqCountsAreNumbers
<1>5. UNCHANGED <<dq_puts, dq_gets, dq_pushers, dq_poppers, dq_overrun>>
  BY DEF DqPushCall
<1>6. DqItemsTaken'
  BY <1>3, <1>5 DEF DqInv, DqItemsTaken
<1>7. DqRoomFilled'
  BY <1>4, <1>5, DqNumbers, DqCountsAreNumbers DEF DqInv, DqRoomFilled
<1> QED  BY <1>1, <1>2, <1>6, <1>7 DEF DqInv

\* A full ring is above the low water mark whoever leaves.
LEMMA DqPushFullKeeps ==
  ASSUME DqInv, NEW t \in Threads, DqPushFull(t)
  PROVE  DqInv'
<1>1. DqTypeOK'
  BY DEF DqInv, DqTypeOK, DqPushFull
<1>2. DqListsExact' /\ DqCounts'
  BY DEF DqInv, DqTypeOK, DqListsExact, DqPushFull, DqCounts
<1>3. DqPushers' = DqPushers \ {t} /\ t \in DqPushers /\ DqPoppers' = DqPoppers
  BY DEF DqInv, DqTypeOK, DqPushers, DqPoppers, DqPushFull
<1>4. Cardinality(DqPushers') \in Nat
  BY <1>3, DqCountsAreNumbers, FS_RemoveElement, FS_CardinalityType
<1>5. /\ UNCHANGED <<dq_puts, dq_gets, dq_pushers, dq_poppers, dq_overrun>>
      /\ dq_puts - dq_gets >= RingSize
  BY DqIndices DEF DqPushFull
<1>6. DqItemsTaken'
  BY <1>3, <1>5 DEF DqInv, DqItemsTaken
<1>7. DqRoomFilled'
  BY <1>4, <1>5, DqNumbers DEF DqRoomFilled
<1> QED  BY <1>1, <1>2, <1>6, <1>7 DEF DqInv

LEMMA DqPushSuspendKeeps ==
  ASSUME DqInv, NEW t \in Threads, DqPushSuspend(t)
  PROVE  DqInv'
<1>1. /\ dq_pushers' \in Seq(Threads)
      /\ Distinct(dq_pushers')
      /\ Waiting(dq_pushers') = Waiting(dq_pushers) \cup {t}
  <2>1. t \notin Waiting(dq_pushers)
    BY DEF DqInv, DqListsExact, DqPushSuspend
  <2> QED  BY <2>1, EnqueueLastAdds DEF DqInv, DqTypeOK, DqListsExact, DqPushSuspend
<1>2. DqTypeOK'
  BY <1>1 DEF DqInv, DqTypeOK, DqPushSuspend
<1>3. DqListsExact' /\ DqCounts'
  BY <1>1 DEF DqInv, DqTypeOK, DqListsExact, DqPushSuspend, DqCounts
<1>4. DqPushers' = DqPushers \ {t} /\ t \in DqPushers /\ DqPoppers' = DqPoppers
  BY DEF DqInv, DqTypeOK, DqPushers, DqPoppers, DqPushSuspend
<1>5. Cardinality(DqPushers') \in Nat
  BY <1>4, DqCountsAreNumbers, FS_RemoveElement, FS_CardinalityType
<1>6. UNCHANGED <<dq_puts, dq_gets, dq_poppers, dq_overrun>> /\ dq_puts - dq_gets >= RingSize
  BY DqIndices DEF DqPushSuspend
<1>7. DqItemsTaken'
  BY <1>4, <1>6 DEF DqInv, DqItemsTaken
<1>8. DqRoomFilled'
  BY <1>5, <1>6, DqNumbers DEF DqRoomFilled
<1> QED  BY <1>2, <1>3, <1>7, <1>8 DEF DqInv

\* Before put_index wraps, a ring that does not look full has a free place for
\* the next item.
LEMMA DqNoneOverwritten ==
  ASSUME DqInv, ~dq_overrun, ~IsFull, dq_puts < IndexModulus
  PROVE  ~Overruns
<1>1. /\ dq_puts \in Nat /\ dq_gets \in Nat /\ dq_gets <= dq_puts
      /\ RingSize \in Nat \ {0} /\ IndexModulus \in Nat /\ dq_puts - dq_gets <= RingSize
  BY DqNumbers, DataQueueAssumption
<1>2. \A k \in 0 .. dq_puts : k % IndexModulus = k
  BY <1>1
<1>3. put_index = dq_puts /\ get_index = dq_gets
  BY <1>1, <1>2 DEF put_index, get_index
<1>4. dq_puts - dq_gets < RingSize
  BY <1>1, <1>3 DEF IsFull
<1>5. ASSUME NEW k \in dq_gets .. dq_puts - 1
      PROVE  Slot(k) # Slot(dq_puts)
  <2> DEFINE d == dq_puts - k
  <2>1. d \in 1 .. RingSize - 1 /\ k \in Nat /\ k + d = dq_puts
    BY <1>1, <1>4
  <2>2. Slot(k) = k % RingSize /\ Slot(dq_puts) = dq_puts % RingSize
    BY <1>1, <1>2 DEF Slot
  <2> HIDE DEF d
  <2> QED  BY <1>1, <2>1, <2>2, DqPlacesDiffer
<1> QED  BY <1>1, <1>4, <1>5 DEF Overruns

\* A push that overwrites nothing has found a place that was free.
LEMMA DqPutFinds ==
  ASSUME DqInv, NEW t \in Threads, DqPushPut(t)
  PROVE  /\ dq_overrun' \in BOOLEAN
         /\ ~dq_overrun' =>
              /\ ~dq_overrun
              /\ dq_puts - dq_gets < RingSize
              /\ \A k \in dq_gets .. dq_puts - 1 : Slot(k) # Slot(dq_puts)
         /\ dq_overrun' => dq_puts >= IndexModulus
<1>1. dq_overrun \in BOOLEAN /\ dq_overrun' = (dq_overrun \/ Overruns) /\ ~IsFull
  BY DEF DqInv, DqTypeOK, DqPushPut
<1>2. /\ dq_overrun' \in BOOLEAN
      /\ ~dq_overrun' => ~dq_overrun /\ ~Overruns
      /\ dq_overrun' => dq_overrun \/ Overruns
  BY <1>1, Zenon
<1>3. ~Overruns => /\ dq_puts - dq_gets < RingSize
                   /\ \A k \in dq_gets .. dq_puts - 1 : Slot(k) # Slot(dq_puts)
  BY DqNumbers DEF Overruns
<1>4. dq_puts \in Nat /\ IndexModulus \in Nat
  BY DqNumbers, DataQueueAssumption
<1>5. CASE ~dq_overrun'
  BY <1>2, <1>3, <1>5
<1>6. CASE dq_overrun'
  <2>1. dq_overrun => dq_puts > IndexModulus
    BY DEF DqInv, DqCounts
  <2>2. ~dq_overrun => dq_puts >= IndexModulus
    BY <1>1, <1>2, <1>4, <1>6, DqNoneOverwritten
  <2> QED  BY <1>2, <1>4, <1>6, <2>1, <2>2
<1> QED  BY <1>5, <1>6

LEMMA DqPushPutKeeps ==
  ASSUME DqInv, NEW t \in Threads, DqPushPut(t)
  PROVE  DqInv'
<1>1. /\ dq_call[t] = "push"
      /\ dq_puts' = dq_puts + 1 /\ dq_puts' \in 0 .. MaxPushes
      /\ dq_overrun' \in BOOLEAN
      /\ ~dq_overrun' => ~dq_overrun /\ dq_puts - dq_gets < RingSize
      /\ dq_overrun' => dq_puts >= IndexModulus
      /\ UNCHANGED <<dq_gets, dq_pushers, dq_time, dq_buffer, dq_reset>>
  <2>1. /\ dq_call[t] = "push"
        /\ dq_puts' = dq_puts + 1 /\ dq_puts' \in 0 .. MaxPushes
        /\ UNCHANGED <<dq_gets, dq_pushers, dq_time, dq_buffer, dq_reset>>
    BY DqNumbers, DataQueueAssumption DEF DqInv, DqTypeOK, DqPushPut
  <2> QED  BY <2>1, DqPutFinds
<1>2. DqCounts'
  BY <1>1, DqNumbers, DataQueueAssumption DEF DqCounts
<1>3. dq_item' \in [0 .. RingSize - 1 -> Items]
  BY DEF DqInv, DqTypeOK, DqPushPut
<1>4. CASE dq_poppers = <<>>
  <2>1. dq_call' = [dq_call EXCEPT ![t] = "pushed"] /\ dq_poppers' = <<>>
    BY <1>4 DEF DqPushPut, DqMoved, DqResumed
  <2>2. DqTypeOK'
    BY <1>1, <1>3, <1>4, <2>1 DEF DqInv, DqTypeOK
  <2>3. DqListsExact'
    BY <1>1, <1>4, <2>1 DEF DqInv, DqTypeOK, DqListsExact
  <2>4. DqPushers' = DqPushers \ {t} /\ t \in DqPushers
    BY <1>1, <2>1 DEF DqInv, DqTypeOK, DqPushers
  <2>5. Cardinality(DqPushers') = Cardinality(DqPushers) - 1
    BY <2>4, MbOneLess, DqCountsAreNumbers
  <2>6. DqItemsTaken'
    BY <2>1 DEF DqItemsTaken
  <2>7. DqRoomFilled'
    <3>1. /\ UNCHANGED dq_pushers
          /\ dq_pushers # <<>> => dq_puts - dq_gets + Cardinality(DqPushers) > Lwm
          /\ dq_puts' = dq_puts + 1 /\ dq_gets' = dq_gets
      BY <1>1 DEF DqInv, DqRoomFilled
    <3>2. dq_puts \in Nat /\ dq_gets \in Nat /\ Cardinality(DqPushers) \in Nat
      BY DqNumbers, DqCountsAreNumbers
    <3>3. dq_puts' - dq_gets' + Cardinality(DqPushers') = dq_puts - dq_gets + Cardinality(DqPushers)
      BY <2>5, <3>1, <3>2
    <3> QED  BY <3>1, <3>3 DEF DqRoomFilled
  <2> QED  BY <1>2, <2>2, <2>3, <2>6, <2>7 DEF DqInv
<1>5. CASE dq_poppers # <<>>
  <2> DEFINE w == Head(dq_poppers)
  <2>1. /\ dq_call' = [dq_call EXCEPT ![t] = "pushed", ![w] = "pop"]
        /\ dq_poppers' = Tail(dq_poppers)
    BY <1>5 DEF DqPushPut, DqMoved, DqResumed
  <2>2. /\ w \in Threads /\ w \in Waiting(dq_poppers)
        /\ dq_poppers' \in Seq(Threads)
        /\ Distinct(dq_poppers')
        /\ Waiting(dq_poppers') = Waiting(dq_poppers) \ {w}
    BY <1>5, <2>1, TailRemovesHead DEF DqInv, DqTypeOK, DqListsExact
  <2>3. dq_call[w] = "pop_wait" /\ w # t
    BY <1>1, <2>2 DEF DqInv, DqListsExact
  <2> HIDE DEF w
  <2>4. DqTypeOK'
    BY <1>1, <1>3, <2>1, <2>2 DEF DqInv, DqTypeOK
  <2>5. DqListsExact'
    BY <1>1, <2>1, <2>2, <2>3 DEF DqInv, DqTypeOK, DqListsExact
  <2>6. /\ DqPushers' = DqPushers \ {t} /\ t \in DqPushers
        /\ DqPoppers' = DqPoppers \cup {w} /\ w \notin DqPoppers
    BY <1>1, <2>1, <2>2, <2>3 DEF DqInv, DqTypeOK, DqPushers, DqPoppers
  <2>7. /\ Cardinality(DqPushers') = Cardinality(DqPushers) - 1
        /\ Cardinality(DqPoppers') = Cardinality(DqPoppers) + 1
    BY <2>6, MbOneLess, MbOneMore, DqCountsAreNumbers
  <2>8. DqItemsTaken'
    <3>1. dq_puts \in Nat /\ dq_gets \in Nat
          /\ Cardinality(DqPoppers) \in Nat
      BY DqNumbers, DqCountsAreNumbers
    <3>2. ~dq_overrun => dq_puts - dq_gets <= Cardinality(DqPoppers)
      BY <1>5 DEF DqInv, DqItemsTaken
    <3>3. /\ dq_puts' = dq_puts + 1 /\ dq_gets' = dq_gets
          /\ ~dq_overrun' => ~dq_overrun
      BY <1>1
    <3> QED  BY <2>7, <3>1, <3>2, <3>3 DEF DqItemsTaken
  <2>9. DqRoomFilled'
    <3>1. /\ UNCHANGED dq_pushers
          /\ dq_pushers # <<>> => dq_puts - dq_gets + Cardinality(DqPushers) > Lwm
          /\ dq_puts' = dq_puts + 1 /\ dq_gets' = dq_gets
      BY <1>1 DEF DqInv, DqRoomFilled
    <3>2. dq_puts \in Nat /\ dq_gets \in Nat /\ Cardinality(DqPushers) \in Nat
      BY DqNumbers, DqCountsAreNumbers
    <3>3. dq_puts' - dq_gets' + Cardinality(DqPushers') = dq_puts - dq_gets + Cardinality(DqPushers)
      BY <2>7, <3>1, <3>2
    <3> QED  BY <3>1, <3>3 DEF DqRoomFilled
  <2> QED  BY <1>2, <2>4, <2>5, <2>8, <2>9 DEF DqInv
<1> QED  BY <1>4, <1>5

-----------------------------------------------------------------------------
(* rt_data_queue_pop *)

LEMMA DqPopCallKeeps ==
  ASSUME DqInv, NEW t \in Threads, NEW time \in Timeouts, DqPopCall(t, time)
  PROVE  DqInv'
<1>1. DqTypeOK'
  BY DEF DqInv, DqTypeOK, DqPopCall
<1>2. DqListsExact' /\ DqCounts'
  BY DEF DqInv, DqTypeOK, DqListsExact, DqPopCall, DqIdle, DqCounts
<1>3. /\ DqPoppers' = DqPoppers \cup {t} /\ t \notin DqPoppers
      /\ DqPushers' = DqPushers
  BY DEF DqInv, DqTypeOK, DqPushers, DqPoppers, DqPopCall, DqIdle
<1>4. Cardinality(DqPoppers') = Cardinality(DqPoppers) + 1
  BY <1>3, MbOneMore, DqCountsAreNumbers
<1>5. UNCHANGED <<dq_puts, dq_gets, dq_pushers, dq_poppers, dq_overrun>>
  BY DEF DqPopCall
<1>6. DqItemsTaken'
  BY <1>4, <1>5, DqNumbers, DqCountsAreNumbers DEF DqInv, DqItemsTaken
<1>7. DqRoomFilled'
  BY <1>3, <1>5 DEF DqInv, DqRoomFilled
<1> QED  BY <1>1, <1>2, <1>6, <1>7 DEF DqInv

\* Without items nobody can have missed one.
LEMMA DqPopEmptyKeeps ==
  ASSUME DqInv, NEW t \in Threads, DqPopEmpty(t)
  PROVE  DqInv'
<1>1. DqTypeOK'
  BY DEF DqInv, DqTypeOK, DqPopEmpty
<1>2. DqListsExact' /\ DqCounts'
  BY DEF DqInv, DqTypeOK, DqListsExact, DqPopEmpty, DqCounts
<1>3. DqPoppers' = DqPoppers \ {t} /\ t \in DqPoppers /\ DqPushers' = DqPushers
  BY DEF DqInv, DqTypeOK, DqPushers, DqPoppers, DqPopEmpty
<1>4. Cardinality(DqPoppers') \in Nat
  BY <1>3, DqCountsAreNumbers, FS_RemoveElement, FS_CardinalityType
<1>5. /\ UNCHANGED <<dq_puts, dq_gets, dq_pushers, dq_poppers, dq_overrun>>
      /\ ~dq_overrun => dq_puts = dq_gets
  BY DqIndices DEF DqPopEmpty
<1>6. DqItemsTaken'
  BY <1>4, <1>5, DqNumbers DEF DqItemsTaken
<1>7. DqRoomFilled'
  BY <1>3, <1>5 DEF DqInv, DqRoomFilled
<1> QED  BY <1>1, <1>2, <1>6, <1>7 DEF DqInv

LEMMA DqPopSuspendKeeps ==
  ASSUME DqInv, NEW t \in Threads, DqPopSuspend(t)
  PROVE  DqInv'
<1>1. /\ dq_poppers' \in Seq(Threads)
      /\ Distinct(dq_poppers')
      /\ Waiting(dq_poppers') = Waiting(dq_poppers) \cup {t}
  <2>1. t \notin Waiting(dq_poppers)
    BY DEF DqInv, DqListsExact, DqPopSuspend
  <2> QED  BY <2>1, EnqueueLastAdds DEF DqInv, DqTypeOK, DqListsExact, DqPopSuspend
<1>2. DqTypeOK'
  BY <1>1 DEF DqInv, DqTypeOK, DqPopSuspend
<1>3. DqListsExact' /\ DqCounts'
  BY <1>1 DEF DqInv, DqTypeOK, DqListsExact, DqPopSuspend, DqCounts
<1>4. DqPoppers' = DqPoppers \ {t} /\ t \in DqPoppers /\ DqPushers' = DqPushers
  BY DEF DqInv, DqTypeOK, DqPushers, DqPoppers, DqPopSuspend
<1>5. Cardinality(DqPoppers') \in Nat
  BY <1>4, DqCountsAreNumbers, FS_RemoveElement, FS_CardinalityType
<1>6. /\ UNCHANGED <<dq_puts, dq_gets, dq_pushers, dq_overrun>>
      /\ ~dq_overrun => dq_puts = dq_gets
  BY DqIndices DEF DqPopSuspend
<1>7. DqItemsTaken'
  BY <1>5, <1>6, DqNumbers DEF DqItemsTaken
<1>8. DqRoomFilled'
  BY <1>4, <1>6 DEF DqInv, DqRoomFilled
<1> QED  BY <1>2, <1>3, <1>7, <1>8 DEF DqInv

\* A pop above the low water mark leaves the pushers asleep.
LEMMA DqPopTakeKeeps ==
  ASSUME DqInv, NEW t \in Threads, DqPopTake(t)
  PROVE  DqInv'
<1>1. /\ dq_call[t] = "pop"
      /\ dq_gets' = dq_gets + 1 /\ dq_gets < dq_puts
      /\ UNCHANGED <<dq_puts, dq_item, dq_poppers, dq_time, dq_reset, dq_overrun>>
  BY DqIndices, DqNumbers DEF DqPopTake
<1>2. DqCounts' /\ dq_gets' \in 0 .. MaxPushes
  BY <1>1, DqNumbers, DataQueueAssumption DEF DqInv, DqTypeOK, DqCounts
<1>3. dq_buffer' \in [Threads -> Items]
  <2>1. Slot(dq_gets) \in 0 .. RingSize - 1
    BY DqNumbers, SlotType
  <2> QED  BY <2>1 DEF DqInv, DqTypeOK, DqPopTake
<1>4. /\ Awakened # <<>> => Awakened = dq_pushers
      /\ Awakened = <<>> /\ dq_pushers # <<>> => dq_puts - dq_gets' > Lwm
  BY <1>1, DqIndices
<1>5. CASE Awakened = <<>>
  <2>1. /\ dq_call' = [dq_call EXCEPT ![t] = "popped"] /\ dq_pushers' = dq_pushers
        /\ dq_pushers # <<>> => dq_puts - dq_gets' > Lwm
    BY <1>1, <1>4, <1>5, DqNumbers DEF DqPopTake, DqMoved
  <2>2. DqTypeOK'
    BY <1>1, <1>2, <1>3, <2>1 DEF DqInv, DqTypeOK
  <2>3. DqListsExact'
    BY <1>1, <2>1 DEF DqInv, DqTypeOK, DqListsExact
  <2>4. DqPoppers' = DqPoppers \ {t} /\ t \in DqPoppers /\ DqPushers' = DqPushers
    BY <1>1, <2>1 DEF DqInv, DqTypeOK, DqPushers, DqPoppers
  <2>5. Cardinality(DqPoppers') = Cardinality(DqPoppers) - 1
    BY <2>4, MbOneLess, DqCountsAreNumbers
  <2>6. DqItemsTaken'
    BY <1>1, <2>5, DqNumbers, DqCountsAreNumbers DEF DqInv, DqItemsTaken
  <2>7. DqRoomFilled'
    BY <1>1, <2>1, <2>4, DqNumbers, DqCountsAreNumbers DEF DqRoomFilled
  <2> QED  BY <1>2, <2>2, <2>3, <2>6, <2>7 DEF DqInv
<1>6. CASE Awakened # <<>>
  <2> DEFINE w == Head(dq_pushers)
  <2>1. /\ dq_call' = [dq_call EXCEPT ![t] = "popped", ![w] = "push"]
        /\ dq_pushers # <<>> /\ dq_pushers' = Tail(dq_pushers)
    BY <1>4, <1>6 DEF DqPopTake, DqMoved
  <2>2. /\ w \in Threads /\ w \in Waiting(dq_pushers)
        /\ dq_pushers' \in Seq(Threads)
        /\ Distinct(dq_pushers')
        /\ Waiting(dq_pushers') = Waiting(dq_pushers) \ {w}
    BY <2>1, TailRemovesHead DEF DqInv, DqTypeOK, DqListsExact
  <2>3. dq_call[w] = "push_wait" /\ w # t
    BY <1>1, <2>2 DEF DqInv, DqListsExact
  <2> HIDE DEF w
  <2>4. DqTypeOK'
    BY <1>1, <1>2, <1>3, <2>1, <2>2 DEF DqInv, DqTypeOK
  <2>5. DqListsExact'
    BY <1>1, <2>1, <2>2, <2>3 DEF DqInv, DqTypeOK, DqListsExact
  <2>6. /\ DqPoppers' = DqPoppers \ {t} /\ t \in DqPoppers
        /\ DqPushers' = DqPushers \cup {w} /\ w \notin DqPushers
    BY <1>1, <2>1, <2>2, <2>3 DEF DqInv, DqTypeOK, DqPushers, DqPoppers
  <2>7. /\ Cardinality(DqPoppers') = Cardinality(DqPoppers) - 1
        /\ Cardinality(DqPushers') = Cardinality(DqPushers) + 1
    BY <2>6, MbOneLess, MbOneMore, DqCountsAreNumbers
  <2>8. DqItemsTaken'
    BY <1>1, <2>7, DqNumbers, DqCountsAreNumbers DEF DqInv, DqItemsTaken
  <2>9. DqRoomFilled'
    <3>1. /\ dq_puts - dq_gets + Cardinality(DqPushers) > Lwm
          /\ dq_puts' = dq_puts /\ dq_gets' = dq_gets + 1
      BY <1>1, <2>1 DEF DqInv, DqRoomFilled
    <3>2. dq_puts \in Nat /\ dq_gets \in Nat /\ Cardinality(DqPushers) \in Nat
      BY DqNumbers, DqCountsAreNumbers
    <3>3. dq_puts' - dq_gets' + Cardinality(DqPushers') = dq_puts - dq_gets + Cardinality(DqPushers)
      BY <2>7, <3>1, <3>2
    <3> QED  BY <3>1, <3>3 DEF DqRoomFilled
  <2> QED  BY <1>2, <2>4, <2>5, <2>8, <2>9 DEF DqInv
<1> QED  BY <1>5, <1>6

-----------------------------------------------------------------------------
(* Timers, returns and rt_data_queue_reset *)

\* Taking a thread off its list wakes nobody else and loses nothing.
LEMMA DqTimeoutKeeps ==
  ASSUME DqInv, NEW t \in Threads, DqTimeout(t)
  PROVE  DqInv'
<1>1. CASE dq_call[t] = "push_wait"
  <2>1. /\ dq_pushers' = Unlink(dq_pushers, t) /\ dq_poppers' = dq_poppers
        /\ dq_call' = [dq_call EXCEPT ![t] = "push_error"]
    BY <1>1 DEF DqTimeout
  <2>2. t \in Waiting(dq_pushers) /\ dq_pushers # <<>>
    BY <1>1 DEF DqInv, DqListsExact, Waiting
  <2>3. /\ dq_pushers' \in Seq(Threads)
        /\ Distinct(dq_pushers')
        /\ Waiting(dq_pushers') = Waiting(dq_pushers) \ {t}
    BY <2>1, <2>2, UnlinkRemoves DEF DqInv, DqTypeOK, DqListsExact
  <2>4. DqTypeOK'
    BY <2>1, <2>3 DEF DqInv, DqTypeOK, DqTimeout
  <2>5. DqListsExact' /\ DqCounts'
    BY <1>1, <2>1, <2>3 DEF DqInv, DqTypeOK, DqListsExact, DqTimeout, DqCounts
  <2>6. DqPoppers' = DqPoppers /\ DqPushers' = DqPushers
    BY <1>1, <2>1 DEF DqInv, DqTypeOK, DqPushers, DqPoppers
  <2>7. DqItemsTaken' /\ DqRoomFilled'
    BY <2>1, <2>2, <2>6, DqNobodyMisses DEF DqTimeout
  <2> QED  BY <2>4, <2>5, <2>7 DEF DqInv
<1>2. CASE dq_call[t] = "pop_wait"
  <2>1. /\ dq_poppers' = Unlink(dq_poppers, t) /\ dq_pushers' = dq_pushers
        /\ dq_call' = [dq_call EXCEPT ![t] = "pop_error"]
    BY <1>2 DEF DqTimeout
  <2>2. t \in Waiting(dq_poppers) /\ dq_poppers # <<>>
    BY <1>2 DEF DqInv, DqListsExact, Waiting
  <2>3. /\ dq_poppers' \in Seq(Threads)
        /\ Distinct(dq_poppers')
        /\ Waiting(dq_poppers') = Waiting(dq_poppers) \ {t}
    BY <2>1, <2>2, UnlinkRemoves DEF DqInv, DqTypeOK, DqListsExact
  <2>4. DqTypeOK'
    BY <2>1, <2>3 DEF DqInv, DqTypeOK, DqTimeout
  <2>5. DqListsExact' /\ DqCounts'
    BY <1>2, <2>1, <2>3 DEF DqInv, DqTypeOK, DqListsExact, DqTimeout, DqCounts
  <2>6. DqPoppers' = DqPoppers /\ DqPushers' = DqPushers
    BY <1>2, <2>1 DEF DqInv, DqTypeOK, DqPushers, DqPoppers
  <2>7. DqItemsTaken' /\ DqRoomFilled'
    BY <2>1, <2>2, <2>6, DqNobodyMisses DEF DqTimeout
  <2> QED  BY <2>4, <2>5, <2>7 DEF DqInv
<1> QED  BY <1>1, <1>2 DEF DqTimeout

LEMMA DqReturnKeeps ==
  ASSUME DqInv, NEW t \in Threads, DqReturn(t)
  PROVE  DqInv'
<1>1. PICK to \in DqIdle : dq_call' = [dq_call EXCEPT ![t] = to]
  BY DEF DqReturn, DqIdle
<1>2. DqTypeOK'
  BY <1>1 DEF DqInv, DqTypeOK, DqReturn, Timeouts
<1>3. DqListsExact' /\ DqCounts'
  BY <1>1 DEF DqInv, DqTypeOK, DqListsExact, DqReturn, DqIdle, DqCounts
<1>4. DqPoppers' = DqPoppers /\ DqPushers' = DqPushers
  BY <1>1 DEF DqInv, DqTypeOK, DqPushers, DqPoppers, DqReturn, DqIdle
<1>5. DqItemsTaken' /\ DqRoomFilled'
  BY <1>4, DqNobodyMisses DEF DqReturn
<1> QED  BY <1>2, <1>3, <1>5 DEF DqInv

LEMMA DqResetResumeKeeps ==
  ASSUME DqInv, DqResetPopper \/ DqResetPusher
  PROVE  DqInv'
<1>1. CASE DqResetPopper
  <2> DEFINE w == Head(dq_poppers)
  <2>1. /\ w \in Threads /\ w \in Waiting(dq_poppers)
        /\ dq_poppers' \in Seq(Threads)
        /\ Distinct(dq_poppers')
        /\ Waiting(dq_poppers') = Waiting(dq_poppers) \ {w}
    BY <1>1, TailRemovesHead DEF DqInv, DqTypeOK, DqListsExact, DqResetPopper
  <2>2. dq_call[w] = "pop_wait" /\ dq_call' = [dq_call EXCEPT ![w] = "pop_error"]
    BY <1>1, <2>1 DEF DqInv, DqListsExact, DqResetPopper
  <2> HIDE DEF w
  <2>3. DqTypeOK'
    BY <1>1, <2>1, <2>2 DEF DqInv, DqTypeOK, DqResetPopper
  <2>4. DqListsExact' /\ DqCounts'
    BY <1>1, <2>1, <2>2 DEF DqInv, DqTypeOK, DqListsExact, DqResetPopper, DqCounts
  <2>5. DqPoppers' = DqPoppers /\ DqPushers' = DqPushers
    BY <2>1, <2>2 DEF DqInv, DqTypeOK, DqPushers, DqPoppers
  <2>6. DqItemsTaken' /\ DqRoomFilled'
    BY <1>1, <2>5, DqNobodyMisses DEF DqResetPopper
  <2> QED  BY <2>3, <2>4, <2>6 DEF DqInv
<1>2. CASE DqResetPusher
  <2> DEFINE w == Head(dq_pushers)
  <2>1. /\ w \in Threads /\ w \in Waiting(dq_pushers)
        /\ dq_pushers' \in Seq(Threads)
        /\ Distinct(dq_pushers')
        /\ Waiting(dq_pushers') = Waiting(dq_pushers) \ {w}
    BY <1>2, TailRemovesHead DEF DqInv, DqTypeOK, DqListsExact, DqResetPusher
  <2>2. dq_call[w] = "push_wait" /\ dq_call' = [dq_call EXCEPT ![w] = "push_error"]
    BY <1>2, <2>1 DEF DqInv, DqListsExact, DqResetPusher
  <2> HIDE DEF w
  <2>3. DqTypeOK'
    BY <1>2, <2>1, <2>2 DEF DqInv, DqTypeOK, DqResetPusher
  <2>4. DqListsExact' /\ DqCounts'
    BY <1>2, <2>1, <2>2 DEF DqInv, DqTypeOK, DqListsExact, DqResetPusher, DqCounts
  <2>5. DqPoppers' = DqPoppers /\ DqPushers' = DqPushers
    BY <2>1, <2>2 DEF DqInv, DqTypeOK, DqPushers, DqPoppers
  <2>6. DqItemsTaken' /\ DqRoomFilled'
    BY <1>2, <2>5, DqNobodyMisses DEF DqResetPusher
  <2> QED  BY <2>3, <2>4, <2>6 DEF DqInv
<1> QED  BY <1>1, <1>2

\* The other steps of a reset only move it on.
LEMMA DqOtherKeeps ==
  ASSUME DqInv, dq_reset' \in {"no", "poppers", "popper", "pushers", "pusher", "lost"},
         UNCHANGED <<dq_puts, dq_gets, dq_item, dq_pushers, dq_poppers, dq_call,
                     dq_time, dq_buffer, dq_overrun>>
  PROVE  DqInv'
BY DEF DqInv, DqTypeOK, DqListsExact, DqCounts, DqItemsTaken, DqRoomFilled, DqPoppers,
       DqPushers

-----------------------------------------------------------------------------
(* The specification *)

LEMMA DqInitEstablishes == DqInit => DqInv
<1> SUFFICES ASSUME DqInit  PROVE DqInv
  OBVIOUS
<1>1. /\ dq_pushers = <<>> /\ dq_poppers = <<>> /\ dq_puts = 0 /\ dq_gets = 0
      /\ dq_call = [t \in Threads |-> "none"]
  BY DEF DqInit
<1>2. DqTypeOK
  <2>1. dq_overrun \in BOOLEAN
    BY Zenon DEF DqInit
  <2>2. /\ dq_puts \in 0 .. MaxPushes /\ dq_gets \in 0 .. MaxPushes
        /\ dq_item \in [0 .. RingSize - 1 -> Items] /\ dq_buffer \in [Threads -> Items]
    BY <1>1, DataQueueAssumption DEF DqInit
  <2>3. /\ dq_pushers \in Seq(Threads) /\ dq_poppers \in Seq(Threads)
        /\ dq_call \in [Threads -> DqIdle] /\ dq_time \in [Threads -> Timeouts]
        /\ dq_reset = "no"
    BY <1>1 DEF DqInit, DqIdle, Timeouts
  <2> QED  BY <2>1, <2>2, <2>3 DEF DqTypeOK
<1>3. DqListsExact
  BY <1>1 DEF DqListsExact, Distinct, Waiting
<1>4. DqCounts
  <2>1. ~dq_overrun
    BY Zenon DEF DqInit
  <2> QED  BY <1>1, <2>1, DataQueueAssumption DEF DqCounts
<1>5. DqItemsTaken /\ DqRoomFilled
  BY <1>1 DEF DqItemsTaken, DqRoomFilled
<1> QED  BY <1>2, <1>3, <1>4, <1>5 DEF DqInv

LEMMA DqStepKeeps ==
  ASSUME DqInv, [DqNext]_dqVars
  PROVE  DqInv'
<1>1. ASSUME NEW t \in Threads, NEW m \in Items, NEW time \in Timeouts, DqPushCall(t, m, time)
      PROVE  DqInv'
  BY <1>1, DqPushCallKeeps
<1>2. ASSUME NEW t \in Threads, NEW time \in Timeouts, DqPopCall(t, time)
      PROVE  DqInv'
  BY <1>2, DqPopCallKeeps
<1>3. ASSUME NEW t \in Threads, DqPushFull(t) \/ DqPushSuspend(t) \/ DqPushPut(t)
      PROVE  DqInv'
  BY <1>3, DqPushFullKeeps, DqPushSuspendKeeps, DqPushPutKeeps
<1>4. ASSUME NEW t \in Threads, DqPopEmpty(t) \/ DqPopSuspend(t) \/ DqPopTake(t)
      PROVE  DqInv'
  BY <1>4, DqPopEmptyKeeps, DqPopSuspendKeeps, DqPopTakeKeeps
<1>5. ASSUME NEW t \in Threads, DqTimeout(t) \/ DqReturn(t)  PROVE DqInv'
  BY <1>5, DqTimeoutKeeps, DqReturnKeeps
<1>6. ASSUME NEW t \in Threads, DqStep(t)  PROVE DqInv'
  BY <1>1, <1>2, <1>3, <1>4, <1>5, <1>6 DEF DqStep
<1>7. CASE DqResetPopper \/ DqResetPusher
  BY <1>7, DqResetResumeKeeps
<1>8. CASE DqResetCall \/ DqResetTest \/ DqResetHead
  BY <1>8, DqOtherKeeps DEF DqResetCall, DqResetTest, DqResetHead
<1>9. CASE UNCHANGED dqVars
  BY <1>9, DqOtherKeeps DEF dqVars, DqInv, DqTypeOK
<1> QED  BY <1>6, <1>7, <1>8, <1>9 DEF DqNext, DqResetStep

\* The invariant holds in every reachable state of a data queue.
THEOREM DqInvariance == DqSpec => []DqInv
<1>1. DqInv /\ [DqNext]_dqVars => DqInv'
  BY DqStepKeeps
<1> QED  BY DqInitEstablishes, <1>1, PTL DEF DqSpec

\* The two sides of rt_data_queue_push and rt_data_queue_pop resume enough of
\* each other also though a pop above the low water mark resumes nobody, the
\* poppers until an item is overwritten.
THEOREM SomeoneComes == DqSpec => []DqSomeoneComes
<1>1. DqInv => DqSomeoneComes
  BY DEF DqInv, DqItemsTaken, DqRoomFilled, DqPoppers, DqPushers, DqSomeoneComes
<1> QED  BY DqInvariance, <1>1, PTL

-----------------------------------------------------------------------------
(* The ring as a sequence *)

\* The place of the i-th item.
DqPlace(i) == Slot(dq_gets + i - 1)

LEMMA DqPlaceType ==
  ASSUME DqInv, NEW i \in Nat \ {0}
  PROVE  DqPlace(i) \in 0 .. RingSize - 1
<1>1. dq_gets + i - 1 \in Nat
  BY DqNumbers
<1> QED  BY <1>1, SlotType DEF DqPlace

\* The mapping as the proofs below use it.
LEMMA DqQueueIs ==
  ASSUME DqInv
  PROVE  /\ DqFifoQueue = [i \in 1 .. dq_puts - dq_gets |-> dq_item[DqPlace(i)]]
         /\ DqFifoQueue \in Seq(Items)
         /\ Len(DqFifoQueue) = dq_puts - dq_gets
         /\ dq_puts - dq_gets \in Nat
<1>1. dq_puts - dq_gets \in Nat /\ dq_item \in [0 .. RingSize - 1 -> Items]
  BY DqNumbers DEF DqInv, DqTypeOK
<1>2. DqFifoQueue = [i \in 1 .. dq_puts - dq_gets |-> dq_item[DqPlace(i)]]
  BY DEF DqFifoQueue, DqPlace
<1>3. \A i \in 1 .. dq_puts - dq_gets : dq_item[DqPlace(i)] \in Items
  BY <1>1, DqPlaceType
<1> DEFINE q == [i \in 1 .. dq_puts - dq_gets |-> dq_item[DqPlace(i)]]
<1>4. q \in [1 .. dq_puts - dq_gets -> Items]
  BY <1>3
<1> HIDE DEF q
<1>5. q \in Seq(Items) /\ Len(q) = dq_puts - dq_gets
  BY <1>1, <1>4
<1> QED  BY <1>1, <1>2, <1>5 DEF q

\* rt_data_queue_push appends.
LEMMA DqPutAppends ==
  ASSUME DqInv, DqInv', NEW t \in Threads, DqPushPut(t), ~dq_overrun'
  PROVE  /\ Len(DqFifoQueue) < RingSize
         /\ DqFifoQueue' = Append(DqFifoQueue, dq_buffer[t])
<1> DEFINE n == dq_puts - dq_gets
<1>1. /\ dq_item \in [0 .. RingSize - 1 -> Items]
      /\ dq_item' = [dq_item EXCEPT ![Slot(dq_puts)] = dq_buffer[t]]
      /\ dq_puts' = dq_puts + 1 /\ dq_gets' = dq_gets
      /\ n < RingSize
      /\ \A k \in dq_gets .. dq_puts - 1 : Slot(k) # Slot(dq_puts)
      /\ dq_buffer[t] \in Items
  <2>1. /\ dq_item \in [0 .. RingSize - 1 -> Items]
        /\ dq_item' = [dq_item EXCEPT ![Slot(dq_puts)] = dq_buffer[t]]
        /\ dq_puts' = dq_puts + 1 /\ dq_gets' = dq_gets
        /\ dq_buffer[t] \in Items
    BY DEF DqPushPut, DqInv, DqTypeOK
  <2> QED  BY <2>1, DqPutFinds
<1>2. /\ dq_puts \in Nat /\ dq_gets \in Nat /\ RingSize \in Nat \ {0}
      /\ n \in Nat /\ n < RingSize /\ dq_puts = dq_gets + n
  BY <1>1, DqNumbers
<1>3. /\ DqFifoQueue \in Seq(Items) /\ Len(DqFifoQueue) = n
      /\ DqFifoQueue = [i \in 1 .. n |-> dq_item[DqPlace(i)]]
      /\ DqFifoQueue' = [i \in 1 .. n + 1 |-> dq_item'[DqPlace(i)]]
  <2>1. DqFifoQueue' = [i \in 1 .. dq_puts' - dq_gets' |->
                          dq_item'[Slot(dq_gets' + i - 1)]]
    BY DEF DqFifoQueue, Slot
  <2>2. dq_puts' - dq_gets' = n + 1
    BY <1>1, <1>2
  <2>3. DqFifoQueue' = [i \in 1 .. n + 1 |-> dq_item'[DqPlace(i)]]
    BY <1>1, <2>1, <2>2 DEF DqPlace
  <2> QED  BY <2>3, DqQueueIs
<1> HIDE DEF n
<1>4. DqPlace(n + 1) = Slot(dq_puts) /\ DqPlace(n + 1) \in 0 .. RingSize - 1
  <2>1. dq_gets + (n + 1) - 1 = dq_puts /\ n + 1 \in Nat \ {0}
    BY <1>2
  <2> QED  BY <2>1, DqPlaceType DEF DqPlace
<1>5. ASSUME NEW i \in 1 .. n
      PROVE  DqPlace(i) # DqPlace(n + 1) /\ DqPlace(i) \in 0 .. RingSize - 1
  <2>1. dq_gets + i - 1 \in dq_gets .. dq_puts - 1 /\ i \in Nat \ {0}
    BY <1>2
  <2> QED  BY <1>1, <1>4, <2>1, DqPlaceType DEF DqPlace
<1>6. \A i \in 1 .. n : dq_item'[DqPlace(i)] = dq_item[DqPlace(i)]
  BY <1>1, <1>4, <1>5
<1>7. dq_item'[DqPlace(n + 1)] = dq_buffer[t]
  BY <1>1, <1>4
<1>8. Append(DqFifoQueue, dq_buffer[t])
        = [i \in 1 .. n + 1 |-> IF i = n + 1 THEN dq_buffer[t] ELSE DqFifoQueue[i]]
  BY <1>1, <1>2, <1>3
<1>9. DqFifoQueue' = Append(DqFifoQueue, dq_buffer[t])
  BY <1>2, <1>3, <1>6, <1>7, <1>8
<1> QED  BY <1>2, <1>3, <1>9

\* rt_data_queue_pop takes the first.
LEMMA DqTakeRemoves ==
  ASSUME DqInv, DqInv', NEW t \in Threads, DqPopTake(t)
  PROVE  /\ DqFifoQueue # <<>>
         /\ Head(DqFifoQueue) = dq_item[Slot(dq_gets)]
         /\ DqFifoQueue' = Tail(DqFifoQueue)
<1> DEFINE n == dq_puts - dq_gets
<1>1. /\ dq_item' = dq_item
      /\ dq_puts' = dq_puts /\ dq_gets' = dq_gets + 1
      /\ dq_puts # dq_gets
  BY DEF DqPopTake, IsEmpty, put_index, get_index
<1>2. /\ dq_puts \in Nat /\ dq_gets \in Nat
      /\ n \in Nat \ {0} /\ dq_puts' - dq_gets' = n - 1
  BY <1>1, DqNumbers
<1>3. /\ DqFifoQueue \in Seq(Items) /\ Len(DqFifoQueue) = n
      /\ DqFifoQueue = [i \in 1 .. n |-> dq_item[DqPlace(i)]]
  BY DqQueueIs
<1>4. DqFifoQueue' = [i \in 1 .. n - 1 |-> dq_item[DqPlace(i + 1)]]
  <2>1. DqFifoQueue' = [i \in 1 .. dq_puts' - dq_gets' |->
                          dq_item'[Slot(dq_gets' + i - 1)]]
    BY DEF DqFifoQueue, Slot
  <2>2. \A i \in 1 .. n - 1 : dq_gets' + i - 1 = dq_gets + (i + 1) - 1
    BY <1>1, <1>2
  <2>3. \A i \in 1 .. n - 1 : Slot(dq_gets' + i - 1) = DqPlace(i + 1)
    BY <2>2 DEF DqPlace
  <2> QED  BY <1>1, <1>2, <2>1, <2>3
<1> HIDE DEF n
<1>5. DqFifoQueue # <<>>
  BY <1>2, <1>3
<1>6. Head(DqFifoQueue) = dq_item[Slot(dq_gets)]
  <2>1. dq_gets + 1 - 1 = dq_gets
    BY <1>2
  <2>2. DqPlace(1) = Slot(dq_gets)
    BY <2>1 DEF DqPlace
  <2>3. 1 \in 1 .. n
    BY <1>2
  <2>4. DqFifoQueue[1] = dq_item[DqPlace(1)]
    BY <1>3, <2>3
  <2>5. Head(DqFifoQueue) = DqFifoQueue[1]
    <3>1. DqFifoQueue \in Seq(Items)
      BY <1>3
    <3> QED  BY <3>1, <1>5
  <2> QED  BY <2>2, <2>4, <2>5
<1>7. Tail(DqFifoQueue) = [i \in 1 .. n - 1 |-> DqFifoQueue[i + 1]]
  BY <1>3, <1>5, TailIs
<1>8. \A i \in 1 .. n - 1 : DqFifoQueue[i + 1] = dq_item[DqPlace(i + 1)]
  <2>1. \A i \in 1 .. n - 1 : i + 1 \in 1 .. n
    BY <1>2
  <2> QED  BY <1>3, <2>1
<1>9. DqFifoQueue' = Tail(DqFifoQueue)
  BY <1>4, <1>7, <1>8
<1> QED  BY <1>5, <1>6, <1>9

-----------------------------------------------------------------------------
(* DataQueue implements BoundedFifo *)

\* What the points of a call are for the caller.
LEMMA DqPoints ==
  /\ \A p \in DqIdle : DqPoint(p) = "idle"
  /\ DqPoint("push") = "push" /\ DqPoint("push_wait") = "push"
  /\ DqPoint("pop") = "pop" /\ DqPoint("pop_wait") = "pop"
  /\ DqPoint("pushed") = "pushed" /\ DqPoint("popped") = "popped"
  /\ DqPoint("push_error") = "refused" /\ DqPoint("pop_error") = "refused"
BY DEF DqPoint, DqIdle

\* What the mapping says of one thread.
LEMMA DqFifoAt ==
  ASSUME NEW t \in Threads
  PROVE  /\ DqFifoCall[t] = DqPoint(dq_call[t])
         /\ DqFifoPatience[t] = IF dq_time[t] = "forever" THEN "forever" ELSE "limited"
BY DEF DqFifoCall, DqFifoPatience

\* A thread that moves on moves on for its caller.
LEMMA DqCallMoves ==
  ASSUME DqTypeOK, NEW t \in Threads, NEW p, dq_call' = [dq_call EXCEPT ![t] = p]
  PROVE  /\ DqFifoCall' = [DqFifoCall EXCEPT ![t] = DqPoint(p)]
         /\ DqFifoResult' = [DqFifoResult EXCEPT ![t] = IF p \in DqIdle THEN p ELSE "none"]
BY DEF DqFifoCall, DqFifoResult, DqTypeOK

\* Between two points inside calls no result is to be seen.
LEMMA DqResultStays ==
  ASSUME \A u \in Threads : dq_call'[u] = dq_call[u]
                             \/ (dq_call[u] \notin DqIdle /\ dq_call'[u] \notin DqIdle)
  PROVE  DqFifoResult' = DqFifoResult
BY DEF DqFifoResult

\* What leaves the ring and the indices alone leaves the queue.
LEMMA DqQueueStays ==
  UNCHANGED <<dq_puts, dq_gets, dq_item>> => DqFifoQueue' = DqFifoQueue
BY DEF DqFifoQueue, Slot

LEMMA DqPatienceStays == dq_time' = dq_time => DqFifoPatience' = DqFifoPatience
BY DEF DqFifoPatience

LEMMA DqPushCallMaps ==
  ASSUME DqInv, NEW t \in Threads, NEW m \in Items, NEW time \in Timeouts,
         DqPushCall(t, m, time)
  PROVE  DqFifo!FifoCallPush(t)
<1>1. /\ dq_call[t] \in DqIdle
      /\ dq_call' = [dq_call EXCEPT ![t] = "push"]
      /\ dq_time' = [dq_time EXCEPT ![t] = time]
      /\ dq_buffer' = [dq_buffer EXCEPT ![t] = m]
      /\ DqTypeOK /\ "push" \notin DqIdle
  BY DEF DqPushCall, DqIdle, DqInv
<1>2. DqFifoCall[t] = "idle"
  BY <1>1, DqFifoAt, DqPoints
<1>3. /\ DqFifoCall' = [DqFifoCall EXCEPT ![t] = "push"]
      /\ DqFifoResult' = [DqFifoResult EXCEPT ![t] = "none"]
  <2>1. /\ DqFifoCall' = [DqFifoCall EXCEPT ![t] = DqPoint("push")]
        /\ DqFifoResult' = [DqFifoResult EXCEPT
                              ![t] = IF "push" \in DqIdle THEN "push" ELSE "none"]
    BY <1>1, DqCallMoves
  <2> QED  BY <1>1, <2>1, DqPoints
<1>4. \E w \in {"limited", "forever"} : DqFifoPatience' = [DqFifoPatience EXCEPT ![t] = w]
  BY <1>1 DEF DqFifoPatience, DqTypeOK
<1>5. DqFifoQueue' = DqFifoQueue
  BY DqQueueStays DEF DqPushCall
<1> QED  BY <1>1, <1>2, <1>3, <1>4, <1>5 DEF DqFifo!FifoCallPush

LEMMA DqPopCallMaps ==
  ASSUME DqInv, NEW t \in Threads, NEW time \in Timeouts, DqPopCall(t, time)
  PROVE  DqFifo!FifoCallPop(t)
<1>1. /\ dq_call[t] \in DqIdle
      /\ dq_call' = [dq_call EXCEPT ![t] = "pop"]
      /\ dq_time' = [dq_time EXCEPT ![t] = time]
      /\ dq_buffer' = dq_buffer
      /\ DqTypeOK /\ "pop" \notin DqIdle
  BY DEF DqPopCall, DqIdle, DqInv
<1>2. DqFifoCall[t] = "idle"
  BY <1>1, DqFifoAt, DqPoints
<1>3. /\ DqFifoCall' = [DqFifoCall EXCEPT ![t] = "pop"]
      /\ DqFifoResult' = [DqFifoResult EXCEPT ![t] = "none"]
  <2>1. /\ DqFifoCall' = [DqFifoCall EXCEPT ![t] = DqPoint("pop")]
        /\ DqFifoResult' = [DqFifoResult EXCEPT
                              ![t] = IF "pop" \in DqIdle THEN "pop" ELSE "none"]
    BY <1>1, DqCallMoves
  <2> QED  BY <1>1, <2>1, DqPoints
<1>4. \E w \in {"limited", "forever"} : DqFifoPatience' = [DqFifoPatience EXCEPT ![t] = w]
  BY <1>1 DEF DqFifoPatience, DqTypeOK
<1>5. DqFifoQueue' = DqFifoQueue
  BY DqQueueStays DEF DqPopCall
<1> QED  BY <1>1, <1>2, <1>3, <1>4, <1>5 DEF DqFifo!FifoCallPop

\* No time to wait, or no more of it: t is refused.
LEMMA DqRefusedMaps ==
  ASSUME DqInv, NEW t \in Threads,
         dq_call[t] \in {"push", "push_wait", "pop", "pop_wait"}, dq_time[t] # "forever",
         NEW p \in {"push_error", "pop_error"}, dq_call' = [dq_call EXCEPT ![t] = p],
         UNCHANGED <<dq_puts, dq_gets, dq_item, dq_time, dq_buffer>>
  PROVE  DqFifo!FifoRefuse(t)
<1>1. DqTypeOK /\ p \notin DqIdle /\ dq_call[t] \notin DqIdle
  BY DEF DqIdle, DqInv
<1>2. DqFifoCall[t] \in {"push", "urgent", "pop"} /\ DqFifoPatience[t] # "forever"
  BY DqFifoAt, DqPoints
<1>3. DqFifoCall' = [DqFifoCall EXCEPT ![t] = "refused"]
  <2>1. DqFifoCall' = [DqFifoCall EXCEPT ![t] = DqPoint(p)]
    BY <1>1, DqCallMoves
  <2>2. DqPoint(p) = "refused"
    BY DqPoints
  <2> QED  BY <2>1, <2>2
<1>4. DqFifoResult' = DqFifoResult
  BY <1>1, DqResultStays DEF DqTypeOK
<1>5. UNCHANGED <<DqFifoQueue, DqFifoPatience>>
  BY DqQueueStays, DqPatienceStays
<1> QED
  BY <1>2, <1>3, <1>4, <1>5 DEF DqFifo!FifoRefuse, DqFifo!MayGiveUp, DqFifo!Pending

\* The queue sees nothing of a thread that goes to sleep.
LEMMA DqSuspendMaps ==
  ASSUME DqInv, NEW t \in Threads, DqPushSuspend(t) \/ DqPopSuspend(t)
  PROVE  UNCHANGED (DqFifo!fifoVars)
<1>1. /\ \/ dq_call[t] = "push" /\ dq_call' = [dq_call EXCEPT ![t] = "push_wait"]
         \/ dq_call[t] = "pop" /\ dq_call' = [dq_call EXCEPT ![t] = "pop_wait"]
      /\ UNCHANGED <<dq_puts, dq_gets, dq_item, dq_time, dq_buffer>>
  BY DEF DqPushSuspend, DqPopSuspend
<1>2. DqFifoCall' = DqFifoCall
  BY <1>1, DqPoints DEF DqFifoCall, DqInv, DqTypeOK
<1>3. DqFifoResult' = DqFifoResult
  BY <1>1, DqResultStays DEF DqIdle, DqInv, DqTypeOK
<1>4. UNCHANGED <<DqFifoQueue, DqFifoPatience>>
  BY <1>1, DqQueueStays, DqPatienceStays
<1> QED  BY <1>1, <1>2, <1>3, <1>4 DEF DqFifo!fifoVars

\* What the thread that a push or a pop resumes is for its caller stays.
LEMMA DqMovedMaps ==
  ASSUME DqInv, NEW t \in Threads, NEW to \in {"pushed", "popped"},
         dq_call[t] \in {"push", "pop"},
         NEW list \in Seq(Threads),
         NEW from \in {"pop_wait", "push_wait"}, NEW again \in {"pop", "push"},
         DqPoint(from) = DqPoint(again),
         list # <<>> => /\ Head(list) \in Threads
                        /\ dq_call[Head(list)] = from,
         dq_call' = DqMoved(t, to, list, again)
  PROVE  /\ DqFifoCall' = [DqFifoCall EXCEPT ![t] = to]
         /\ DqFifoResult' = DqFifoResult
<1>1. DqTypeOK /\ to \notin DqIdle /\ DqPoint(to) = to
      /\ from \notin DqIdle /\ again \notin DqIdle /\ dq_call[t] \notin DqIdle
  BY DqPoints DEF DqInv, DqIdle
<1>2. CASE list = <<>>
  <2>1. dq_call' = [dq_call EXCEPT ![t] = to]
    BY <1>2 DEF DqMoved
  <2>2. DqFifoResult' = DqFifoResult
    BY <1>1, <2>1, DqResultStays DEF DqTypeOK
  <2>3. DqFifoCall' = [DqFifoCall EXCEPT ![t] = to]
    BY <1>1, <2>1 DEF DqFifoCall, DqTypeOK
  <2> QED  BY <2>2, <2>3
<1>3. CASE list # <<>>
  <2> DEFINE w == Head(list)
  <2>1. /\ w \in Threads /\ w # t /\ dq_call[w] = from
        /\ dq_call' = [dq_call EXCEPT ![t] = to, ![w] = again]
    BY <1>3 DEF DqMoved
  <2> HIDE DEF w
  <2>2. DqFifoCall' = [DqFifoCall EXCEPT ![t] = to]
    BY <1>1, <2>1 DEF DqFifoCall, DqTypeOK
  <2>3. DqFifoResult' = DqFifoResult
    BY <1>1, <2>1, DqResultStays DEF DqTypeOK
  <2> QED  BY <2>2, <2>3
<1> QED  BY <1>2, <1>3

\* The moment at which a push takes effect.
LEMMA DqPushPutMaps ==
  ASSUME DqInv, DqInv', NEW t \in Threads, DqPushPut(t), ~dq_overrun'
  PROVE  DqFifo!FifoEnqueue(t)
<1>1. /\ dq_call[t] = "push" /\ UNCHANGED <<dq_time, dq_buffer>>
      /\ dq_call' = DqMoved(t, "pushed", dq_poppers, "pop")
      /\ dq_poppers \in Seq(Threads)
  BY DEF DqPushPut, DqInv, DqTypeOK
<1>2. dq_poppers # <<>> => Head(dq_poppers) \in Threads /\ dq_call[Head(dq_poppers)] = "pop_wait"
  BY TailRemovesHead DEF DqInv, DqTypeOK, DqListsExact
<1>3. DqFifoCall' = [DqFifoCall EXCEPT ![t] = "pushed"] /\ DqFifoResult' = DqFifoResult
  BY <1>1, <1>2, DqMovedMaps, DqPoints
<1>4. DqFifoCall[t] = "push"
  BY <1>1, DqFifoAt, DqPoints
<1>5. DqFifoPatience' = DqFifoPatience
  BY <1>1, DqPatienceStays
<1> QED  BY <1>1, <1>3, <1>4, <1>5, DqPutAppends DEF DqFifo!FifoEnqueue

\* The moment at which a pop takes effect.
LEMMA DqPopTakeMaps ==
  ASSUME DqInv, DqInv', NEW t \in Threads, DqPopTake(t)
  PROVE  DqFifo!FifoDequeue(t)
<1>1. /\ dq_call[t] = "pop" /\ dq_time' = dq_time
      /\ dq_buffer' = [dq_buffer EXCEPT ![t] = dq_item[Slot(dq_gets)]]
      /\ dq_call' = DqMoved(t, "popped", Awakened, "push")
      /\ Awakened \in Seq(Threads)
  BY DEF DqPopTake, Awakened, DqInv, DqTypeOK
<1>2. Awakened # <<>> => Head(Awakened) \in Threads /\ dq_call[Head(Awakened)] = "push_wait"
  BY TailRemovesHead DEF Awakened, DqInv, DqTypeOK, DqListsExact
<1>3. DqFifoCall' = [DqFifoCall EXCEPT ![t] = "popped"] /\ DqFifoResult' = DqFifoResult
  BY <1>1, <1>2, DqMovedMaps, DqPoints
<1>4. DqFifoCall[t] = "pop"
  BY <1>1, DqFifoAt, DqPoints
<1>5. DqFifoPatience' = DqFifoPatience
  BY <1>1, DqPatienceStays
<1> QED  BY <1>1, <1>3, <1>4, <1>5, DqTakeRemoves DEF DqFifo!FifoDequeue

LEMMA DqReturnMaps ==
  ASSUME DqInv, NEW t \in Threads, DqReturn(t)
  PROVE  DqFifo!FifoReturn(t) \/ DqFifo!FifoFail(t)
<1>1. /\ DqTypeOK
      /\ dq_time' = [dq_time EXCEPT ![t] = "no_wait"]
      /\ UNCHANGED <<dq_puts, dq_gets, dq_item, dq_buffer>>
      /\ "ok" \in DqIdle /\ "error" \in DqIdle
  BY DEF DqReturn, DqInv, DqIdle
<1>2. DqFifoPatience' = [DqFifoPatience EXCEPT ![t] = "limited"]
  BY <1>1 DEF DqFifoPatience, DqTypeOK
<1>3. DqFifoQueue' = DqFifoQueue
  BY <1>1, DqQueueStays
<1>4. CASE dq_call[t] \in {"pushed", "popped"}
  <2>1. dq_call' = [dq_call EXCEPT ![t] = "ok"]
    BY <1>4 DEF DqReturn
  <2>2. /\ DqFifoCall' = [DqFifoCall EXCEPT ![t] = "idle"]
        /\ DqFifoResult' = [DqFifoResult EXCEPT ![t] = "ok"]
    BY <1>1, <2>1, DqCallMoves, DqPoints
  <2>3. DqFifoCall[t] \in {"pushed", "popped"}
    BY <1>4, DqFifoAt, DqPoints
  <2> QED  BY <1>1, <1>2, <1>3, <2>2, <2>3 DEF DqFifo!FifoReturn
<1>5. CASE dq_call[t] \in {"push_error", "pop_error"}
  <2>1. dq_call' = [dq_call EXCEPT ![t] = "error"]
    BY <1>5 DEF DqReturn
  <2>2. /\ DqFifoCall' = [DqFifoCall EXCEPT ![t] = "idle"]
        /\ DqFifoResult' = [DqFifoResult EXCEPT ![t] = "error"]
    BY <1>1, <2>1, DqCallMoves, DqPoints
  <2>3. DqFifoCall[t] = "refused"
    BY <1>5, DqFifoAt, DqPoints
  <2> QED  BY <1>1, <1>2, <1>3, <2>2, <2>3 DEF DqFifo!FifoFail
<1> QED  BY <1>4, <1>5 DEF DqReturn

\* A reset expels the thread that it resumes.
LEMMA DqResetMaps ==
  ASSUME DqInv, DqResetPopper \/ DqResetPusher
  PROVE  DqFifo!FifoReset
<1>1. PICK w \in Threads, p \in {"pop_error", "push_error"} :
        /\ dq_call[w] \in {"pop_wait", "push_wait"}
        /\ dq_call' = [dq_call EXCEPT ![w] = p]
  <2>1. CASE DqResetPopper
    BY <2>1, TailRemovesHead DEF DqResetPopper, DqInv, DqTypeOK, DqListsExact
  <2>2. CASE DqResetPusher
    BY <2>2, TailRemovesHead DEF DqResetPusher, DqInv, DqTypeOK, DqListsExact
  <2> QED  BY <2>1, <2>2
<1>2. UNCHANGED <<dq_puts, dq_gets, dq_item, dq_time, dq_buffer>>
  BY DEF DqResetPopper, DqResetPusher
<1>3. DqTypeOK /\ p \notin DqIdle /\ dq_call[w] \notin DqIdle /\ DqPoint(p) = "refused"
  BY <1>1, DqPoints DEF DqInv, DqIdle
<1>4. {w} \in SUBSET DqFifo!Pending
  BY <1>1, DqFifoAt, DqPoints DEF DqFifo!Pending
<1>5. DqFifoCall' = [c \in Threads |-> IF c \in {w} THEN "refused" ELSE DqFifoCall[c]]
  <2>1. DqFifoCall' = [DqFifoCall EXCEPT ![w] = DqPoint(p)]
    BY <1>1, <1>3, DqCallMoves
  <2> QED  BY <1>3, <2>1 DEF DqFifoCall
<1>6. DqFifoResult' = DqFifoResult
  BY <1>1, <1>3, DqResultStays DEF DqTypeOK
<1>7. UNCHANGED <<DqFifoQueue, DqFifoPatience>>
  BY <1>2, DqQueueStays, DqPatienceStays
<1> QED  BY <1>2, <1>4, <1>5, <1>6, <1>7 DEF DqFifo!FifoReset

\* The other steps are not seen.
LEMMA DqUnseen ==
  ASSUME UNCHANGED <<dq_puts, dq_gets, dq_item, dq_call, dq_time, dq_buffer>>
  PROVE  UNCHANGED (DqFifo!fifoVars)
BY DqQueueStays, DqPatienceStays DEF DqFifo!fifoVars, DqFifoCall, DqFifoResult

LEMMA DqInitMaps ==
  ASSUME DqInit
  PROVE  DqFifo!FifoInit
<1>1. /\ dq_puts = 0 /\ dq_gets = 0
      /\ dq_call = [t \in Threads |-> "none"] /\ "none" \in DqIdle
      /\ dq_time = [t \in Threads |-> "no_wait"]
      /\ dq_buffer \in [Threads -> Items]
  BY DEF DqInit, DqIdle
<1>2. DqFifoQueue = <<>>
  BY <1>1 DEF DqFifoQueue
<1>3. DqFifoCall = [t \in Threads |-> "idle"]
  BY <1>1, DqPoints DEF DqFifoCall
<1>4. DqFifoPatience = [t \in Threads |-> "limited"]
  BY <1>1 DEF DqFifoPatience
<1>5. DqFifoResult = [t \in Threads |-> "none"]
  BY <1>1 DEF DqFifoResult
<1> QED  BY <1>1, <1>2, <1>3, <1>4, <1>5 DEF DqFifo!FifoInit

LEMMA DqStepMaps ==
  ASSUME DqInv, DqInv', [DqNext]_dqVars
  PROVE  [DqFifo!FifoNext \/ Overrun']_(DqFifo!fifoVars)
<1> SUFFICES ASSUME ~dq_overrun'  PROVE [DqFifo!FifoNext]_(DqFifo!fifoVars)
  BY DEF DqInv, DqCounts, Overrun
<1>1. ASSUME NEW t \in Threads, NEW m \in Items, NEW time \in Timeouts, DqPushCall(t, m, time)
      PROVE  DqFifo!FifoNext
  BY <1>1, DqPushCallMaps DEF DqFifo!FifoNext
<1>2. ASSUME NEW t \in Threads, NEW time \in Timeouts, DqPopCall(t, time)
      PROVE  DqFifo!FifoNext
  BY <1>2, DqPopCallMaps DEF DqFifo!FifoNext
<1>3. ASSUME NEW t \in Threads, DqPushFull(t) \/ DqPopEmpty(t) \/ DqTimeout(t)
      PROVE  DqFifo!FifoNext
  <2>1. \E p \in {"push_error", "pop_error"} : dq_call' = [dq_call EXCEPT ![t] = p]
    BY <1>3 DEF DqPushFull, DqPopEmpty, DqTimeout
  <2>2. /\ dq_call[t] \in {"push", "push_wait", "pop", "pop_wait"} /\ dq_time[t] # "forever"
        /\ UNCHANGED <<dq_puts, dq_gets, dq_item, dq_time, dq_buffer>>
    BY <1>3 DEF DqPushFull, DqPopEmpty, DqTimeout
  <2> QED  BY <2>1, <2>2, DqRefusedMaps DEF DqFifo!FifoNext
<1>4. ASSUME NEW t \in Threads, DqPushSuspend(t) \/ DqPopSuspend(t)
      PROVE  UNCHANGED (DqFifo!fifoVars)
  BY <1>4, DqSuspendMaps
<1>5. ASSUME NEW t \in Threads, DqPushPut(t) \/ DqPopTake(t)
      PROVE  DqFifo!FifoNext
  BY <1>5, DqPushPutMaps, DqPopTakeMaps DEF DqFifo!FifoNext
<1>6. ASSUME NEW t \in Threads, DqReturn(t)
      PROVE  DqFifo!FifoNext
  BY <1>6, DqReturnMaps DEF DqFifo!FifoNext
<1>7. ASSUME NEW t \in Threads, DqStep(t)
      PROVE  [DqFifo!FifoNext]_(DqFifo!fifoVars)
  BY <1>1, <1>2, <1>3, <1>4, <1>5, <1>6, <1>7 DEF DqStep
<1>8. CASE DqResetPopper \/ DqResetPusher
  BY <1>8, DqResetMaps DEF DqFifo!FifoNext
<1>9. CASE DqResetCall \/ DqResetTest \/ DqResetHead \/ UNCHANGED dqVars
  BY <1>9, DqUnseen DEF DqResetCall, DqResetTest, DqResetHead, dqVars
<1> QED  BY <1>7, <1>8, <1>9 DEF DqNext, DqResetStep

\* A data queue is a bounded FIFO of items: every push and every pop takes
\* effect at one moment, whatever is resumed, timed out or reset meanwhile,
\* until a push overwrites an item that has not been popped; and none does
\* before put_index has wrapped.
THEOREM DataQueueIsFifo == DqSpec => DqIsFifo
<1>1. DqInit => DqFifo!FifoInit
  BY DqInitMaps
<1>2. DqInv /\ DqInv' /\ [DqNext]_dqVars =>
        [DqFifo!FifoNext \/ Overrun']_(DqFifo!fifoVars)
  BY DqStepMaps
<1> QED
  BY <1>1, <1>2, DqInvariance, PTL DEF DqSpec, DqIsFifo

-----------------------------------------------------------------------------
(***************************************************************************)
(* The work queue.  A thread that sleeps in rt_workqueue_cancel_work_sync   *)
(* waits for the work that is being done, because it tests and suspends in  *)
(* one critical section; and the work thread comes out of its loop over the *)
(* semaphore only by taking a token that nobody was waiting for, so that    *)
(* neither a token nor a thread is left for the next work.                  *)
(***************************************************************************)

\* A work is being done exactly at do_work, unless the thread has gone wild.
WqDoing == ~wq_wild => (work_current # NoWork <=> wq_at = "do_work")

\* Where the callers are in the semaphore, and where the work thread is.
WqInSem ==
  /\ \A t \in Threads \ {work_thread} : sem_call[t] # "out" => wq_call[t] = "sync"
  /\ \A t \in Threads : wq_call[t] = "sync" => wq_work[t] \in Works
  /\ sem_call[work_thread] # "take_wait"
  /\ wq_at # "ack" => sem_call[work_thread] = "out"

\* The only token is the one that the work thread is about to take back.
WqToken ==
  /\ sem_value \in {0, 1}
  /\ wq_at # "ack" \/ sem_call[work_thread] # "out" => sem_value = 0
  /\ sem_call[work_thread] = "taken" => sem_waiting = <<>>

\* Those that sleep wait for the work that is being done, or acknowledged.
WqAwaited ==
  \A t \in Waiting(sem_waiting) : work_current = wq_work[t] \/ wq_at \in {"clean", "ack"}

WqInv ==
  /\ SemInv
  /\ WqTypeOK
  /\ WorkInOnePlace
  /\ WqDoing
  /\ WqInSem
  /\ WqToken
  /\ WqAwaited

\* Nobody sleeps while no work is being done or acknowledged.
LEMMA WqNobodyWaits ==
  ASSUME WqInv, ~wq_wild, wq_at \notin {"do_work", "clean", "ack"}
  PROVE  Waiting(sem_waiting) = {}
<1> SUFFICES ASSUME NEW t \in Waiting(sem_waiting)  PROVE FALSE
  OBVIOUS
<1>1. t \in Threads /\ sem_call[t] = "take_wait"
  BY DEF WqInv, SemInv, SemListExact
<1>2. wq_work[t] \in Works
  BY <1>1 DEF WqInv, WqInSem
<1>3. work_current = NoWork
  BY DEF WqInv, WqDoing
<1> QED  BY <1>2, <1>3, WorkqueueAssumption DEF WqInv, WqAwaited

-----------------------------------------------------------------------------
(* The list of works *)

\* rt_list_remove leaves the other works, each once.
LEMMA WqWithoutRemoves ==
  ASSUME WqInv, NEW w \in Works
  PROVE  /\ Without(w) \in Seq(Works)
         /\ Distinct(Without(w))
         /\ Waiting(Without(w)) = Waiting(work_list) \ {w}
<1>1. work_list \in Seq(Works) /\ Distinct(work_list)
  BY DEF WqInv, WqTypeOK, WorkInOnePlace
<1>2. CASE w \in Waiting(work_list)
  BY <1>1, <1>2, UnlinkFromRemoves DEF Without
<1>3. CASE w \notin Waiting(work_list)
  BY <1>1, <1>3 DEF Without
<1> QED  BY <1>2, <1>3

\* What changes only the list of works keeps the rest.
LEMMA WqListKeeps ==
  ASSUME WqInv, work_list' \in Seq(Works), Distinct(work_list'),
         NEW added \in SUBSET Works, work_current \notin added,
         Waiting(work_list') \subseteq Waiting(work_list) \cup added,
         wq_call' \in [Threads -> {"out", "resume", "sync"}],
         \A t \in Threads : wq_call'[t] = wq_call[t]
                             \/ (wq_call[t] = "out" /\ wq_call'[t] # "sync"),
         UNCHANGED <<semVars, work_thread, work_current, wq_at, wq_work, wq_wild>>
  PROVE  WqInv'
<1>1. SemInv'
  BY SemStepKeeps DEF WqInv
<1>2. WqTypeOK'
  BY DEF WqInv, WqTypeOK
<1>3. WorkInOnePlace'
  BY DEF WqInv, WorkInOnePlace
<1>4. WqDoing' /\ WqToken' /\ WqAwaited'
  BY DEF WqInv, WqDoing, WqToken, WqAwaited, semVars
<1>5. WqInSem'
  BY DEF WqInv, WqInSem, WqTypeOK, semVars
<1> QED  BY <1>1, <1>2, <1>3, <1>4, <1>5 DEF WqInv

-----------------------------------------------------------------------------
(* _workqueue_thread_entry *)

\* Testing the list and going to sleep.
LEMMA WqIdleKeeps ==
  ASSUME WqInv, ~wq_wild, WqTest \/ WqSuspend
  PROVE  WqInv'
<1>1. /\ UNCHANGED <<semVars, work_thread, work_list, work_current, wq_call, wq_work, wq_wild>>
      /\ wq_at \in {"test", "suspend"} /\ wq_at' \in {"suspend", "suspended", "take"}
  BY DEF WqTest, WqSuspend, At
<1>2. SemInv'
  BY <1>1, SemStepKeeps DEF WqInv
<1>3. WqTypeOK' /\ WorkInOnePlace'
  BY <1>1 DEF WqInv, WqTypeOK, WorkInOnePlace
<1>4. WqDoing' /\ WqInSem' /\ WqToken'
  BY <1>1 DEF WqInv, WqDoing, WqInSem, WqToken, semVars
<1>5. WqAwaited'
  BY <1>1, WqNobodyWaits DEF WqAwaited, semVars
<1> QED  BY <1>2, <1>3, <1>4, <1>5 DEF WqInv

LEMMA WqTakeKeeps ==
  ASSUME WqInv, ~wq_wild, WqTake
  PROVE  WqInv'
<1>1. /\ UNCHANGED <<semVars, work_thread, wq_call, wq_work, wq_wild>>
      /\ wq_at = "take" /\ wq_at' = "do_work"
      /\ work_current' = Head(work_list)
  BY DEF WqTake, At
<1>2. /\ Head(work_list) \in Works /\ Head(work_list) # NoWork
      /\ work_list' \in Seq(Works) /\ Distinct(work_list')
      /\ Head(work_list) \notin Waiting(work_list')
  BY TailOfRemoves, WorkqueueAssumption DEF WqTake, WqInv, WqTypeOK, WorkInOnePlace
<1>3. SemInv'
  BY <1>1, SemStepKeeps DEF WqInv
<1>4. WqTypeOK' /\ WorkInOnePlace'
  BY <1>1, <1>2 DEF WqInv, WqTypeOK, WorkInOnePlace
<1>5. WqDoing' /\ WqInSem' /\ WqToken'
  BY <1>1, <1>2 DEF WqInv, WqDoing, WqInSem, WqToken, semVars
<1>6. WqAwaited'
  BY <1>1, WqNobodyWaits DEF WqAwaited, semVars
<1> QED  BY <1>3, <1>4, <1>5, <1>6 DEF WqInv

\* The thread takes the list head: nobody sleeps at that moment.
LEMMA WqTakeWildKeeps ==
  ASSUME WqInv, ~wq_wild, WqTakeWild
  PROVE  WqInv'
<1>1. /\ UNCHANGED <<semVars, work_thread, work_list, work_current, wq_call, wq_work>>
      /\ wq_at = "take" /\ wq_at' = "do_work" /\ wq_wild' = TRUE
  BY DEF WqTakeWild, At
<1>2. SemInv'
  BY <1>1, SemStepKeeps DEF WqInv
<1>3. WqTypeOK' /\ WorkInOnePlace'
  BY <1>1 DEF WqInv, WqTypeOK, WorkInOnePlace
<1>4. WqDoing' /\ WqInSem' /\ WqToken'
  BY <1>1 DEF WqInv, WqDoing, WqInSem, WqToken, semVars
<1>5. WqAwaited'
  BY <1>1, WqNobodyWaits DEF WqAwaited, semVars
<1> QED  BY <1>2, <1>3, <1>4, <1>5 DEF WqInv

LEMMA WqCleanKeeps ==
  ASSUME WqInv, ~wq_wild, WqClean
  PROVE  WqInv'
<1>1. /\ UNCHANGED <<semVars, work_thread, work_list, wq_call, wq_work, wq_wild>>
      /\ wq_at = "do_work" /\ wq_at' = "clean" /\ work_current' = NoWork
  BY DEF WqClean, At
<1>2. SemInv'
  BY <1>1, SemStepKeeps DEF WqInv
<1>3. WqTypeOK' /\ WorkInOnePlace'
  BY <1>1 DEF WqInv, WqTypeOK, WorkInOnePlace
<1>4. WqDoing' /\ WqInSem' /\ WqToken'
  BY <1>1 DEF WqInv, WqDoing, WqInSem, WqToken, semVars
<1>5. WqAwaited'
  BY <1>1 DEF WqAwaited, semVars
<1> QED  BY <1>2, <1>3, <1>4, <1>5 DEF WqInv

LEMMA WqLockKeeps ==
  ASSUME WqInv, ~wq_wild, WqLock
  PROVE  WqInv'
<1>1. /\ UNCHANGED <<semVars, work_thread, work_list, work_current, wq_call, wq_work, wq_wild>>
      /\ wq_at = "clean" /\ wq_at' = "ack"
  BY DEF WqLock, At
<1>2. SemInv'
  BY <1>1, SemStepKeeps DEF WqInv
<1>3. WqTypeOK' /\ WorkInOnePlace'
  BY <1>1 DEF WqInv, WqTypeOK, WorkInOnePlace
<1>4. WqDoing' /\ WqInSem' /\ WqToken'
  BY <1>1 DEF WqInv, WqDoing, WqInSem, WqToken, semVars
<1>5. WqAwaited'
  BY <1>1 DEF WqAwaited, semVars
<1> QED  BY <1>2, <1>3, <1>4, <1>5 DEF WqInv

-----------------------------------------------------------------------------
(* _workqueue_work_completion *)

\* The thread takes its token back, which nobody waits for, or finds none.
LEMMA WqAckTryKeeps ==
  ASSUME WqInv, ~wq_wild, WqAckTry
  PROVE  WqInv'
<1>1. UNCHANGED wqVars /\ wq_at = "ack" /\ work_thread \in Threads
  BY DEF WqAckTry, WqInv, WqTypeOK
<1>2. SemInv'
  BY <1>1, SemTakeNowKeeps, SemTakeRefusedKeeps DEF WqAckTry, WqInv
<1>3. WqTypeOK' /\ WorkInOnePlace' /\ WqDoing' /\ WqAwaited'
  BY <1>1 DEF wqVars, WqInv, WqTypeOK, WorkInOnePlace, WqDoing, WqAwaited
<1>4. /\ sem_waiting' = sem_waiting
      /\ sem_waiting # <<>> => sem_value = 0
      /\ sem_value \in {0, 1}
      /\ \/ /\ sem_call' = [sem_call EXCEPT ![work_thread] = "taken"]
            /\ sem_value > 0 /\ sem_value' = sem_value - 1
         \/ /\ sem_call' = [sem_call EXCEPT ![work_thread] = "take_error"]
            /\ sem_value = 0 /\ sem_value' = sem_value
  BY DEF WqAckTry, SemTakeNow, SemTakeRefused, WqInv, SemInv, TokensConserved, WqToken
<1>5. WqInSem'
  BY <1>1, <1>4 DEF wqVars, WqInv, WqInSem, SemInv, SemTypeOK
<1>6. WqToken'
  BY <1>1, <1>4 DEF wqVars, WqInv, WqToken, SemInv, SemTypeOK
<1> QED  BY <1>2, <1>3, <1>5, <1>6 DEF WqInv

\* One round of the loop: one thread is answered, or the token is put in.
LEMMA WqAckReleaseKeeps ==
  ASSUME WqInv, ~wq_wild, WqAckRelease
  PROVE  WqInv'
<1>1. /\ UNCHANGED <<sem_state, sem_time, sem_overrun, wqVars>>
      /\ wq_at = "ack" /\ work_thread \in Threads
      /\ sem_call[work_thread] = "take_error" /\ sem_value = 0
      /\ sem_credit' = sem_credit + 1
      /\ SemTypeOK /\ sem_credit \in Nat
  BY DEF WqAckRelease, WqInv, WqTypeOK, WqToken, SemInv, SemTypeOK
<1>2. WqTypeOK' /\ WorkInOnePlace' /\ WqDoing'
  BY <1>1 DEF wqVars, WqInv, WqTypeOK, WorkInOnePlace, WqDoing
<1>3. CASE sem_waiting = <<>>
  <2>1. /\ sem_call' = [sem_call EXCEPT ![work_thread] = "out"]
        /\ sem_value' = 1 /\ sem_waiting' = <<>>
    <3>1. sem_call' = [u \in Threads |-> IF u = work_thread THEN "out" ELSE sem_call[u]]
      BY <1>3, Zenon DEF WqAckRelease
    <3>2. sem_value' = 1 /\ sem_waiting' = <<>>
      BY <1>1, <1>3 DEF WqAckRelease
    <3> QED  BY <1>1, <3>1, <3>2 DEF SemTypeOK
  <2>2. Taken' = Taken
    BY <1>1, <2>1, SemTakenKept
  <2>3. SemTypeOK'
    BY <1>1, <2>1, SemaphoreAssumption DEF SemTypeOK
  <2>4. SemListExact'
    BY <1>1, <1>3, <2>1 DEF WqInv, SemInv, SemListExact, SemTypeOK
  <2>5. TokensConserved' /\ (SemAbout <= sem_credit)'
    BY <1>1, <2>1, <2>2, SemTakenFinite DEF WqInv, SemInv, SemAbout, TokensConserved
  <2>6. WqInSem' /\ WqToken' /\ WqAwaited'
    BY <1>1, <1>3, <2>1 DEF wqVars, WqInv, WqInSem, WqToken, WqAwaited, SemTypeOK
  <2> QED  BY <1>2, <2>3, <2>4, <2>5, <2>6 DEF WqInv, SemInv
<1>4. CASE sem_waiting # <<>>
  <2> DEFINE w == Head(sem_waiting)
  <2>1. /\ w \in Threads /\ w \in Waiting(sem_waiting)
        /\ sem_waiting' \in Seq(Threads)
        /\ Distinct(sem_waiting')
        /\ Waiting(sem_waiting') = Waiting(sem_waiting) \ {w}
    BY <1>4, TailRemovesHead DEF WqAckRelease, WqInv, SemInv, SemTypeOK, SemListExact
  <2>2. sem_call[w] = "take_wait" /\ w # work_thread
    BY <1>1, <2>1 DEF WqInv, SemInv, SemListExact
  <2>3. /\ sem_call' = [u \in Threads |-> IF u = work_thread THEN "out"
                                           ELSE IF u = w THEN "taken" ELSE sem_call[u]]
        /\ sem_value' = 0
    BY <1>1, <1>4 DEF WqAckRelease
  <2> HIDE DEF w
  <2>4. Cardinality(Taken') = Cardinality(Taken) + 1
    <3>1. Taken' = Taken \cup {w} /\ w \notin Taken
      BY <1>1, <2>1, <2>2, <2>3 DEF Taken
    <3> QED  BY <3>1, SemTakenFinite, FS_AddElement
  <2>5. SemTypeOK'
    BY <1>1, <2>1, <2>3, SemaphoreAssumption DEF SemTypeOK
  <2>6. SemListExact'
    BY <1>1, <2>1, <2>2, <2>3 DEF WqInv, SemInv, SemListExact
  <2>7. TokensConserved' /\ (SemAbout <= sem_credit)'
    BY <1>1, <2>3, <2>4, SemTakenFinite DEF WqInv, SemInv, SemAbout, TokensConserved
  <2>8. WqInSem' /\ WqToken' /\ WqAwaited'
    BY <1>1, <2>1, <2>2, <2>3
    DEF wqVars, WqInv, WqInSem, WqToken, WqAwaited, SemInv, SemListExact
  <2> QED  BY <1>2, <2>5, <2>6, <2>7, <2>8 DEF WqInv, SemInv
<1> QED  BY <1>3, <1>4

LEMMA WqAckDoneKeeps ==
  ASSUME WqInv, ~wq_wild, WqAckDone
  PROVE  WqInv'
<1>1. /\ UNCHANGED <<work_thread, work_list, work_current, wq_call, wq_work, wq_wild>>
      /\ wq_at = "ack" /\ wq_at' = "test" /\ work_thread \in Threads
      /\ sem_waiting = <<>> /\ sem_waiting' = <<>> /\ sem_value = 0 /\ sem_value' = 0
      /\ sem_call' = [sem_call EXCEPT ![work_thread] = "out"]
  BY DEF WqAckDone, At, SemReturn, WqInv, WqTypeOK, WqToken
<1>2. SemInv'
  BY <1>1, SemReturnKeeps DEF WqAckDone, WqInv
<1>3. WqTypeOK' /\ WorkInOnePlace' /\ WqDoing'
  BY <1>1 DEF WqInv, WqTypeOK, WorkInOnePlace, WqDoing
<1>4. WqInSem' /\ WqToken'
  BY <1>1 DEF WqInv, WqInSem, WqToken, SemInv, SemTypeOK
<1>5. WqAwaited'
  BY <1>1 DEF WqAwaited, Waiting
<1> QED  BY <1>2, <1>3, <1>4, <1>5 DEF WqInv

-----------------------------------------------------------------------------
(* The callers *)

LEMMA WqDoWorkKeeps ==
  ASSUME WqInv, NEW t \in Threads, NEW w \in Works, WqDoWork(t, w)
  PROVE  WqInv'
<1>1. /\ work_list' \in Seq(Works)
      /\ Distinct(work_list')
      /\ Waiting(work_list') = Waiting(work_list) \cup {w}
  <2>1. /\ Without(w) \in Seq(Works) /\ Distinct(Without(w))
        /\ Waiting(Without(w)) = Waiting(work_list) \ {w}
    BY WqWithoutRemoves
  <2>2. work_list' = EnqueueLast(Without(w), w)
    BY DEF WqDoWork, EnqueueLast
  <2> HIDE DEF Without
  <2> QED  BY <2>1, <2>2, AppendToAdds
<1>2. /\ UNCHANGED <<semVars, work_thread, work_current, wq_at, wq_work, wq_wild>>
      /\ work_current \notin {w} /\ {w} \in SUBSET Works
      /\ \E to \in {"resume", "out"} : wq_call' = [wq_call EXCEPT ![t] = to]
      /\ wq_call[t] = "out" /\ wq_call \in [Threads -> {"out", "resume", "sync"}]
  BY DEF WqDoWork, WqInv, WqTypeOK
<1>3. /\ wq_call' \in [Threads -> {"out", "resume", "sync"}]
      /\ \A u \in Threads : wq_call'[u] = wq_call[u]
                             \/ (wq_call[u] = "out" /\ wq_call'[u] # "sync")
  BY <1>2
<1> QED  BY <1>1, <1>2, <1>3, WqListKeeps

LEMMA WqCancelKeeps ==
  ASSUME WqInv, NEW t \in Threads, NEW w \in Works, WqCancel(t, w)
  PROVE  WqInv'
<1>1. /\ work_list' = Without(w)
      /\ wq_call' = wq_call /\ wq_call \in [Threads -> {"out", "resume", "sync"}]
      /\ UNCHANGED <<semVars, work_thread, work_current, wq_at, wq_work, wq_wild>>
  BY DEF WqCancel, WqInv, WqTypeOK
<1>2. /\ Without(w) \in Seq(Works) /\ Distinct(Without(w))
      /\ Waiting(Without(w)) = Waiting(work_list) \ {w}
  BY WqWithoutRemoves
<1>3. /\ work_list' \in Seq(Works) /\ Distinct(work_list')
      /\ {} \in SUBSET Works /\ work_current \notin {}
      /\ Waiting(work_list') \subseteq Waiting(work_list) \cup {}
  <2> HIDE DEF Without
  <2> QED  BY <1>1, <1>2
<1>4. \A u \in Threads : wq_call'[u] = wq_call[u]
  BY <1>1
<1> QED  BY <1>1, <1>3, <1>4, WqListKeeps

LEMMA WqCancelAllKeeps ==
  ASSUME WqInv, NEW t \in Threads, WqCancelAll(t)
  PROVE  WqInv'
<1>1. /\ work_list' = <<>>
      /\ wq_call' = wq_call /\ wq_call \in [Threads -> {"out", "resume", "sync"}]
      /\ UNCHANGED <<semVars, work_thread, work_current, wq_at, wq_work, wq_wild>>
  BY DEF WqCancelAll, WqInv, WqTypeOK
<1>2. work_list' \in Seq(Works) /\ Distinct(work_list') /\ Waiting(work_list') = {}
  BY <1>1 DEF Distinct, Waiting
<1> QED  BY <1>1, <1>2, WqListKeeps

LEMMA WqResumeKeeps ==
  ASSUME WqInv, ~wq_wild, NEW t \in Threads, WqResume(t)
  PROVE  WqInv'
<1>1. /\ UNCHANGED <<semVars, work_thread, work_list, work_current, wq_work, wq_wild>>
      /\ wq_call' = [wq_call EXCEPT ![t] = "out"] /\ wq_call[t] = "resume"
      /\ wq_at # "ack"
      /\ wq_at' = wq_at \/ (wq_at = "suspended" /\ wq_at' = "take")
  BY DEF WqResume, Caller
<1>2. SemInv'
  BY <1>1, SemStepKeeps DEF WqInv
<1>3. WqTypeOK' /\ WorkInOnePlace'
  BY <1>1 DEF WqInv, WqTypeOK, WorkInOnePlace
<1>4. WqDoing' /\ WqToken'
  BY <1>1 DEF WqInv, WqDoing, WqToken, semVars
<1>5. WqInSem'
  BY <1>1 DEF WqInv, WqInSem, WqTypeOK, semVars
<1>6. WqAwaited'
  BY <1>1 DEF WqInv, WqAwaited, semVars
<1> QED  BY <1>2, <1>3, <1>4, <1>5, <1>6 DEF WqInv

\* The caller waits: there is no token while the work is being done.
LEMMA WqCancelSyncKeeps ==
  ASSUME WqInv, ~wq_wild, NEW t \in Threads, NEW w \in Works, WqCancelSync(t, w)
  PROVE  WqInv'
<1>1. /\ UNCHANGED <<work_thread, work_list, work_current, wq_at, wq_wild>>
      /\ wq_call' = [wq_call EXCEPT ![t] = "sync"]
      /\ wq_work' = [wq_work EXCEPT ![t] = w]
      /\ work_current = w /\ t # work_thread /\ wq_at # "ack"
      /\ sem_value = 0
      /\ SemTakeSuspend(t, "forever")
  BY DEF WqCancelSync, Caller, SemTakeNow, WqInv, WqToken
<1>2. SemInv'
  BY <1>1, SemTakeSuspendKeeps DEF WqInv, Timeouts
<1>3. /\ sem_value' = sem_value /\ sem_call[t] = "out"
      /\ sem_call' = [sem_call EXCEPT ![t] = "take_wait"]
      /\ Waiting(sem_waiting') = Waiting(sem_waiting) \cup {t}
      /\ t \notin Waiting(sem_waiting)
  <2>1. sem_call[t] = "out" /\ sem_waiting' = EnqueueLast(sem_waiting, t)
    BY <1>1 DEF SemTakeSuspend, MaySemTake
  <2>2. t \notin Waiting(sem_waiting) /\ Distinct(sem_waiting) /\ sem_waiting \in Seq(Threads)
    BY <2>1 DEF WqInv, SemInv, SemListExact, SemTypeOK
  <2>3. Waiting(sem_waiting') = Waiting(sem_waiting) \cup {t}
    BY <2>1, <2>2, EnqueueLastAdds
  <2> QED  BY <1>1, <2>1, <2>2, <2>3 DEF SemTakeSuspend
<1>4. WqTypeOK' /\ WorkInOnePlace' /\ WqDoing'
  BY <1>1 DEF WqInv, WqTypeOK, WorkInOnePlace, WqDoing
<1>5. WqInSem' /\ WqToken'
  BY <1>1, <1>3 DEF WqInv, WqInSem, WqToken, WqTypeOK, SemInv, SemTypeOK
<1>6. WqAwaited'
  <2>1. \A u \in Waiting(sem_waiting) : u \in Threads
    BY DEF WqInv, SemInv, SemListExact
  <2> QED  BY <1>1, <1>3, <2>1 DEF WqInv, WqAwaited, WqTypeOK
<1> QED  BY <1>2, <1>4, <1>5, <1>6 DEF WqInv

LEMMA WqSyncReturnKeeps ==
  ASSUME WqInv, ~wq_wild, NEW t \in Threads, WqSyncReturn(t)
  PROVE  WqInv'
<1>1. /\ UNCHANGED <<work_thread, work_list, work_current, wq_at, wq_wild>>
      /\ wq_call' = [wq_call EXCEPT ![t] = "out"]
      /\ wq_work' = [wq_work EXCEPT ![t] = NoWork]
      /\ sem_call' = [sem_call EXCEPT ![t] = "out"]
      /\ sem_call[t] \in {"taken", "take_error"}
      /\ t # work_thread /\ UNCHANGED <<sem_value, sem_waiting>>
  BY DEF WqSyncReturn, Caller, SemReturn
<1>2. SemInv'
  BY SemReturnKeeps DEF WqSyncReturn, WqInv
<1>3. WqTypeOK' /\ WorkInOnePlace' /\ WqDoing'
  BY <1>1 DEF WqInv, WqTypeOK, WorkInOnePlace, WqDoing
<1>4. WqInSem' /\ WqToken'
  BY <1>1 DEF WqInv, WqInSem, WqToken, WqTypeOK, SemInv, SemTypeOK
<1>5. WqAwaited'
  BY <1>1 DEF WqInv, WqAwaited, WqTypeOK, SemInv, SemListExact
<1> QED  BY <1>2, <1>3, <1>4, <1>5 DEF WqInv

-----------------------------------------------------------------------------
(* The specification *)

LEMMA WqInitEstablishes ==
  ASSUME SemInit(0), WqInit
  PROVE  WqInv
<1>1. SemInv
  <2>1. 0 \in 0 .. SemModulus - 1
    BY SemaphoreAssumption
  <2> QED  BY <2>1, SemInitEstablishes
<1>2. WqTypeOK
  <2>1. work_list = <<>> /\ <<>> \in Seq(Works)
    BY DEF WqInit
  <2> QED  BY <2>1 DEF WqInit, WqTypeOK
<1>3. WorkInOnePlace /\ WqDoing
  BY DEF WqInit, WorkInOnePlace, WqDoing, Distinct
<1>4. WqInSem /\ WqToken /\ WqAwaited
  BY DEF WqInit, SemInit, WqInSem, WqToken, WqAwaited, Waiting
<1> QED  BY <1>1, <1>2, <1>3, <1>4 DEF WqInv

LEMMA WqStepKeeps ==
  ASSUME WqInv, [WqNext]_<<semVars, wqVars>>
  PROVE  WqInv'
<1>1. CASE UNCHANGED <<semVars, wqVars>>
  <2>1. SemInv'
    BY <1>1, SemStepKeeps DEF WqInv
  <2> QED
    BY <1>1, <2>1 DEF semVars, wqVars, WqInv, WqTypeOK, WorkInOnePlace, WqDoing, WqInSem,
                      WqToken, WqAwaited
<1>2. CASE ~wq_wild /\ WqWorker
  BY <1>2, WqIdleKeeps, WqTakeKeeps, WqTakeWildKeeps, WqCleanKeeps, WqLockKeeps,
     WqAckTryKeeps, WqAckReleaseKeeps, WqAckDoneKeeps DEF WqWorker
<1>3. ASSUME ~wq_wild, NEW t \in Threads, WqCaller(t)
      PROVE  WqInv'
  BY <1>3, WqDoWorkKeeps, WqCancelKeeps, WqCancelAllKeeps, WqResumeKeeps, WqCancelSyncKeeps,
     WqSyncReturnKeeps DEF WqCaller
<1> QED  BY <1>1, <1>2, <1>3 DEF WqNext

\* The invariant holds in every reachable state of a work queue.
THEOREM WqInvariance == WqSpec => []WqInv
<1>1. SemInit(0) /\ WqInit => WqInv
  BY WqInitEstablishes
<1>2. WqInv /\ [WqNext]_<<semVars, wqVars>> => WqInv'
  BY WqStepKeeps
<1> QED  BY <1>1, <1>2, PTL DEF WqSpec

LEMMA WqInvAnswers == WqInv => SyncAnswered
<1> SUFFICES ASSUME WqInv  PROVE SyncAnswered
  OBVIOUS
<1>1. wq_at # "ack" => sem_value = 0
  BY DEF WqInv, WqToken
<1>2. \A t \in Waiting(sem_waiting) : wq_call[t] = "sync"
  BY DEF WqInv, WqInSem, SemInv, SemListExact
<1> QED  BY <1>1, <1>2 DEF WqInv, WqAwaited, SyncAnswered

\* Whoever sleeps in rt_workqueue_cancel_work_sync is woken at the end of the
\* work it waits for, and of no other: the semaphore is clean in between.
THEOREM SyncIsAnswered == WqSpec => []SyncAnswered
BY WqInvariance, WqInvAnswers, PTL

\* A work is in the list at most once, and not while it is being done,
\* whatever rt_workqueue_dowork and the cancellations do meanwhile.
THEOREM WorksAreInOnePlace == WqSpec => []WorkInOnePlace
<1>1. WqInv => WorkInOnePlace
  BY DEF WqInv
<1> QED  BY WqInvariance, <1>1, PTL

-----------------------------------------------------------------------------
(***************************************************************************)
(* The objects together, as MCIpc composes them: the invariant of each, and *)
(* two facts about deletion that those of the semaphore and of the message  *)
(* queue do not need.                                                       *)
(***************************************************************************)

\* rt_sem_delete resumes all before it frees.
SemDeserted == sem_state = "freed" => sem_waiting = <<>>

\* rt_mq_delete finds nobody inside but those that wait, and resumes them
\* with an error, which they take up without looking into the queue again.
MqDeserted ==
  /\ mq_state # "live" => \A t \in Threads : mq_call[t] \in MqIdle \cup {"recv_wait", "recv_error"}
  /\ mq_state = "freed" => mq_waiting = <<>>

IpcInv ==
  /\ subject \in {"pool", "mailbox", "semaphore", "workqueue", "message queue",
                  "event", "data queue"}
  /\ MpInv /\ MbInv /\ SemInv /\ MqInv /\ EvInv /\ DqInv
  /\ SemDeserted /\ MqDeserted
  /\ subject = "workqueue" => WqInv /\ sem_state = "live"

LEMMA SemDesertedKept ==
  ASSUME SemInv, SemDeserted, [SemNext]_semVars
  PROVE  SemDeserted'
<1>1. ASSUME NEW t \in Threads, SemTimeout(t)  PROVE sem_state # "freed"
  <2>1. t \in Waiting(sem_waiting)
    BY <1>1 DEF SemTimeout, SemInv, SemListExact
  <2> QED  BY <2>1 DEF SemDeserted, Waiting
<1>2. CASE \E t \in Threads : SemTimeout(t)
  BY <1>1, <1>2 DEF SemTimeout, SemDeserted
<1>3. CASE \E t \in Threads : \/ SemTakeNow(t) \/ SemTakeRefused(t)
                              \/ \E time \in Timeouts : SemTakeSuspend(t, time)
                              \/ SemReturn(t)
  BY <1>3 DEF SemTakeNow, SemTakeRefused, SemTakeSuspend, MaySemTake, SemReturn, SemDeserted
<1>4. CASE \/ SemRelease \/ (\E v \in {0, 1} : SemReset(v))
           \/ SemDeleteCall \/ SemDeleteTest \/ SemDeleteResume \/ SemDeleteHead
           \/ SemDeleteFree
  BY <1>4 DEF SemRelease, SemReleaseCount, SemReleaseHand, SemReset, SemDeleteCall,
              SemDeleteTest, SemDeleteResume, SemDeleteHead, SemDeleteFree, SemDeserted
<1>5. CASE UNCHANGED semVars
  BY <1>5 DEF semVars, SemDeserted
<1> QED  BY <1>2, <1>3, <1>4, <1>5 DEF SemNext

\* The steps of a deletion, and those that a thread sent home still takes.
LEMMA MqDesertedKept ==
  ASSUME MqInv, MqDeserted, [MqNext]_mqVars
  PROVE  MqDeserted'
<1>1. ASSUME NEW t \in Threads, MqStep(t), mq_state # "live"
      PROVE  MqTimeout(t) \/ MqReturn(t)
  BY <1>1 DEF MqStep, MqSendCall, MqSendFull, MqSendTake, MqSendLink, MqRecvCall, MqRecvEmpty,
              MqRecvSuspend, MqRecvUnlink, MqRecvFree, MqMayCall, MqDeserted, MqIdle
<1>2. ASSUME NEW t \in Threads, MqStep(t)  PROVE mq_state' = mq_state
  BY <1>2 DEF MqStep, MqSendCall, MqSendFull, MqSendTake, MqSendLink, MqRecvCall, MqRecvEmpty,
              MqRecvSuspend, MqRecvUnlink, MqRecvFree, MqTimeout, MqReturn
<1>3. ASSUME NEW t \in Threads, MqTimeout(t), mq_state # "live"  PROVE MqDeserted'
  <2>1. t \in Waiting(mq_waiting)
    BY <1>3 DEF MqTimeout, MqInv, MqListExact
  <2>2. mq_state # "freed"
    BY <2>1 DEF MqDeserted, Waiting
  <2> QED  BY <1>3, <2>2 DEF MqTimeout, MqInv, MqTypeOK, MqDeserted
<1>4. ASSUME NEW t \in Threads, MqReturn(t)  PROVE MqDeserted'
  BY <1>4 DEF MqReturn, MqInv, MqTypeOK, MqDeserted, MqIdle
<1>5. CASE \E t \in Threads : MqStep(t)
  <2>1. CASE mq_state = "live"
    BY <1>2, <1>5, <2>1 DEF MqDeserted
  <2> QED  BY <1>1, <1>3, <1>4, <1>5, <2>1
<1>6. CASE MqReset \/ MqDeleteCall
  BY <1>6 DEF MqReset, MqDeleteCall, MqQuiet, MqDeserted
<1>7. CASE MqDeleteResume
  BY <1>7 DEF MqDeleteResume, MqInv, MqTypeOK, MqDeserted
<1>8. CASE MqDeleteTest \/ MqDeleteHead
  BY <1>8 DEF MqDeleteTest, MqDeleteHead, MqDeserted
<1>9. CASE MqDeleteFree \/ UNCHANGED mqVars
  BY <1>9 DEF MqDeleteFree, mqVars, MqDeserted
<1> QED  BY <1>5, <1>6, <1>7, <1>8, <1>9 DEF MqNext

\* rt_workqueue_create makes a semaphore that nobody deletes.
LEMMA WqSemLives ==
  ASSUME sem_state = "live", [WqNext]_<<semVars, wqVars>>
  PROVE  sem_state' = "live"
BY DEF WqNext, WqWorker, WqTest, WqSuspend, WqTake, WqTakeWild, WqClean, WqLock,
       WqAckTry, WqAckRelease,
       WqAckDone, WqCaller, WqDoWork, WqCancel, WqCancelSync, WqResume, WqCancelAll,
       WqSyncReturn, SemTakeNow, SemTakeRefused, SemTakeSuspend, SemReturn, semVars

LEMMA IpcInitEstablishes ==
  ASSUME Init
  PROVE  IpcInv
<1>1. MpInv /\ MbInv /\ MqInv /\ EvInv /\ DqInv
  BY MpInitEstablishes, MbInitEstablishes, InitEstablishes, EvInitEstablishes,
     DqInitEstablishes DEF Init
<1>2. PICK v \in IF subject = "semaphore" THEN 0 .. SemModulus - 1 ELSE {0} : SemInit(v)
  BY DEF Init
<1>3. SemInv /\ sem_state = "live"
  <2>1. v \in 0 .. SemModulus - 1
    BY SemaphoreAssumption
  <2> QED  BY <1>2, <2>1, SemInitEstablishes DEF SemInit
<1>4. SemDeserted /\ MqDeserted
  BY <1>3 DEF SemDeserted, MqDeserted, Init, MqInit
<1>5. subject = "workqueue" => WqInv
  BY <1>2, WqInitEstablishes DEF Init
<1> QED  BY <1>1, <1>3, <1>4, <1>5 DEF IpcInv, Init

\* Each object takes its own steps, and those that are not the subject none.
LEMMA IpcSteps ==
  ASSUME [Next]_ipcVars, IpcInv
  PROVE  /\ subject' = subject
         /\ [MpNext]_mpVars /\ [MbNext]_mbVars /\ [MqNext]_mqVars /\ [EvNext]_evVars
         /\ [DqNext]_dqVars
         /\ subject = "workqueue" => [WqNext]_<<semVars, wqVars>>
         /\ subject # "workqueue" => [SemNext]_semVars
<1>1. CASE UNCHANGED ipcVars
  BY <1>1 DEF ipcVars
<1>2. CASE Next
  BY <1>2 DEF Next, IpcInv, OfPool, OfMailbox, OfSemaphore, OfWorkqueue, OfMsgQueue, OfEvent,
              OfDataQueue
<1> QED  BY <1>1, <1>2

LEMMA IpcStepKeeps ==
  ASSUME IpcInv, [Next]_ipcVars
  PROVE  IpcInv'
<1>1. MpInv' /\ MbInv' /\ MqInv' /\ EvInv' /\ DqInv'
  BY IpcSteps, MpStepKeeps, MbStepKeeps, StepKeeps, EvStepKeeps, DqStepKeeps DEF IpcInv
<1>2. MqDeserted'
  BY IpcSteps, MqDesertedKept DEF IpcInv
<1>3. CASE subject = "workqueue"
  <2>1. WqInv' /\ sem_state' = "live"
    BY <1>3, IpcSteps, WqStepKeeps, WqSemLives DEF IpcInv
  <2> QED  BY <1>1, <1>2, <2>1, IpcSteps DEF IpcInv, WqInv, SemDeserted
<1>4. CASE subject # "workqueue"
  <2>1. SemInv' /\ SemDeserted'
    BY <1>4, IpcSteps, SemStepKeeps, SemDesertedKept DEF IpcInv
  <2> QED  BY <1>1, <1>2, <1>4, <2>1, IpcSteps DEF IpcInv
<1> QED  BY <1>3, <1>4

\* The invariants hold together in every reachable state.
THEOREM IpcInvariance == Spec => []IpcInv
<1> QED  BY IpcInitEstablishes, IpcStepKeeps, PTL DEF Spec

\* No step of an object stores what its declarations do not allow, the 16-bit
\* counts included.
THEOREM IpcTypes == Spec => []IpcTypeOK
<1>1. IpcInv => IpcTypeOK
  BY DEF IpcInv, DqInv, MpInv, MbInv, SemInv, MqInv, EvInv, WqInv, IpcTypeOK
<1> QED  BY <1>1, IpcInvariance, PTL

\* Of every object: a thread sleeps in a call exactly while it is, once, on
\* the list that resumes that call.
THEOREM ListsAreExact == Spec => []ListsExact
<1>1. MbInv => MbListsExact
  BY LengthIsCount DEF MbInv, MbTypeOK, MbPlaced, MbListsExact
<1>2. IpcInv => ListsExact
  BY <1>1 DEF IpcInv, DqInv, SemInv, MqInv, EvInv, WqInv, ListsExact
<1> QED  BY <1>2, IpcInvariance, PTL

\* Whatever is deleted while threads sleep in it: none of them is left there,
\* nor on its way back to look into what has been freed.
THEOREM NothingFreedIsTouched == Spec => []FreedUntouched
<1>1. MpInv => MpFreedUntouched
  BY DEF MpInv, MpFreedUntouched, MpLeftAlone, MpDeleteSaw, MpSeekers, MpListExact, Waiting
<1>2. MbInv => MbFreedUntouched
  BY DEF MbInv, MbTypeOK, MbPlaced, MbDeserted, MbFreedUntouched, Waiting
<1>3. MqInv /\ MqDeserted =>
        (mq_state = "freed" => \A t \in Threads : mq_call[t] \in MqIdle \cup {"recv_error"})
  BY DEF MqInv, MqListExact, MqDeserted, Waiting
<1>4. IpcInv => FreedUntouched
  BY <1>1, <1>2, <1>3 DEF IpcInv, SemDeserted, EvInv, FreedUntouched
<1> QED  BY <1>4, IpcInvariance, PTL

\* SyncIsAnswered, with the other objects beside the work queue.
THEOREM CancelIsAnswered == Spec => []WorkqueueAnswers
<1>1. IpcInv => WorkqueueAnswers
  BY WqInvAnswers DEF IpcInv, WorkqueueAnswers
<1> QED  BY <1>1, IpcInvariance, PTL

=============================================================================
