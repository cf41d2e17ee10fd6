--------------------------- MODULE MsgQueueProofs ---------------------------
(***************************************************************************)
(* Proofs about MsgQueue, for any number of threads, slots and messages.    *)
(*                                                                          *)
(* The inductive invariant MqInv joins where every slot is with where every *)
(* thread is: a thread has a slot in hand exactly between the two critical  *)
(* sections of a send or a receive.  That no message waits while a receiver *)
(* sleeps is inductive with it: each send that links a message moves one    *)
(* sleeper to those about to look, and each of those takes one message.     *)
(*                                                                          *)
(* MsgQueue implements BoundedFifo: a send takes effect when it links its   *)
(* slot, a receive when it unlinks one; everything else is a call, a        *)
(* return, a refusal or no step of the FIFO at all.  That a send finds room *)
(* then is a fact about slots: the one it has in hand is not in the list.   *)
(***************************************************************************)
EXTENDS MsgQueue, KernelWaitProofs, FiniteSetTheorems, SequenceTheorems

\* A thread holds a slot between the critical sections of its call.
Hands ==
  \A t \in Threads :
    mq_slot[t] # NoSlot <=> mq_call[t] \in {"send_copy", "urgent_copy", "recv_copy"}

\* The threads about to look for a message.
Seekers == {t \in Threads : mq_call[t] = "recv"}

MqInv ==
  /\ MqTypeOK
  /\ MqListExact
  /\ Hands
  /\ SlotsConserved
  /\ MqNoLostMessage

-----------------------------------------------------------------------------
(* Lists of slots *)

\* Linking a slot at the end adds that slot.
LEMMA AppendAdds ==
  ASSUME NEW list \in Seq(Slots), NEW s \in Slots, Distinct(list), s \notin Waiting(list)
  PROVE  /\ Append(list, s) \in Seq(Slots)
         /\ Len(Append(list, s)) = Len(list) + 1
         /\ Distinct(Append(list, s))
         /\ Waiting(Append(list, s)) = Waiting(list) \cup {s}
<1>1. /\ Append(list, s) \in Seq(Slots)
      /\ Len(Append(list, s)) = Len(list) + 1
      /\ DOMAIN Append(list, s) = 1 .. Len(list) + 1
      /\ \A i \in 1 .. Len(list) : Append(list, s)[i] = list[i]
      /\ Append(list, s)[Len(list) + 1] = s
  OBVIOUS
<1>2. Distinct(Append(list, s))
  BY <1>1 DEF Distinct, Waiting
<1>3. Waiting(Append(list, s)) = Waiting(list) \cup {s}
  BY <1>1 DEF Waiting
<1> QED  BY <1>1, <1>2, <1>3

\* Linking a slot at the beginning adds that slot.
LEMMA PrependAdds ==
  ASSUME NEW list \in Seq(Slots), NEW s \in Slots, Distinct(list), s \notin Waiting(list)
  PROVE  /\ <<s>> \o list \in Seq(Slots)
         /\ Len(<<s>> \o list) = Len(list) + 1
         /\ Distinct(<<s>> \o list)
         /\ Waiting(<<s>> \o list) = Waiting(list) \cup {s}
<1> DEFINE new == <<s>> \o list
<1>1. /\ new \in Seq(Slots)
      /\ Len(new) = Len(list) + 1
      /\ DOMAIN new = 1 .. Len(list) + 1
      /\ \A i \in 1 .. Len(list) + 1 : new[i] = IF i = 1 THEN s ELSE list[i - 1]
  OBVIOUS
<1> HIDE DEF new
<1>2. Distinct(new)
  <2> SUFFICES ASSUME NEW i \in 1 .. Len(list) + 1, NEW j \in 1 .. Len(list) + 1,
                      new[i] = new[j]
               PROVE  i = j
    BY <1>1 DEF Distinct
  <2>1. CASE i = 1 /\ j # 1
    BY <2>1, <1>1 DEF Waiting
  <2>2. CASE i # 1 /\ j = 1
    BY <2>2, <1>1 DEF Waiting
  <2>3. CASE i # 1 /\ j # 1
    BY <2>3, <1>1 DEF Distinct
  <2> QED  BY <2>1, <2>2, <2>3
<1>3. Waiting(new) = Waiting(list) \cup {s}
  <2>1. Waiting(new) \subseteq Waiting(list) \cup {s}
    BY <1>1 DEF Waiting
  <2>2. s \in Waiting(new)
    BY <1>1 DEF Waiting
  <2>3. ASSUME NEW i \in DOMAIN list  PROVE list[i] \in Waiting(new)
    <3>1. i + 1 \in 1 .. Len(list) + 1 /\ new[i + 1] = list[i]
      BY <1>1
    <3> QED  BY <3>1, <1>1 DEF Waiting
  <2> QED  BY <2>1, <2>2, <2>3 DEF Waiting
<1> QED  BY <1>1, <1>2, <1>3 DEF new

\* Unlinking the first slot removes that slot.
LEMMA UnlinkFirst ==
  ASSUME NEW list \in Seq(Slots), list # <<>>, Distinct(list)
  PROVE  /\ Head(list) \in Slots
         /\ Head(list) \in Waiting(list)
         /\ Tail(list) \in Seq(Slots)
         /\ Len(Tail(list)) = Len(list) - 1
         /\ Distinct(Tail(list))
         /\ Waiting(Tail(list)) = Waiting(list) \ {Head(list)}
<1>1. /\ Len(list) \in Nat \ {0}
      /\ Head(list) = list[1]
      /\ Tail(list) \in Seq(Slots)
      /\ Len(Tail(list)) = Len(list) - 1
      /\ DOMAIN Tail(list) = 1 .. Len(list) - 1
      /\ \A i \in 1 .. Len(list) - 1 : Tail(list)[i] = list[i + 1]
  OBVIOUS
<1>2. Head(list) \in Slots /\ Head(list) \in Waiting(list)
  BY <1>1 DEF Waiting
<1>3. Distinct(Tail(list))
  BY <1>1 DEF Distinct
<1>4. Waiting(Tail(list)) = Waiting(list) \ {Head(list)}
  <2>1. Waiting(Tail(list)) \subseteq Waiting(list) \ {Head(list)}
    BY <1>1 DEF Waiting, Distinct
  <2>2. ASSUME NEW i \in DOMAIN list, list[i] # Head(list)
        PROVE  list[i] \in Waiting(Tail(list))
    <3>1. i - 1 \in 1 .. Len(list) - 1 /\ Tail(list)[i - 1] = list[i]
      BY <1>1, <2>2
    <3> QED  BY <3>1, <1>1 DEF Waiting
  <2> QED  BY <2>1, <2>2 DEF Waiting
<1> QED  BY <1>1, <1>2, <1>3, <1>4

-----------------------------------------------------------------------------
(* The threads about to look for a message *)

\* They are finitely many.
LEMMA SeekersFinite ==
  /\ IsFiniteSet(Seekers)
  /\ Cardinality(Seekers) \in Nat
<1>1. Seekers \in SUBSET Threads
  BY DEF Seekers
<1> QED  BY <1>1, ThreadsAssumption, FS_Subset, FS_CardinalityType

\* One that joins them is one more, one that leaves them one less.
LEMMA SeekersAdd ==
  ASSUME NEW t \in Threads, t \notin Seekers, Seekers' = Seekers \cup {t}
  PROVE  Cardinality(Seekers') = Cardinality(Seekers) + 1
BY SeekersFinite, FS_AddElement

LEMMA SeekersRemove ==
  ASSUME NEW t \in Seekers, Seekers' = Seekers \ {t}
  PROVE  Cardinality(Seekers') = Cardinality(Seekers) - 1
BY SeekersFinite, FS_RemoveElement

\* The slots are where they were if nobody moves one.
LEMMA SlotsStay ==
  ASSUME SlotsConserved, UNCHANGED <<mq_free, mq_list, mq_entry, mq_slot>>
  PROVE  SlotsConserved'
BY DEF SlotsConserved

\* The messages still have someone to take them if none is added, no seeker
\* leaves, and nobody starts to wait.
LEMMA SeekersStay ==
  ASSUME MqInv, mq_entry' = mq_entry, Seekers' = Seekers,
         mq_waiting' # <<>> => mq_waiting # <<>>
  PROVE  MqNoLostMessage'
BY DEF MqInv, MqNoLostMessage, Seekers

-----------------------------------------------------------------------------
(* rt_mq_send, rt_mq_urgent *)

LEMMA SendCallKeeps ==
  ASSUME MqInv, NEW t \in Threads, NEW m \in Messages, NEW kind \in {"send", "urgent"},
         MqSendCall(t, kind, m)
  PROVE  MqInv'
<1>1. MqTypeOK'
  BY DEF MqInv, MqTypeOK, MqSendCall, MqMayCall
<1>2. MqListExact' /\ Hands'
  BY DEF MqInv, MqTypeOK, MqListExact, Hands, MqSendCall, MqMayCall, MqIdle
<1>3. SlotsConserved'
  BY SlotsStay DEF MqInv, MqSendCall
<1>4. Seekers' = Seekers
  BY DEF MqInv, MqTypeOK, Seekers, MqSendCall, MqMayCall, MqIdle
<1>5. MqNoLostMessage'
  BY <1>4, SeekersStay DEF MqSendCall
<1> QED  BY <1>1, <1>2, <1>3, <1>5 DEF MqInv

LEMMA SendFullKeeps ==
  ASSUME MqInv, NEW t \in Threads, MqSendFull(t)
  PROVE  MqInv'
<1>1. MqTypeOK'
  BY DEF MqInv, MqTypeOK, MqSendFull
<1>2. MqListExact' /\ Hands'
  BY DEF MqInv, MqTypeOK, MqListExact, Hands, MqSendFull
<1>3. SlotsConserved'
  BY SlotsStay DEF MqInv, MqSendFull
<1>4. Seekers' = Seekers
  BY DEF MqInv, MqTypeOK, Seekers, MqSendFull
<1>5. MqNoLostMessage'
  BY <1>4, SeekersStay DEF MqSendFull
<1> QED  BY <1>1, <1>2, <1>3, <1>5 DEF MqInv

LEMMA SendTakeKeeps ==
  ASSUME MqInv, NEW t \in Threads, MqSendTake(t)
  PROVE  MqInv'
<1>1. PICK s \in mq_free : /\ mq_free' = mq_free \ {s}
                           /\ mq_slot' = [mq_slot EXCEPT ![t] = s]
  BY DEF MqSendTake
<1>2. /\ s \in Slots /\ s # NoSlot
      /\ mq_call[t] \in {"send", "urgent"}
      /\ mq_call'[t] \in {"send_copy", "urgent_copy"}
      /\ mq_call' = [mq_call EXCEPT ![t] = mq_call'[t]]
      /\ mq_slot[t] = NoSlot
  BY MsgQueueAssumption DEF MqInv, MqTypeOK, Hands, MqSendTake
<1>3. MqTypeOK'
  BY <1>1, <1>2 DEF MqInv, MqTypeOK, MqSendTake
<1>4. MqListExact' /\ Hands'
  BY <1>1, <1>2 DEF MqInv, MqTypeOK, MqListExact, Hands, MqSendTake
<1>5. SlotsConserved'
  <2>1. {mq_slot'[u] : u \in Threads} = {mq_slot[u] : u \in Threads \ {t}} \cup {s}
    BY <1>1 DEF MqInv, MqTypeOK
  <2>2. {mq_slot[u] : u \in Threads} = {mq_slot[u] : u \in Threads \ {t}} \cup {NoSlot}
    BY <1>2 DEF MqInv, MqTypeOK
  <2>3. mq_list' = mq_list /\ mq_entry' = mq_entry
    BY DEF MqSendTake
  <2>4. Slots = mq_free' \cup Waiting(mq_list') \cup ({mq_slot'[u] : u \in Threads} \ {NoSlot})
    BY <1>1, <1>2, <2>1, <2>2, <2>3 DEF MqInv, SlotsConserved
  <2>5. \A u \in Threads :
          mq_slot'[u] # NoSlot => /\ mq_slot'[u] \notin mq_free' \cup Waiting(mq_list')
                                  /\ \A v \in Threads : mq_slot'[v] = mq_slot'[u] => v = u
    BY <1>1, <1>2, <2>3 DEF MqInv, MqTypeOK, SlotsConserved
  <2> QED  BY <1>1, <2>3, <2>4, <2>5 DEF MqInv, SlotsConserved
<1>6. Seekers' = Seekers
  BY <1>2 DEF MqInv, MqTypeOK, Seekers
<1>7. MqNoLostMessage'
  BY <1>6, SeekersStay DEF MqSendTake
<1> QED  BY <1>3, <1>4, <1>5, <1>7 DEF MqInv

\* Linking puts the slot of t into the list and nowhere else.
LEMMA SendLinkSlots ==
  ASSUME MqInv, NEW t \in Threads, MqSendLink(t)
  PROVE  /\ mq_list' \in Seq(Slots)
         /\ SlotsConserved'
<1> DEFINE s == mq_slot[t]
<1>1. /\ s \in Slots /\ s # NoSlot
      /\ s \notin mq_free \cup Waiting(mq_list)
      /\ mq_list \in Seq(Slots) /\ Distinct(mq_list)
  BY DEF MqInv, MqTypeOK, Hands, SlotsConserved, MqSendLink
<1>2. mq_list' = Append(mq_list, s) \/ mq_list' = <<s>> \o mq_list
  BY DEF MqSendLink, MqLinked
<1>3. /\ mq_slot' = [mq_slot EXCEPT ![t] = NoSlot]
      /\ mq_free' = mq_free
      /\ mq_entry' = mq_entry + 1
  BY DEF MqSendLink
<1> HIDE DEF s
<1>4. /\ mq_list' \in Seq(Slots)
      /\ Len(mq_list') = Len(mq_list) + 1
      /\ Distinct(mq_list')
      /\ Waiting(mq_list') = Waiting(mq_list) \cup {s}
  <2>1. CASE mq_list' = Append(mq_list, s)
    BY <1>1, <2>1, AppendAdds
  <2>2. CASE mq_list' = <<s>> \o mq_list
    <3>1. s \notin Waiting(mq_list)
      BY <1>1
    <3> QED  BY <1>1, <2>2, <3>1, PrependAdds, Zenon
  <2> QED  BY <1>2, <2>1, <2>2
<1>5. {mq_slot'[u] : u \in Threads} = {mq_slot[u] : u \in Threads \ {t}} \cup {NoSlot}
  BY <1>3 DEF MqInv, MqTypeOK
<1>6. /\ {mq_slot[u] : u \in Threads} = {mq_slot[u] : u \in Threads \ {t}} \cup {s}
      /\ \A u \in Threads \ {t} : mq_slot[u] # s
  BY <1>1 DEF MqInv, MqTypeOK, SlotsConserved, s
<1>7. Slots = mq_free' \cup Waiting(mq_list') \cup ({mq_slot'[u] : u \in Threads} \ {NoSlot})
  BY <1>1, <1>3, <1>4, <1>5, <1>6 DEF MqInv, SlotsConserved
<1>8. \A u \in Threads :
        mq_slot'[u] # NoSlot => /\ mq_slot'[u] \notin mq_free' \cup Waiting(mq_list')
                                /\ \A v \in Threads : mq_slot'[v] = mq_slot'[u] => v = u
  <2> SUFFICES ASSUME NEW u \in Threads, mq_slot'[u] # NoSlot
               PROVE  /\ mq_slot'[u] \notin mq_free' \cup Waiting(mq_list')
                      /\ \A v \in Threads : mq_slot'[v] = mq_slot'[u] => v = u
    OBVIOUS
  <2>1. /\ u # t /\ mq_slot'[t] = NoSlot
        /\ \A v \in Threads \ {t} : mq_slot'[v] = mq_slot[v]
    BY <1>3 DEF MqInv, MqTypeOK
  <2>2. /\ mq_slot[u] \notin mq_free \cup Waiting(mq_list)
        /\ \A v \in Threads : mq_slot[v] = mq_slot[u] => v = u
    BY <2>1 DEF MqInv, SlotsConserved
  <2> QED  BY <1>3, <1>4, <1>6, <2>1, <2>2
<1>9. mq_free' \cap Waiting(mq_list') = {} /\ Len(mq_list') = mq_entry'
  BY <1>1, <1>3, <1>4 DEF MqInv, SlotsConserved
<1> QED  BY <1>4, <1>7, <1>8, <1>9 DEF SlotsConserved

LEMMA SendLinkKeeps ==
  ASSUME MqInv, NEW t \in Threads, MqSendLink(t)
  PROVE  MqInv'
<1>1. mq_list' \in Seq(Slots) /\ SlotsConserved'
  BY SendLinkSlots
<1>2. /\ mq_call[t] \in {"send_copy", "urgent_copy"}
      /\ mq_slot[t] \in Slots
      /\ mq_slot' = [mq_slot EXCEPT ![t] = NoSlot]
      /\ mq_entry \in Nat /\ mq_entry' = mq_entry + 1
      /\ mq_content' \in [Slots -> Messages]
      /\ UNCHANGED <<mq_state, mq_free, mq_buffer>>
  BY DEF MqInv, MqTypeOK, Hands, MqSendLink
<1>3. CASE mq_waiting = <<>>
  <2>1. /\ mq_call' = [mq_call EXCEPT ![t] = "sent"]
        /\ UNCHANGED <<mq_waiting, mq_time>>
    BY <1>3 DEF MqSendLink
  <2>2. MqTypeOK'
    BY <1>1, <1>2, <2>1 DEF MqInv, MqTypeOK
  <2>3. MqListExact' /\ Hands'
    BY <1>2, <2>1 DEF MqInv, MqTypeOK, MqListExact, Hands
  <2>4. MqNoLostMessage'
    BY <1>3, <2>1 DEF MqNoLostMessage
  <2> QED  BY <1>1, <2>2, <2>3, <2>4 DEF MqInv
<1>4. CASE mq_waiting # <<>>
  <2> DEFINE w == Head(mq_waiting)
  <2>1. /\ mq_waiting' = Tail(mq_waiting)
        /\ mq_call' = [mq_call EXCEPT ![t] = "sent", ![w] = "recv"]
        /\ \E left \in Remaining(mq_time[w]) : mq_time' = [mq_time EXCEPT ![w] = left]
    BY <1>4 DEF MqSendLink
  <2>2. /\ w \in Threads /\ w \in Waiting(mq_waiting)
        /\ mq_waiting' \in Seq(Threads)
        /\ Distinct(mq_waiting')
        /\ Waiting(mq_waiting') = Waiting(mq_waiting) \ {w}
    BY <1>4, <2>1, TailRemovesHead DEF MqInv, MqTypeOK, MqListExact
  <2>3. mq_call[w] = "recv_wait" /\ w # t
    BY <1>2, <2>2 DEF MqInv, MqListExact
  <2> HIDE DEF w
  <2>4. mq_time' \in [Threads -> Timeouts]
    BY <2>1, <2>2 DEF MqInv, MqTypeOK, Remaining, Timeouts
  <2>5. MqTypeOK'
    BY <1>1, <1>2, <2>1, <2>2, <2>4 DEF MqInv, MqTypeOK
  <2>6. MqListExact' /\ Hands'
    BY <1>2, <2>1, <2>2, <2>3 DEF MqInv, MqTypeOK, MqListExact, Hands
  <2>7. Seekers' = Seekers \cup {w} /\ w \notin Seekers
    BY <1>2, <2>1, <2>2, <2>3 DEF MqInv, MqTypeOK, Seekers
  <2>8. Cardinality(Seekers') = Cardinality(Seekers) + 1
    BY <2>2, <2>7, SeekersAdd
  <2>9. mq_entry <= Cardinality(Seekers)
    BY <1>4 DEF MqInv, MqNoLostMessage, Seekers
  <2>10. MqNoLostMessage'
    BY <1>2, <2>8, <2>9, SeekersFinite DEF MqNoLostMessage, Seekers
  <2> QED  BY <1>1, <2>5, <2>6, <2>10 DEF MqInv
<1> QED  BY <1>3, <1>4

-----------------------------------------------------------------------------
(* rt_mq_recv *)

LEMMA RecvCallKeeps ==
  ASSUME MqInv, NEW t \in Threads, NEW time \in Timeouts, MqRecvCall(t, time)
  PROVE  MqInv'
<1>1. MqTypeOK'
  BY DEF MqInv, MqTypeOK, MqRecvCall, MqMayCall
<1>2. MqListExact' /\ Hands'
  BY DEF MqInv, MqTypeOK, MqListExact, Hands, MqRecvCall, MqMayCall, MqIdle
<1>3. SlotsConserved'
  BY SlotsStay DEF MqInv, MqRecvCall
<1>4. Seekers' = Seekers \cup {t} /\ t \notin Seekers
  BY DEF MqInv, MqTypeOK, Seekers, MqRecvCall, MqMayCall, MqIdle
<1>5. Cardinality(Seekers') = Cardinality(Seekers) + 1
  BY <1>4, SeekersAdd
<1>6. mq_waiting' = mq_waiting /\ mq_entry' = mq_entry /\ mq_entry \in Nat
  BY DEF MqInv, MqTypeOK, MqRecvCall
<1>7. MqNoLostMessage'
  BY <1>5, <1>6, SeekersFinite DEF MqInv, MqNoLostMessage, Seekers
<1> QED  BY <1>1, <1>2, <1>3, <1>7 DEF MqInv

\* When there is no message nobody can have missed one.
LEMMA RecvEmptyKeeps ==
  ASSUME MqInv, NEW t \in Threads, MqRecvEmpty(t)
  PROVE  MqInv'
<1>1. MqTypeOK'
  BY DEF MqInv, MqTypeOK, MqRecvEmpty
<1>2. MqListExact' /\ Hands'
  BY DEF MqInv, MqTypeOK, MqListExact, Hands, MqRecvEmpty
<1>3. SlotsConserved'
  BY SlotsStay DEF MqInv, MqRecvEmpty
<1>4. Seekers' = Seekers \ {t} /\ t \in Seekers
  BY DEF MqInv, MqTypeOK, Seekers, MqRecvEmpty
<1>5. Cardinality(Seekers') \in Nat
  BY <1>4, SeekersFinite, FS_RemoveElement, FS_CardinalityType
<1>6. mq_entry' = 0
  BY DEF MqRecvEmpty
<1>7. MqNoLostMessage'
  BY <1>5, <1>6 DEF MqNoLostMessage, Seekers
<1> QED  BY <1>1, <1>2, <1>3, <1>7 DEF MqInv

LEMMA RecvSuspendKeeps ==
  ASSUME MqInv, NEW t \in Threads, MqRecvSuspend(t)
  PROVE  MqInv'
<1>1. /\ mq_waiting' \in Seq(Threads)
      /\ Distinct(mq_waiting')
      /\ Waiting(mq_waiting') = Waiting(mq_waiting) \cup {t}
  <2>1. t \notin Waiting(mq_waiting)
    BY DEF MqInv, MqListExact, MqRecvSuspend
  <2> QED  BY <2>1, EnqueueLastAdds DEF MqInv, MqTypeOK, MqListExact, MqRecvSuspend
<1>2. MqTypeOK'
  BY <1>1 DEF MqInv, MqTypeOK, MqRecvSuspend
<1>3. MqListExact' /\ Hands'
  BY <1>1 DEF MqInv, MqTypeOK, MqListExact, Hands, MqRecvSuspend
<1>4. SlotsConserved'
  BY SlotsStay DEF MqInv, MqRecvSuspend
<1>5. Seekers' = Seekers \ {t} /\ t \in Seekers
  BY DEF MqInv, MqTypeOK, Seekers, MqRecvSuspend
<1>6. Cardinality(Seekers') \in Nat
  BY <1>5, SeekersFinite, FS_RemoveElement, FS_CardinalityType
<1>7. mq_entry' = 0
  BY DEF MqRecvSuspend
<1>8. MqNoLostMessage'
  BY <1>6, <1>7 DEF MqNoLostMessage, Seekers
<1> QED  BY <1>2, <1>3, <1>4, <1>8 DEF MqInv

\* Unlinking moves the first slot of the list to the hand of t.
LEMMA RecvUnlinkSlots ==
  ASSUME MqInv, NEW t \in Threads, MqRecvUnlink(t)
  PROVE  /\ mq_list' \in Seq(Slots)
         /\ mq_slot' \in [Threads -> Slots \cup {NoSlot}]
         /\ mq_slot'[t] # NoSlot
         /\ mq_entry \in Nat \ {0}
         /\ SlotsConserved'
<1> DEFINE s == Head(mq_list)
<1>1. /\ mq_slot[t] = NoSlot
      /\ mq_list \in Seq(Slots) /\ Distinct(mq_list)
      /\ mq_entry \in Nat \ {0} /\ Len(mq_list) = mq_entry
  BY DEF MqInv, MqTypeOK, Hands, SlotsConserved, MqRecvUnlink
<1>2. mq_list # <<>>
  BY <1>1
<1>3. /\ mq_list' = Tail(mq_list)
      /\ mq_slot' = [mq_slot EXCEPT ![t] = s]
      /\ mq_free' = mq_free
      /\ mq_entry' = mq_entry - 1
  BY DEF MqRecvUnlink
<1>4. /\ s \in Slots /\ s # NoSlot /\ s \in Waiting(mq_list)
      /\ mq_list' \in Seq(Slots)
      /\ Len(mq_list') = Len(mq_list) - 1
      /\ Distinct(mq_list')
      /\ Waiting(mq_list') = Waiting(mq_list) \ {s}
  BY <1>1, <1>2, <1>3, UnlinkFirst, MsgQueueAssumption
<1> HIDE DEF s
<1>5. /\ {mq_slot'[u] : u \in Threads} = {mq_slot[u] : u \in Threads \ {t}} \cup {s}
      /\ {mq_slot[u] : u \in Threads} = {mq_slot[u] : u \in Threads \ {t}} \cup {NoSlot}
  BY <1>1, <1>3 DEF MqInv, MqTypeOK
<1>6. Slots = mq_free' \cup Waiting(mq_list') \cup ({mq_slot'[u] : u \in Threads} \ {NoSlot})
  BY <1>3, <1>4, <1>5 DEF MqInv, SlotsConserved
<1>7. \A u \in Threads :
        mq_slot'[u] # NoSlot => /\ mq_slot'[u] \notin mq_free' \cup Waiting(mq_list')
                                /\ \A v \in Threads : mq_slot'[v] = mq_slot'[u] => v = u
  <2>1. /\ mq_slot'[t] = s
        /\ \A v \in Threads \ {t} : mq_slot'[v] = mq_slot[v]
    BY <1>3 DEF MqInv, MqTypeOK
  <2>2. s \notin mq_free /\ \A v \in Threads : mq_slot[v] # s
    BY <1>4 DEF MqInv, SlotsConserved
  <2>3. \A u \in Threads :
          mq_slot[u] # NoSlot => /\ mq_slot[u] \notin mq_free \cup Waiting(mq_list)
                                 /\ \A v \in Threads : mq_slot[v] = mq_slot[u] => v = u
    BY DEF MqInv, SlotsConserved
  <2> QED  BY <1>3, <1>4, <2>1, <2>2, <2>3
<1>8. mq_free' \cap Waiting(mq_list') = {} /\ Len(mq_list') = mq_entry'
  BY <1>1, <1>3, <1>4 DEF MqInv, SlotsConserved
<1>9. mq_slot' \in [Threads -> Slots \cup {NoSlot}] /\ mq_slot'[t] # NoSlot
  BY <1>3, <1>4 DEF MqInv, MqTypeOK
<1> QED  BY <1>1, <1>4, <1>6, <1>7, <1>8, <1>9 DEF SlotsConserved

LEMMA RecvUnlinkKeeps ==
  ASSUME MqInv, NEW t \in Threads, MqRecvUnlink(t)
  PROVE  MqInv'
<1>1. /\ mq_list' \in Seq(Slots)
      /\ mq_slot' \in [Threads -> Slots \cup {NoSlot}]
      /\ mq_slot'[t] # NoSlot
      /\ mq_entry \in Nat \ {0}
      /\ SlotsConserved'
  BY RecvUnlinkSlots
<1>2. MqTypeOK'
  BY <1>1 DEF MqInv, MqTypeOK, MqRecvUnlink
<1>3. MqListExact' /\ Hands'
  BY <1>1 DEF MqInv, MqTypeOK, MqListExact, Hands, MqRecvUnlink
<1>4. Seekers' = Seekers \ {t} /\ t \in Seekers
  BY DEF MqInv, MqTypeOK, Seekers, MqRecvUnlink
<1>5. Cardinality(Seekers') = Cardinality(Seekers) - 1
  BY <1>4, SeekersRemove
<1>6. mq_waiting' = mq_waiting /\ mq_entry' = mq_entry - 1
  BY DEF MqRecvUnlink
<1>7. MqNoLostMessage'
  BY <1>1, <1>5, <1>6, SeekersFinite DEF MqInv, MqNoLostMessage, Seekers
<1> QED  BY <1>1, <1>2, <1>3, <1>7 DEF MqInv

LEMMA RecvFreeKeeps ==
  ASSUME MqInv, NEW t \in Threads, MqRecvFree(t)
  PROVE  MqInv'
<1> DEFINE s == mq_slot[t]
<1>1. /\ s \in Slots /\ s # NoSlot
      /\ s \notin mq_free \cup Waiting(mq_list)
  BY DEF MqInv, MqTypeOK, Hands, SlotsConserved, MqRecvFree
<1>2. /\ mq_free' = mq_free \cup {s}
      /\ mq_slot' = [mq_slot EXCEPT ![t] = NoSlot]
      /\ mq_list' = mq_list /\ mq_entry' = mq_entry
  BY DEF MqRecvFree
<1>3. MqTypeOK'
  BY <1>1 DEF MqInv, MqTypeOK, MqRecvFree
<1>4. MqListExact' /\ Hands'
  BY DEF MqInv, MqTypeOK, MqListExact, Hands, MqRecvFree
<1>5. SlotsConserved'
  <2>1. /\ {mq_slot'[u] : u \in Threads} = {mq_slot[u] : u \in Threads \ {t}} \cup {NoSlot}
        /\ {mq_slot[u] : u \in Threads} = {mq_slot[u] : u \in Threads \ {t}} \cup {s}
        /\ \A u \in Threads \ {t} : mq_slot[u] # s
    BY <1>1, <1>2 DEF MqInv, MqTypeOK, SlotsConserved
  <2> HIDE DEF s
  <2>2. Slots = mq_free' \cup Waiting(mq_list') \cup ({mq_slot'[u] : u \in Threads} \ {NoSlot})
    BY <1>1, <1>2, <2>1 DEF MqInv, SlotsConserved
  <2>3. \A u \in Threads :
          mq_slot'[u] # NoSlot => /\ mq_slot'[u] \notin mq_free' \cup Waiting(mq_list')
                                  /\ \A v \in Threads : mq_slot'[v] = mq_slot'[u] => v = u
    <3> SUFFICES ASSUME NEW u \in Threads, mq_slot'[u] # NoSlot
                 PROVE  /\ mq_slot'[u] \notin mq_free' \cup Waiting(mq_list')
                        /\ \A v \in Threads : mq_slot'[v] = mq_slot'[u] => v = u
      OBVIOUS
    <3>1. /\ u # t /\ mq_slot'[t] = NoSlot
          /\ \A v \in Threads \ {t} : mq_slot'[v] = mq_slot[v]
      BY <1>2 DEF MqInv, MqTypeOK
    <3>2. /\ mq_slot[u] \notin mq_free \cup Waiting(mq_list)
          /\ \A v \in Threads : mq_slot[v] = mq_slot[u] => v = u
      BY <3>1 DEF MqInv, SlotsConserved
    <3> QED  BY <1>2, <2>1, <3>1, <3>2
  <2> QED  BY <1>1, <1>2, <2>2, <2>3 DEF MqInv, SlotsConserved
<1>6. Seekers' = Seekers
  BY DEF MqInv, MqTypeOK, Seekers, MqRecvFree
<1>7. MqNoLostMessage'
  BY <1>6, SeekersStay DEF MqRecvFree
<1> QED  BY <1>3, <1>4, <1>5, <1>7 DEF MqInv

LEMMA TimeoutKeeps ==
  ASSUME MqInv, NEW t \in Threads, MqTimeout(t)
  PROVE  MqInv'
<1>1. /\ mq_waiting' \in Seq(Threads)
      /\ Distinct(mq_waiting')
      /\ Waiting(mq_waiting') = Waiting(mq_waiting) \ {t}
      /\ mq_waiting # <<>>
  <2>1. t \in Waiting(mq_waiting)
    BY DEF MqInv, MqListExact, MqTimeout
  <2> QED  BY <2>1, UnlinkRemoves DEF MqInv, MqTypeOK, MqListExact, MqTimeout
<1>2. MqTypeOK'
  BY <1>1 DEF MqInv, MqTypeOK, MqTimeout
<1>3. MqListExact' /\ Hands'
  BY <1>1 DEF MqInv, MqTypeOK, MqListExact, Hands, MqTimeout
<1>4. SlotsConserved'
  BY SlotsStay DEF MqInv, MqTimeout
<1>5. Seekers' = Seekers
  BY DEF MqInv, MqTypeOK, Seekers, MqTimeout
<1>6. MqNoLostMessage'
  BY <1>1, <1>5, SeekersStay DEF MqTimeout
<1> QED  BY <1>2, <1>3, <1>4, <1>6 DEF MqInv

LEMMA ReturnKeeps ==
  ASSUME MqInv, NEW t \in Threads, MqReturn(t)
  PROVE  MqInv'
<1>1. /\ mq_call[t] \in {"sent", "send_error", "recvd", "recv_error"}
      /\ mq_call' = [mq_call EXCEPT ![t] = mq_call'[t]]
      /\ mq_call'[t] \in {"ok", "error"}
  BY DEF MqInv, MqTypeOK, MqReturn
<1>2. MqTypeOK'
  BY <1>1 DEF MqInv, MqTypeOK, MqReturn, MqIdle, Timeouts
<1>3. MqListExact' /\ Hands'
  BY <1>1 DEF MqInv, MqTypeOK, MqListExact, Hands, MqReturn
<1>4. SlotsConserved'
  BY SlotsStay DEF MqInv, MqReturn
<1>5. Seekers' = Seekers
  BY <1>1 DEF MqInv, MqTypeOK, Seekers
<1>6. MqNoLostMessage'
  BY <1>5, SeekersStay DEF MqReturn
<1> QED  BY <1>2, <1>3, <1>4, <1>6 DEF MqInv

-----------------------------------------------------------------------------
(* rt_mq_control, rt_mq_delete *)

LEMMA ResetKeeps ==
  ASSUME MqInv, MqReset
  PROVE  MqInv'
<1>1. /\ mq_waiting' = <<>> /\ mq_list' = <<>> /\ mq_entry' = 0
      /\ mq_free' = mq_free \cup Waiting(mq_list)
      /\ mq_slot' = mq_slot
      /\ mq_call' = [t \in Threads |->
                       IF mq_call[t] = "recv_wait" THEN "recv_error" ELSE mq_call[t]]
      /\ UNCHANGED <<mq_state, mq_content, mq_time, mq_buffer>>
  BY DEF MqReset
<1>2. /\ mq_waiting' \in Seq(Threads) /\ Distinct(mq_waiting') /\ Waiting(mq_waiting') = {}
      /\ mq_list' \in Seq(Slots) /\ Distinct(mq_list') /\ Waiting(mq_list') = {}
      /\ Len(mq_list') = 0
  BY <1>1 DEF Distinct, Waiting
<1>3. Waiting(mq_list) \subseteq Slots
  BY DEF MqInv, MqTypeOK, Waiting
<1>4. MqTypeOK'
  <2>1. mq_call' \in [Threads -> MqIdle \cup
                    {"send", "send_copy", "urgent", "urgent_copy", "sent", "send_error",
                     "recv", "recv_wait", "recv_copy", "recvd", "recv_error"}]
    BY <1>1 DEF MqInv, MqTypeOK
  <2> QED  BY <1>1, <1>2, <1>3, <2>1 DEF MqInv, MqTypeOK
<1>5. MqListExact' /\ Hands'
  BY <1>1, <1>2 DEF MqInv, MqTypeOK, MqListExact, Hands
<1>6. SlotsConserved'
  BY <1>1, <1>2 DEF MqInv, SlotsConserved
<1>7. MqNoLostMessage'
  BY <1>1 DEF MqNoLostMessage
<1> QED  BY <1>4, <1>5, <1>6, <1>7 DEF MqInv

LEMMA DeleteResumeKeeps ==
  ASSUME MqInv, MqDeleteResume
  PROVE  MqInv'
<1> DEFINE w == Head(mq_waiting)
<1>1. /\ w \in Threads /\ w \in Waiting(mq_waiting)
      /\ mq_waiting' \in Seq(Threads)
      /\ Distinct(mq_waiting')
      /\ Waiting(mq_waiting') = Waiting(mq_waiting) \ {w}
  BY TailRemovesHead DEF MqInv, MqTypeOK, MqListExact, MqDeleteResume
<1>2. mq_call[w] = "recv_wait"
  BY <1>1 DEF MqInv, MqListExact
<1>3. mq_call' = [mq_call EXCEPT ![w] = "recv_error"]
  BY DEF MqDeleteResume
<1> HIDE DEF w
<1>4. MqTypeOK'
  BY <1>1, <1>3 DEF MqInv, MqTypeOK, MqDeleteResume
<1>5. MqListExact' /\ Hands'
  BY <1>1, <1>2, <1>3 DEF MqInv, MqTypeOK, MqListExact, Hands, MqDeleteResume
<1>6. SlotsConserved'
  BY SlotsStay DEF MqInv, MqDeleteResume
<1>7. Seekers' = Seekers
  BY <1>1, <1>2, <1>3 DEF MqInv, MqTypeOK, Seekers
<1>8. MqNoLostMessage'
  BY <1>7, SeekersStay DEF MqDeleteResume
<1> QED  BY <1>4, <1>5, <1>6, <1>8 DEF MqInv

\* A step that leaves the slots and the threads alone.
LEMMA OtherKeeps ==
  ASSUME MqInv,
         mq_state' \in {"live", "deleting", "resuming", "lost", "freed"},
         UNCHANGED <<mq_free, mq_list, mq_entry, mq_content, mq_waiting,
                     mq_call, mq_time, mq_slot, mq_buffer>>
  PROVE  MqInv'
BY DEF MqInv, MqTypeOK, MqListExact, Hands, SlotsConserved, MqNoLostMessage

-----------------------------------------------------------------------------
(* The specification *)

LEMMA InitEstablishes == MqInit => MqInv
<1> SUFFICES ASSUME MqInit  PROVE MqInv
  OBVIOUS
<1>1. /\ mq_waiting \in Seq(Threads) /\ Distinct(mq_waiting) /\ Waiting(mq_waiting) = {}
      /\ mq_list \in Seq(Slots) /\ Distinct(mq_list) /\ Waiting(mq_list) = {}
      /\ Len(mq_list) = 0
  BY DEF MqInit, Distinct, Waiting
<1>2. MqTypeOK
  BY <1>1 DEF MqInit, MqTypeOK, MqIdle, Timeouts
<1>3. MqListExact /\ Hands
  BY <1>1 DEF MqInit, MqListExact, Hands
<1>4. SlotsConserved
  BY <1>1 DEF MqInit, SlotsConserved
<1>5. MqNoLostMessage
  BY DEF MqInit, MqNoLostMessage
<1> QED  BY <1>2, <1>3, <1>4, <1>5 DEF MqInv

LEMMA ThreadStepKeeps ==
  ASSUME MqInv, NEW t \in Threads, MqStep(t)
  PROVE  MqInv'
<1>1. ASSUME NEW m \in Messages, NEW kind \in {"send", "urgent"}, MqSendCall(t, kind, m)
      PROVE  MqInv'
  BY <1>1, SendCallKeeps
<1>2. CASE MqSendFull(t)
  BY <1>2, SendFullKeeps
<1>3. CASE MqSendTake(t)
  BY <1>3, SendTakeKeeps
<1>4. CASE MqSendLink(t)
  BY <1>4, SendLinkKeeps
<1>5. ASSUME NEW time \in Timeouts, MqRecvCall(t, time)  PROVE MqInv'
  BY <1>5, RecvCallKeeps
<1>6. CASE MqRecvEmpty(t)
  BY <1>6, RecvEmptyKeeps
<1>7. CASE MqRecvSuspend(t)
  BY <1>7, RecvSuspendKeeps
<1>8. CASE MqRecvUnlink(t)
  BY <1>8, RecvUnlinkKeeps
<1>9. CASE MqRecvFree(t)
  BY <1>9, RecvFreeKeeps
<1>10. CASE MqTimeout(t)
  BY <1>10, TimeoutKeeps
<1>11. CASE MqReturn(t)
  BY <1>11, ReturnKeeps
<1> QED  BY <1>1, <1>2, <1>3, <1>4, <1>5, <1>6, <1>7, <1>8, <1>9, <1>10, <1>11 DEF MqStep

LEMMA StepKeeps ==
  ASSUME MqInv, [MqNext]_mqVars
  PROVE  MqInv'
<1>1. ASSUME NEW t \in Threads, MqStep(t)  PROVE MqInv'
  BY <1>1, ThreadStepKeeps
<1>2. CASE MqReset
  BY <1>2, ResetKeeps
<1>3. CASE MqDeleteResume
  BY <1>3, DeleteResumeKeeps
<1>4. CASE \/ MqDeleteCall \/ MqDeleteTest \/ MqDeleteHead \/ MqDeleteFree
           \/ UNCHANGED mqVars
  BY <1>4, OtherKeeps DEF MqDeleteCall, MqDeleteTest, MqDeleteHead, MqDeleteFree, mqVars,
                          MqInv, MqTypeOK
<1> QED  BY <1>1, <1>2, <1>3, <1>4 DEF MqNext

\* The invariant holds in every reachable state of a message queue.
THEOREM MqInvariance == MqSpec => []MqInv
<1>1. MqInv /\ [MqNext]_mqVars => MqInv'
  BY StepKeeps
<1> QED  BY InitEstablishes, <1>1, PTL DEF MqSpec

\* Every slot is in one place, also while a message is copied outside the
\* critical sections and while RT_IPC_CMD_RESET comes in between.
THEOREM SlotsAreConserved == MqSpec => []SlotsConserved
<1>1. MqInv => SlotsConserved
  BY DEF MqInv
<1> QED  BY MqInvariance, <1>1, PTL

\* rt_mq_send resumes enough receivers: none sleeps in rt_mq_recv while there
\* is a message that no other thread is about to take.
THEOREM NoMessageIsMissed == MqSpec => []MqNoLostMessage
<1>1. MqInv => MqNoLostMessage
  BY DEF MqInv
<1> QED  BY MqInvariance, <1>1, PTL

\* The list holds the threads that wait in rt_mq_recv, each once.
THEOREM MqListIsExact == MqSpec => []MqListExact
<1>1. MqInv => MqListExact
  BY DEF MqInv
<1> QED  BY MqInvariance, <1>1, PTL

-----------------------------------------------------------------------------
(* MsgQueue implements BoundedFifo *)

\* The time of a call that does not wait is 0.
InNoTime ==
  \A t \in Threads :
    mq_call[t] \in MqIdle \cup {"send", "send_copy", "urgent", "urgent_copy"}
      => mq_time[t] = "no_wait"

-----------------------------------------------------------------------------
(* The refinement mapping *)

\* What the points of a call are for the caller.
LEMMA Points ==
  /\ \A c \in MqIdle : MqFifoPoint(c) = "idle"
  /\ MqFifoPoint("send") = "push" /\ MqFifoPoint("send_copy") = "push"
  /\ MqFifoPoint("urgent") = "urgent" /\ MqFifoPoint("urgent_copy") = "urgent"
  /\ MqFifoPoint("sent") = "pushed"
  /\ MqFifoPoint("recv") = "pop" /\ MqFifoPoint("recv_wait") = "pop"
  /\ MqFifoPoint("recv_copy") = "popped" /\ MqFifoPoint("recvd") = "popped"
  /\ MqFifoPoint("send_error") = "refused" /\ MqFifoPoint("recv_error") = "refused"
BY DEF MqFifoPoint, MqIdle

\* A thread that moves on moves on for its caller.
LEMMA CallMoves ==
  ASSUME MqTypeOK, NEW t \in Threads, NEW point,
         mq_call' = [mq_call EXCEPT ![t] = point]
  PROVE  MqFifoCall' = [MqFifoCall EXCEPT ![t] = MqFifoPoint(point)]
BY DEF MqFifoCall, MqTypeOK

\* The result of the last call is seen until the next one.
LEMMA ResultMoves ==
  ASSUME MqTypeOK, NEW t \in Threads, NEW point,
         mq_call' = [mq_call EXCEPT ![t] = point]
  PROVE  MqFifoResult' =
           [MqFifoResult EXCEPT ![t] = IF point \in MqIdle THEN point ELSE "none"]
BY DEF MqFifoResult, MqTypeOK

\* Moving on from one point outside calls to none, or inside, shows no result.
LEMMA ResultStays ==
  ASSUME MqTypeOK, NEW t \in Threads, mq_call[t] \notin MqIdle,
         NEW point, point \notin MqIdle,
         mq_call' = [mq_call EXCEPT ![t] = point]
  PROVE  MqFifoResult' = MqFifoResult
BY DEF MqFifoResult, MqTypeOK

\* Unless t receives, its message is in its buffer.
LEMMA LetterStays ==
  ASSUME MqTypeOK, NEW t \in Threads, mq_call[t] # "recv_copy",
         NEW point, point # "recv_copy",
         mq_call' = [mq_call EXCEPT ![t] = point],
         UNCHANGED <<mq_content, mq_slot, mq_buffer>>
  PROVE  MqFifoLetter' = MqFifoLetter
BY DEF MqFifoLetter, MqTypeOK

\* The parts of the mapping that only look at one variable.
LEMMA PatienceStays == mq_time' = mq_time => MqFifoPatience' = MqFifoPatience
BY DEF MqFifoPatience

LEMMA ClosedStays == mq_state' = mq_state => (MqFifoClosed' <=> MqFifoClosed)
BY DEF MqFifoClosed

LEMMA QueueStays ==
  UNCHANGED <<mq_list, mq_content>> => MqFifoQueue' = MqFifoQueue
BY DEF MqFifoQueue

\* The mapping maps to functions on the threads.
LEMMA MappingTypes ==
  ASSUME MqTypeOK
  PROVE  /\ MqFifoQueue \in Seq(Messages)
         /\ Len(MqFifoQueue) = Len(mq_list)
         /\ DOMAIN MqFifoCall = Threads
         /\ DOMAIN MqFifoPatience = Threads
         /\ DOMAIN MqFifoLetter = Threads
         /\ DOMAIN MqFifoResult = Threads
BY DEF MqTypeOK, MqFifoQueue, MqFifoCall, MqFifoPatience, MqFifoLetter, MqFifoResult

-----------------------------------------------------------------------------
(* The list of messages *)

\* A sequence without its head, and with another.
LEMMA TailIs ==
  ASSUME NEW S, NEW q \in Seq(S), q # <<>>
  PROVE  Tail(q) = [i \in 1 .. Len(q) - 1 |-> q[i + 1]]
<1> DEFINE rest == [i \in 1 .. Len(q) - 1 |-> q[i + 1]]
<1>1. /\ Tail(q) \in Seq(S)
      /\ Len(Tail(q)) = Len(q) - 1
      /\ \A i \in 1 .. Len(q) - 1 : Tail(q)[i] = q[i + 1]
  BY HeadTailProperties
<1>2. Len(q) \in Nat \ {0} /\ \A i \in 1 .. Len(q) : q[i] \in S
  BY LenProperties
<1>3. Len(q) - 1 \in Nat /\ rest \in [1 .. Len(q) - 1 -> S]
  BY <1>2
<1>4. rest \in Seq(S)
  BY <1>3
<1>5. Len(rest) = Len(q) - 1
  BY <1>3, <1>4, LenProperties
<1>6. \A i \in 1 .. Len(Tail(q)) : Tail(q)[i] = rest[i]
  BY <1>1
<1> HIDE DEF rest
<1>7. Tail(q) = rest
  BY <1>1, <1>4, <1>5, <1>6, SeqEqual
<1> QED  BY <1>7 DEF rest

LEMMA FrontIs ==
  ASSUME NEW S, NEW q \in Seq(S), NEW m \in S
  PROVE  <<m>> \o q = [i \in 1 .. Len(q) + 1 |-> IF i = 1 THEN m ELSE q[i - 1]]
OBVIOUS

\* A send that has a slot in hand finds room.
LEMMA RoomForSlot ==
  ASSUME MqInv, NEW t \in Threads, mq_slot[t] # NoSlot
  PROVE  Len(MqFifoQueue) < Cardinality(Slots)
<1> DEFINE listed == Waiting(mq_list)
<1>1. /\ mq_slot[t] \in Slots /\ mq_slot[t] \notin listed
      /\ mq_list \in Seq(Slots) /\ Distinct(mq_list)
  BY DEF MqInv, MqTypeOK, SlotsConserved
<1>2. listed \subseteq Slots
  BY <1>1 DEF Waiting
<1>3. /\ Cardinality(listed) <= Cardinality(Slots)
      /\ Cardinality(Slots) = Cardinality(listed) => Slots = listed
  BY <1>2, MsgQueueAssumption, FS_Subset
<1>4. /\ Cardinality(listed) = Len(mq_list)
      /\ Cardinality(Slots) \in Nat
  BY <1>1, LengthIsCount, MsgQueueAssumption, FS_CardinalityType
<1>5. Len(mq_list) < Cardinality(Slots)
  BY <1>1, <1>3, <1>4
<1> QED  BY <1>5, MappingTypes DEF MqInv

\* What the mapping says of one thread.
LEMMA MappingAt ==
  ASSUME NEW t \in Threads
  PROVE  /\ MqFifoCall[t] = MqFifoPoint(mq_call[t])
         /\ MqFifoPatience[t] = IF mq_time[t] = "forever" THEN "forever" ELSE "limited"
         /\ MqFifoPatience[t] \in {"limited", "forever"}
         /\ MqFifoLetter[t] = IF mq_call[t] = "recv_copy" THEN mq_content[mq_slot[t]]
                                                          ELSE mq_buffer[t]
BY DEF MqFifoCall, MqFifoPatience, MqFifoLetter

-----------------------------------------------------------------------------
(* Calls, returns and refusals *)

LEMMA SendCallMaps ==
  ASSUME MqInv, NEW t \in Threads, NEW m \in Messages, NEW kind \in {"send", "urgent"},
         MqSendCall(t, kind, m)
  PROVE  MqFifo!FifoCallPush(t)
<1>1. /\ mq_state = "live" /\ mq_call[t] \in MqIdle
      /\ mq_call' = [mq_call EXCEPT ![t] = kind]
      /\ mq_buffer' = [mq_buffer EXCEPT ![t] = m]
      /\ UNCHANGED <<mq_state, mq_list, mq_content, mq_time, mq_slot>>
      /\ kind \notin MqIdle
  BY DEF MqSendCall, MqMayCall, MqIdle
<1>2. ~MqFifoClosed /\ MqFifoCall[t] = "idle"
  BY <1>1, MappingAt, Points DEF MqFifoClosed
<1>3. \E k \in {"push"} \cup ({"urgent"} \cap {"urgent", "reset"}) :
        MqFifoCall' = [MqFifoCall EXCEPT ![t] = k]
  <2>1. MqFifoCall' = [MqFifoCall EXCEPT ![t] = MqFifoPoint(kind)]
    BY <1>1, CallMoves DEF MqInv
  <2>2. MqFifoPoint(kind) \in {"push"} \cup ({"urgent"} \cap {"urgent", "reset"})
    BY Points
  <2> QED  BY <2>1, <2>2
<1>4. \E w \in {"limited", "forever"} : MqFifoPatience' = [MqFifoPatience EXCEPT ![t] = w]
  <2>1. MqFifoPatience' = [MqFifoPatience EXCEPT ![t] = MqFifoPatience[t]]
    BY <1>1, PatienceStays DEF MqFifoPatience
  <2> QED  BY <2>1, MappingAt
<1>5. MqFifoLetter' = [MqFifoLetter EXCEPT ![t] = m]
  BY <1>1 DEF MqInv, MqTypeOK, MqFifoLetter
<1>6. MqFifoResult' = [MqFifoResult EXCEPT ![t] = "none"]
  BY <1>1, ResultMoves DEF MqInv
<1>7. UNCHANGED <<MqFifoQueue, MqFifoClosed>>
  BY <1>1, QueueStays DEF MqFifoClosed
<1> QED  BY <1>2, <1>3, <1>4, <1>5, <1>6, <1>7 DEF MqFifo!FifoCallPush

\* A send that fails, a receive whose time is up: t is refused.
LEMMA RefusedMaps ==
  ASSUME MqInv, NEW t \in Threads,
         mq_call[t] \in {"send", "urgent", "recv", "recv_wait"},
         mq_time[t] # "forever" \/ mq_state # "live",
         NEW point \in {"send_error", "recv_error"},
         mq_call' = [mq_call EXCEPT ![t] = point],
         MqFifoClosed' = MqFifoClosed,
         UNCHANGED <<mq_list, mq_content, mq_time, mq_slot, mq_buffer>>
  PROVE  MqFifo!FifoRefuse(t)
<1>1. /\ point \notin MqIdle /\ mq_call[t] \notin MqIdle
      /\ point # "recv_copy" /\ mq_call[t] # "recv_copy"
  BY DEF MqIdle
<1>2. MqFifoCall[t] \in {"push", "urgent", "pop"}
  BY MappingAt, Points
<1>3. MqFifoPatience[t] # "forever" \/ MqFifoClosed
  BY MappingAt DEF MqFifoClosed
<1>4. MqFifoCall' = [MqFifoCall EXCEPT ![t] = "refused"]
  <2>1. MqFifoCall' = [MqFifoCall EXCEPT ![t] = MqFifoPoint(point)]
    BY CallMoves DEF MqInv
  <2>2. MqFifoPoint(point) = "refused"
    BY Points
  <2> QED  BY <2>1, <2>2
<1>5. UNCHANGED <<MqFifoQueue, MqFifoPatience, MqFifoLetter, MqFifoResult, MqFifoClosed>>
  BY <1>1, QueueStays, PatienceStays, LetterStays, ResultStays DEF MqInv, MqFifoClosed
<1> QED
  BY <1>2, <1>3, <1>4, <1>5 DEF MqFifo!FifoRefuse, MqFifo!MayGiveUp, MqFifo!Pending

LEMMA RecvCallMaps ==
  ASSUME MqInv, NEW t \in Threads, NEW time \in Timeouts, MqRecvCall(t, time)
  PROVE  MqFifo!FifoCallPop(t)
<1>1. /\ mq_state = "live" /\ mq_call[t] \in MqIdle
      /\ mq_call' = [mq_call EXCEPT ![t] = "recv"]
      /\ mq_time' = [mq_time EXCEPT ![t] = time]
      /\ UNCHANGED <<mq_state, mq_list, mq_content, mq_slot, mq_buffer>>
      /\ "recv" \notin MqIdle /\ mq_call[t] # "recv_copy"
  BY DEF MqRecvCall, MqMayCall, MqIdle
<1>2. ~MqFifoClosed /\ MqFifoCall[t] = "idle"
  BY <1>1, MappingAt, Points DEF MqFifoClosed
<1>3. MqFifoCall' = [MqFifoCall EXCEPT ![t] = "pop"]
  <2>1. MqFifoCall' = [MqFifoCall EXCEPT ![t] = MqFifoPoint("recv")]
    BY <1>1, CallMoves DEF MqInv
  <2> QED  BY <2>1, Points
<1>4. \E w \in {"limited", "forever"} : MqFifoPatience' = [MqFifoPatience EXCEPT ![t] = w]
  <2>1. MqFifoPatience' = [MqFifoPatience EXCEPT
                             ![t] = IF time = "forever" THEN "forever" ELSE "limited"]
    BY <1>1 DEF MqInv, MqTypeOK, MqFifoPatience
  <2> QED  BY <2>1
<1>5. MqFifoResult' = [MqFifoResult EXCEPT ![t] = "none"]
  BY <1>1, ResultMoves DEF MqInv
<1>6. UNCHANGED <<MqFifoQueue, MqFifoLetter, MqFifoClosed>>
  BY <1>1, QueueStays, LetterStays DEF MqInv, MqFifoClosed
<1> QED  BY <1>2, <1>3, <1>4, <1>5, <1>6 DEF MqFifo!FifoCallPop

LEMMA ReturnMaps ==
  ASSUME MqInv, NEW t \in Threads, MqReturn(t)
  PROVE  MqFifo!FifoReturn(t) \/ MqFifo!FifoFail(t)
<1>1. /\ mq_call[t] \in {"sent", "send_error", "recvd", "recv_error"}
      /\ mq_call[t] # "recv_copy"
      /\ mq_time' = [mq_time EXCEPT ![t] = "no_wait"]
      /\ UNCHANGED <<mq_state, mq_list, mq_content, mq_slot, mq_buffer>>
  BY DEF MqReturn
<1>2. MqFifoPatience' = [MqFifoPatience EXCEPT ![t] = "limited"]
  BY <1>1 DEF MqInv, MqTypeOK, MqFifoPatience
<1>3. ASSUME NEW point \in {"ok", "error"}, mq_call' = [mq_call EXCEPT ![t] = point]
      PROVE  /\ MqFifoCall' = [MqFifoCall EXCEPT ![t] = "idle"]
             /\ MqFifoResult' = [MqFifoResult EXCEPT ![t] = point]
             /\ UNCHANGED <<MqFifoQueue, MqFifoLetter, MqFifoClosed>>
  <2>1. point \in MqIdle /\ point # "recv_copy"
    BY DEF MqIdle
  <2>2. MqFifoCall' = [MqFifoCall EXCEPT ![t] = MqFifoPoint(point)]
    BY <1>3, CallMoves DEF MqInv
  <2>3. MqFifoPoint(point) = "idle"
    BY <2>1, Points
  <2>4. MqFifoResult' = [MqFifoResult EXCEPT ![t] = point]
    BY <1>3, <2>1, ResultMoves DEF MqInv
  <2>5. UNCHANGED <<MqFifoQueue, MqFifoLetter, MqFifoClosed>>
    BY <1>1, <1>3, <2>1, QueueStays, LetterStays DEF MqInv, MqFifoClosed
  <2> QED  BY <2>2, <2>3, <2>4, <2>5
<1>4. CASE mq_call[t] \in {"sent", "recvd"}
  <2>1. mq_call' = [mq_call EXCEPT ![t] = "ok"]
    BY <1>4 DEF MqReturn
  <2>2. MqFifoCall[t] \in {"pushed", "popped"}
    BY <1>4, MappingAt, Points
  <2> QED  BY <1>2, <1>3, <2>1, <2>2 DEF MqFifo!FifoReturn
<1>5. CASE mq_call[t] \in {"send_error", "recv_error"}
  <2>1. mq_call' = [mq_call EXCEPT ![t] = "error"]
    BY <1>5 DEF MqReturn
  <2>2. MqFifoCall[t] = "refused"
    BY <1>5, MappingAt, Points
  <2> QED  BY <1>2, <1>3, <2>1, <2>2 DEF MqFifo!FifoFail
<1> QED  BY <1>1, <1>4, <1>5

-----------------------------------------------------------------------------
(* Messages enter and leave *)

\* Filling the slot that t has in hand changes no other message.
LEMMA FilledSlot ==
  ASSUME MqInv, NEW t \in Threads, MqSendLink(t)
  PROVE  /\ mq_slot[t] \in Slots
         /\ mq_content'[mq_slot[t]] = mq_buffer[t]
         /\ \A i \in DOMAIN mq_list : /\ mq_list[i] \in Slots
                                      /\ mq_content'[mq_list[i]] = mq_content[mq_list[i]]
         /\ \A u \in Threads \ {t} :
              mq_call[u] = "recv_copy" =>
                /\ mq_slot[u] \in Slots
                /\ mq_content'[mq_slot[u]] = mq_content[mq_slot[u]]
<1>1. /\ mq_slot[t] \in Slots /\ mq_slot[t] # NoSlot
      /\ mq_content' = [mq_content EXCEPT ![mq_slot[t]] = mq_buffer[t]]
      /\ mq_content \in [Slots -> Messages]
  BY DEF MqInv, MqTypeOK, Hands, MqSendLink
<1>2. \A i \in DOMAIN mq_list : mq_list[i] \in Slots /\ mq_list[i] # mq_slot[t]
  BY <1>1 DEF MqInv, MqTypeOK, SlotsConserved, Waiting
<1>3. \A u \in Threads \ {t} :
        mq_call[u] = "recv_copy" => mq_slot[u] \in Slots /\ mq_slot[u] # mq_slot[t]
  BY <1>1 DEF MqInv, MqTypeOK, Hands, SlotsConserved
<1> QED  BY <1>1, <1>2, <1>3

\* What the sender, and the receiver it resumes, are for their callers.
LEMMA SendLinkCalls ==
  ASSUME MqInv, NEW t \in Threads, MqSendLink(t)
  PROVE  /\ MqFifoCall' = [MqFifoCall EXCEPT ![t] = "pushed"]
         /\ UNCHANGED <<MqFifoPatience, MqFifoLetter, MqFifoResult>>
<1>1. /\ mq_call[t] \in {"send_copy", "urgent_copy"}
      /\ mq_buffer' = mq_buffer
      /\ mq_slot' = [mq_slot EXCEPT ![t] = NoSlot]
      /\ DOMAIN mq_call = Threads
      /\ mq_slot \in [Threads -> Slots \cup {NoSlot}]
      /\ mq_time \in [Threads -> Timeouts]
  BY DEF MqInv, MqTypeOK, MqSendLink
<1>2. /\ mq_call'[t] = "sent"
      /\ \A u \in Threads \ {t} : \/ mq_call'[u] = mq_call[u]
                                  \/ mq_call[u] = "recv_wait" /\ mq_call'[u] = "recv"
      /\ mq_time' \in [Threads -> Timeouts]
      /\ \A u \in Threads : mq_time'[u] = "forever" <=> mq_time[u] = "forever"
  <2>1. CASE mq_waiting = <<>>
    <3>1. mq_call' = [mq_call EXCEPT ![t] = "sent"] /\ mq_time' = mq_time
      BY <2>1 DEF MqSendLink
    <3> QED  BY <1>1, <3>1
  <2>2. CASE mq_waiting # <<>>
    <3> DEFINE w == Head(mq_waiting)
    <3>1. /\ mq_call' = [mq_call EXCEPT ![t] = "sent", ![w] = "recv"]
          /\ \E left \in Remaining(mq_time[w]) : mq_time' = [mq_time EXCEPT ![w] = left]
      BY <2>2 DEF MqSendLink
    <3>2. w \in Threads /\ mq_call[w] = "recv_wait"
      BY <2>2, TailRemovesHead DEF MqInv, MqTypeOK, MqListExact
    <3> HIDE DEF w
    <3>3. w # t
      BY <1>1, <3>2
    <3>4. /\ mq_time' \in [Threads -> Timeouts]
          /\ \A u \in Threads : mq_time'[u] = "forever" <=> mq_time[u] = "forever"
      BY <1>1, <3>1, <3>2 DEF Remaining, Timeouts
    <3> QED  BY <1>1, <3>1, <3>2, <3>3, <3>4
  <2> QED  BY <2>1, <2>2
<1>3. MqFifoCall' = [MqFifoCall EXCEPT ![t] = "pushed"]
  <2>1. \A u \in Threads \ {t} : MqFifoPoint(mq_call'[u]) = MqFifoPoint(mq_call[u])
    BY <1>2, Points
  <2>2. MqFifoPoint(mq_call'[t]) = "pushed"
    BY <1>2, Points
  <2> QED  BY <2>1, <2>2 DEF MqFifoCall
<1>4. MqFifoPatience' = MqFifoPatience
  BY <1>2 DEF MqFifoPatience
<1>5. MqFifoResult' = MqFifoResult
  <2>1. \A u \in Threads : mq_call'[u] \in MqIdle <=> mq_call[u] \in MqIdle
    BY <1>1, <1>2 DEF MqIdle
  <2>2. \A u \in Threads : mq_call[u] \in MqIdle => mq_call'[u] = mq_call[u]
    BY <1>1, <1>2 DEF MqIdle
  <2> QED  BY <2>1, <2>2 DEF MqFifoResult
<1>6. MqFifoLetter' = MqFifoLetter
  <2>1. \A u \in Threads : mq_call'[u] = "recv_copy" <=> mq_call[u] = "recv_copy"
    BY <1>1, <1>2
  <2>2. \A u \in Threads : mq_call[u] = "recv_copy" =>
          mq_slot'[u] = mq_slot[u] /\ mq_content'[mq_slot[u]] = mq_content[mq_slot[u]]
    BY <1>1, FilledSlot
  <2> QED  BY <1>1, <2>1, <2>2 DEF MqFifoLetter
<1> QED  BY <1>3, <1>4, <1>5, <1>6

LEMMA SendLinkMaps ==
  ASSUME MqInv, NEW t \in Threads, MqSendLink(t)
  PROVE  MqFifo!FifoEnqueue(t) \/ MqFifo!FifoEnqueueFirst(t)
<1>1. /\ MqFifoCall' = [MqFifoCall EXCEPT ![t] = "pushed"]
      /\ UNCHANGED <<MqFifoPatience, MqFifoLetter, MqFifoResult>>
  BY SendLinkCalls
<1>2. Len(MqFifoQueue) < Cardinality(Slots)
  BY RoomForSlot DEF MqInv, Hands, MqSendLink
<1>3. /\ mq_call[t] \in {"send_copy", "urgent_copy"}
      /\ mq_state' = mq_state
      /\ mq_list \in Seq(Slots)
      /\ mq_list' \in Seq(Slots)
      /\ mq_slot[t] \in Slots
  BY SendLinkSlots, FilledSlot DEF MqInv, MqTypeOK, MqSendLink
<1>4. MqFifoClosed' = MqFifoClosed
  BY <1>3 DEF MqFifoClosed
<1>5. MqFifoLetter[t] = mq_buffer[t]
  BY <1>3, MappingAt
<1>6. CASE mq_call[t] = "send_copy"
  <2>1. mq_list' = Append(mq_list, mq_slot[t])
    BY <1>6 DEF MqSendLink, MqLinked
  <2>2. MqFifoQueue' = Append(MqFifoQueue, MqFifoLetter[t])
    <3>1. /\ DOMAIN mq_list' = 1 .. Len(mq_list) + 1
          /\ \A i \in 1 .. Len(mq_list) : mq_list'[i] = mq_list[i]
          /\ mq_list'[Len(mq_list) + 1] = mq_slot[t]
      BY <1>3, <2>1
    <3> QED  BY <1>3, <1>5, <3>1, FilledSlot DEF MqFifoQueue
  <2>3. MqFifoCall[t] = "push"
    BY <1>6, MappingAt, Points
  <2> QED  BY <1>1, <1>2, <1>4, <2>2, <2>3 DEF MqFifo!FifoEnqueue
<1>7. CASE mq_call[t] = "urgent_copy"
  <2>1. mq_list' = <<mq_slot[t]>> \o mq_list
    BY <1>7 DEF MqSendLink, MqLinked
  <2>2. MqFifoQueue' = <<MqFifoLetter[t]>> \o MqFifoQueue
    <3>1. /\ DOMAIN mq_list' = 1 .. Len(mq_list) + 1
          /\ \A i \in 1 .. Len(mq_list) + 1 :
               mq_list'[i] = IF i = 1 THEN mq_slot[t] ELSE mq_list[i - 1]
      BY <1>3, <2>1
    <3>2. \A i \in 1 .. Len(mq_list) + 1 :
            mq_content'[mq_list'[i]] = IF i = 1 THEN mq_buffer[t] ELSE MqFifoQueue[i - 1]
      BY <1>3, <3>1, FilledSlot DEF MqFifoQueue
    <3>3. MqFifoQueue' =
            [i \in 1 .. Len(mq_list) + 1 |->
               IF i = 1 THEN mq_buffer[t] ELSE MqFifoQueue[i - 1]]
      BY <3>1, <3>2 DEF MqFifoQueue
    <3>4. /\ MqFifoQueue \in Seq(Messages) /\ mq_buffer[t] \in Messages
          /\ Len(MqFifoQueue) = Len(mq_list)
      BY MappingTypes DEF MqInv, MqTypeOK
    <3> QED  BY <1>5, <3>3, <3>4, FrontIs
  <2>3. MqFifoCall[t] = "urgent"
    BY <1>7, MappingAt, Points
  <2> QED  BY <1>1, <1>2, <1>4, <2>2, <2>3 DEF MqFifo!FifoEnqueueFirst
<1> QED  BY <1>3, <1>6, <1>7

LEMMA RecvUnlinkMaps ==
  ASSUME MqInv, NEW t \in Threads, MqRecvUnlink(t)
  PROVE  MqFifo!FifoDequeue(t)
<1>1. /\ mq_call[t] = "recv"
      /\ mq_call' = [mq_call EXCEPT ![t] = "recv_copy"]
      /\ mq_slot' = [mq_slot EXCEPT ![t] = Head(mq_list)]
      /\ mq_list' = Tail(mq_list)
      /\ UNCHANGED <<mq_state, mq_content, mq_time, mq_buffer>>
      /\ "recv" \notin MqIdle /\ "recv_copy" \notin MqIdle
  BY DEF MqRecvUnlink, MqIdle
<1>2. /\ mq_list \in Seq(Slots) /\ Len(mq_list) \in Nat \ {0}
      /\ Head(mq_list) = mq_list[1]
  BY DEF MqInv, MqTypeOK, SlotsConserved, MqRecvUnlink
<1>3. /\ MqFifoQueue # <<>>
      /\ Head(MqFifoQueue) = mq_content[Head(mq_list)]
      /\ MqFifoQueue' = Tail(MqFifoQueue)
  <2>1. /\ MqFifoQueue \in Seq(Messages)
        /\ Len(MqFifoQueue) = Len(mq_list)
        /\ \A i \in 1 .. Len(mq_list) : MqFifoQueue[i] = mq_content[mq_list[i]]
    BY <1>2, MappingTypes DEF MqInv, MqFifoQueue
  <2>2. MqFifoQueue # <<>> /\ Head(MqFifoQueue) = MqFifoQueue[1]
    BY <1>2, <2>1
  <2>3. /\ DOMAIN mq_list' = 1 .. Len(mq_list) - 1
        /\ \A i \in 1 .. Len(mq_list) - 1 : mq_list'[i] = mq_list[i + 1]
    BY <1>1, <1>2
  <2>4. MqFifoQueue' = Tail(MqFifoQueue)
    <3>1. MqFifoQueue' = [i \in 1 .. Len(mq_list) - 1 |-> mq_content[mq_list[i + 1]]]
      BY <1>1, <2>3 DEF MqFifoQueue
    <3>2. Tail(MqFifoQueue) = [i \in 1 .. Len(mq_list) - 1 |-> MqFifoQueue[i + 1]]
      BY <2>1, <2>2, TailIs
    <3>3. \A i \in 1 .. Len(mq_list) - 1 : MqFifoQueue[i + 1] = mq_content[mq_list[i + 1]]
      BY <1>2, <2>1
    <3> QED  BY <3>1, <3>2, <3>3
  <2> QED  BY <1>2, <2>1, <2>2, <2>4
<1>4. MqFifoLetter' = [MqFifoLetter EXCEPT ![t] = mq_content[Head(mq_list)]]
  BY <1>1 DEF MqInv, MqTypeOK, MqFifoLetter
<1>5. MqFifoCall[t] = "pop"
  BY <1>1, MappingAt, Points
<1>6. MqFifoCall' = [MqFifoCall EXCEPT ![t] = "popped"]
  <2>1. MqFifoCall' = [MqFifoCall EXCEPT ![t] = MqFifoPoint("recv_copy")]
    BY <1>1, CallMoves DEF MqInv
  <2> QED  BY <2>1, Points
<1>7. UNCHANGED <<MqFifoPatience, MqFifoResult, MqFifoClosed>>
  BY <1>1, PatienceStays, ResultStays DEF MqInv, MqFifoClosed
<1> QED  BY <1>3, <1>4, <1>5, <1>6, <1>7 DEF MqFifo!FifoDequeue

-----------------------------------------------------------------------------
(* Steps the callers do not see *)

\* The slot is taken before the message is in the queue.
LEMMA SendTakeMaps ==
  ASSUME MqInv, NEW t \in Threads, MqSendTake(t)
  PROVE  UNCHANGED MqFifo!fifoVars
<1> DEFINE point == IF mq_call[t] = "send" THEN "send_copy" ELSE "urgent_copy"
<1>1. /\ mq_call[t] \in {"send", "urgent"}
      /\ mq_call' = [mq_call EXCEPT ![t] = point]
      /\ UNCHANGED <<mq_state, mq_list, mq_content, mq_time, mq_buffer>>
  BY DEF MqSendTake
<1>2. \A u \in Threads : mq_call[u] = "recv_copy" => mq_slot'[u] = mq_slot[u]
  BY <1>1 DEF MqSendTake, MqInv, MqTypeOK
<1>3. /\ DOMAIN mq_call = Threads /\ DOMAIN mq_call' = Threads
      /\ mq_call'[t] = point
      /\ \A u \in Threads \ {t} : mq_call'[u] = mq_call[u]
  BY <1>1 DEF MqInv, MqTypeOK
<1>4. MqFifoPoint(point) = MqFifoPoint(mq_call[t])
  BY <1>1, Points
<1>5. point \notin MqIdle /\ mq_call[t] \notin MqIdle
  BY <1>1 DEF MqIdle
<1>6. point # "recv_copy" /\ mq_call[t] # "recv_copy"
  BY <1>1
<1> HIDE DEF point
<1>7. MqFifoCall' = MqFifoCall
  BY <1>3, <1>4 DEF MqFifoCall
<1>8. MqFifoResult' = MqFifoResult
  BY <1>1, <1>5, ResultStays DEF MqInv
<1>9. MqFifoLetter' = MqFifoLetter
  <2>1. \A u \in Threads : mq_call'[u] = "recv_copy" <=> mq_call[u] = "recv_copy"
    BY <1>3, <1>6
  <2> QED  BY <1>1, <1>2, <2>1 DEF MqFifoLetter
<1>10. UNCHANGED <<MqFifoQueue, MqFifoPatience, MqFifoClosed>>
  BY <1>1, QueueStays, PatienceStays DEF MqFifoClosed
<1> QED  BY <1>7, <1>8, <1>9, <1>10 DEF MqFifo!fifoVars

\* A receiver that goes to sleep goes on waiting.
LEMMA RecvSuspendMaps ==
  ASSUME MqInv, NEW t \in Threads, MqRecvSuspend(t)
  PROVE  UNCHANGED MqFifo!fifoVars
<1>1. /\ mq_call[t] = "recv"
      /\ mq_call' = [mq_call EXCEPT ![t] = "recv_wait"]
      /\ UNCHANGED <<mq_state, mq_list, mq_content, mq_time, mq_slot, mq_buffer>>
      /\ "recv" \notin MqIdle /\ "recv_wait" \notin MqIdle
  BY DEF MqRecvSuspend, MqIdle
<1>2. MqFifoCall' = MqFifoCall
  <2>1. MqFifoCall' = [MqFifoCall EXCEPT ![t] = MqFifoPoint("recv_wait")]
    BY <1>1, CallMoves DEF MqInv
  <2>2. MqFifoPoint("recv_wait") = MqFifoCall[t]
    BY <1>1, MappingAt, Points
  <2> QED  BY <2>1, <2>2 DEF MqFifoCall
<1>3. UNCHANGED <<MqFifoQueue, MqFifoPatience, MqFifoLetter, MqFifoResult, MqFifoClosed>>
  BY <1>1, QueueStays, PatienceStays, LetterStays, ResultStays DEF MqInv, MqFifoClosed
<1> QED  BY <1>2, <1>3 DEF MqFifo!fifoVars

\* The message has been the receiver's since its slot was unlinked.
LEMMA RecvFreeMaps ==
  ASSUME MqInv, NEW t \in Threads, MqRecvFree(t)
  PROVE  UNCHANGED MqFifo!fifoVars
<1>1. /\ mq_call[t] = "recv_copy"
      /\ mq_call' = [mq_call EXCEPT ![t] = "recvd"]
      /\ mq_buffer' = [mq_buffer EXCEPT ![t] = mq_content[mq_slot[t]]]
      /\ mq_slot' = [mq_slot EXCEPT ![t] = NoSlot]
      /\ UNCHANGED <<mq_state, mq_list, mq_content, mq_time>>
      /\ "recv_copy" \notin MqIdle /\ "recvd" \notin MqIdle
  BY DEF MqRecvFree, MqIdle
<1>2. MqFifoCall' = MqFifoCall
  <2>1. MqFifoCall' = [MqFifoCall EXCEPT ![t] = MqFifoPoint("recvd")]
    BY <1>1, CallMoves DEF MqInv
  <2>2. MqFifoPoint("recvd") = MqFifoCall[t]
    BY <1>1, MappingAt, Points
  <2> QED  BY <2>1, <2>2 DEF MqFifoCall
<1>3. MqFifoLetter' = MqFifoLetter
  <2>1. /\ mq_call'[t] # "recv_copy"
        /\ mq_buffer'[t] = mq_content[mq_slot[t]]
        /\ \A u \in Threads \ {t} : /\ mq_call'[u] = mq_call[u]
                                    /\ mq_buffer'[u] = mq_buffer[u]
                                    /\ mq_slot'[u] = mq_slot[u]
    BY <1>1 DEF MqInv, MqTypeOK
  <2> QED  BY <1>1, <2>1 DEF MqFifoLetter
<1>4. UNCHANGED <<MqFifoQueue, MqFifoPatience, MqFifoResult, MqFifoClosed>>
  BY <1>1, QueueStays, PatienceStays, ResultStays DEF MqInv, MqFifoClosed
<1> QED  BY <1>2, <1>3, <1>4 DEF MqFifo!fifoVars

-----------------------------------------------------------------------------
(* Reset and deletion *)

\* A reset expels those that wait for a message.
LEMMA ResetMaps ==
  ASSUME MqInv, MqReset
  PROVE  MqFifo!FifoReset
<1> DEFINE expelled == {t \in Threads : mq_call[t] = "recv_wait"}
<1>1. /\ mq_call' = [t \in Threads |->
                       IF mq_call[t] = "recv_wait" THEN "recv_error" ELSE mq_call[t]]
      /\ mq_list' = <<>>
      /\ UNCHANGED <<mq_state, mq_content, mq_time, mq_slot, mq_buffer>>
  BY DEF MqReset
<1>2. expelled \in SUBSET MqFifo!Pending
  BY MappingAt, Points DEF MqFifo!Pending
<1>3. MqFifoCall' = [t \in Threads |-> IF t \in expelled THEN "refused" ELSE MqFifoCall[t]]
  BY <1>1, MappingAt, Points DEF MqFifoCall
<1>4. MqFifoQueue' = <<>>
  BY <1>1 DEF MqFifoQueue
<1>5. \A t \in Threads : /\ mq_call'[t] = "recv_copy" <=> mq_call[t] = "recv_copy"
                         /\ mq_call'[t] \in MqIdle <=> mq_call[t] \in MqIdle
                         /\ mq_call[t] \in MqIdle => mq_call'[t] = mq_call[t]
  BY <1>1 DEF MqIdle
<1>6. UNCHANGED <<MqFifoPatience, MqFifoLetter, MqFifoResult, MqFifoClosed>>
  BY <1>1, <1>5, PatienceStays DEF MqFifoLetter, MqFifoResult, MqFifoClosed
<1>7. "expel" \notin {"urgent", "reset"} /\ "reset" \in {"urgent", "reset"}
  OBVIOUS
<1> HIDE DEF expelled
<1> QED  BY <1>2, <1>3, <1>4, <1>6, <1>7 DEF MqFifo!FifoReset

\* The start of a deletion closes the queue; what follows is not seen, but
\* for the threads that are resumed.
LEMMA DeleteMaps ==
  ASSUME MqInv, MqDeleteCall \/ MqDeleteTest \/ MqDeleteHead \/ MqDeleteFree
  PROVE  MqFifo!FifoClose \/ UNCHANGED MqFifo!fifoVars
<1>1. UNCHANGED <<mq_list, mq_content, mq_call, mq_time, mq_slot, mq_buffer>>
  BY DEF MqDeleteCall, MqDeleteTest, MqDeleteHead, MqDeleteFree
<1>2. UNCHANGED <<MqFifoQueue, MqFifoCall, MqFifoPatience, MqFifoLetter, MqFifoResult>>
  BY <1>1, QueueStays, PatienceStays DEF MqFifoCall, MqFifoLetter, MqFifoResult
<1>3. CASE MqDeleteCall
  <2>1. MqFifoClosed' = TRUE
    BY <1>3 DEF MqDeleteCall, MqFifoClosed
  <2> QED  BY <1>2, <2>1 DEF MqFifo!FifoClose
<1>4. CASE MqDeleteTest \/ MqDeleteHead \/ MqDeleteFree
  <2>1. MqFifoClosed' = MqFifoClosed
    BY <1>4 DEF MqDeleteTest, MqDeleteHead, MqDeleteFree, MqFifoClosed
  <2> QED  BY <1>2, <2>1 DEF MqFifo!fifoVars
<1> QED  BY <1>3, <1>4

-----------------------------------------------------------------------------
(* Sends do not wait *)

LEMMA StepKeepsNoTime ==
  ASSUME MqInv, InNoTime, [MqNext]_mqVars
  PROVE  InNoTime'
<1> DEFINE Untimed == MqIdle \cup {"send", "send_copy", "urgent", "urgent_copy"}
<1> SUFFICES ASSUME NEW u \in Threads, mq_call'[u] \in Untimed
             PROVE  mq_time'[u] = "no_wait"
  BY DEF InNoTime
<1>1. /\ DOMAIN mq_call = Threads
      /\ mq_time \in [Threads -> Timeouts]
      /\ mq_call[u] \in Untimed => mq_time[u] = "no_wait"
  BY DEF InNoTime, MqInv, MqTypeOK
<1>2. ASSUME NEW t \in Threads, MqStep(t)
      PROVE  mq_time'[u] = "no_wait"
  <2>1. ASSUME NEW m \in Messages, NEW kind \in {"send", "urgent"}, MqSendCall(t, kind, m)
        PROVE  mq_time'[u] = "no_wait"
    BY <1>1, <2>1 DEF MqSendCall, MqMayCall
  <2>2. CASE MqSendFull(t)
    BY <1>1, <2>2 DEF MqSendFull, MqIdle
  <2>3. CASE MqSendTake(t)
    BY <1>1, <2>3 DEF MqSendTake
  <2>4. CASE MqSendLink(t)
    <3>1. CASE mq_waiting = <<>>
      BY <1>1, <2>4, <3>1 DEF MqSendLink, MqIdle
    <3>2. CASE mq_waiting # <<>>
      <4> DEFINE w == Head(mq_waiting)
      <4>1. /\ mq_call' = [mq_call EXCEPT ![t] = "sent", ![w] = "recv"]
            /\ \E left \in Remaining(mq_time[w]) : mq_time' = [mq_time EXCEPT ![w] = left]
        BY <2>4, <3>2 DEF MqSendLink
      <4> HIDE DEF w
      <4>2. u # t /\ u # w
        BY <1>1, <4>1 DEF MqIdle
      <4> QED  BY <1>1, <4>1, <4>2
    <3> QED  BY <3>1, <3>2
  <2>5. ASSUME NEW time \in Timeouts, MqRecvCall(t, time)
        PROVE  mq_time'[u] = "no_wait"
    BY <1>1, <2>5 DEF MqRecvCall, MqIdle
  <2>6. CASE MqRecvEmpty(t) \/ MqRecvSuspend(t) \/ MqRecvUnlink(t) \/ MqRecvFree(t)
    BY <1>1, <2>6 DEF MqRecvEmpty, MqRecvSuspend, MqRecvUnlink, MqRecvFree, MqIdle
  <2>7. CASE MqTimeout(t)
    BY <1>1, <2>7 DEF MqTimeout, MqIdle
  <2>8. CASE MqReturn(t)
    BY <1>1, <2>8 DEF MqReturn
  <2> QED
    BY <1>2, <2>1, <2>2, <2>3, <2>4, <2>5, <2>6, <2>7, <2>8 DEF MqStep
<1>3. CASE MqReset
  BY <1>1, <1>3 DEF MqReset, MqIdle
<1>4. CASE MqDeleteResume
  <2>1. /\ mq_time' = mq_time
        /\ mq_call' = [mq_call EXCEPT ![Head(mq_waiting)] = "recv_error"]
    BY <1>4 DEF MqDeleteResume
  <2> QED  BY <1>1, <2>1 DEF MqIdle
<1>5. CASE \/ MqDeleteCall \/ MqDeleteTest \/ MqDeleteHead \/ MqDeleteFree
           \/ UNCHANGED mqVars
  BY <1>1, <1>5 DEF MqDeleteCall, MqDeleteTest, MqDeleteHead, MqDeleteFree, mqVars
<1> QED  BY <1>2, <1>3, <1>4, <1>5 DEF MqNext

-----------------------------------------------------------------------------
(* The theorem *)

LEMMA InitMaps ==
  ASSUME MqInit
  PROVE  MqFifo!FifoInit /\ InNoTime
<1>1. /\ mq_list = <<>> /\ mq_state = "live"
      /\ mq_call = [t \in Threads |-> "none"]
      /\ mq_time = [t \in Threads |-> "no_wait"]
  BY DEF MqInit
<1>2. PICK m \in Messages : mq_buffer = [t \in Threads |-> m]
  BY DEF MqInit
<1>3. MqFifoQueue = <<>>
  BY <1>1 DEF MqFifoQueue
<1>4. MqFifoCall = [t \in Threads |-> "idle"]
  BY <1>1, Points DEF MqFifoCall, MqIdle
<1>5. /\ MqFifoPatience = [t \in Threads |-> "limited"]
      /\ MqFifoLetter \in [Threads -> Messages]
      /\ MqFifoResult = [t \in Threads |-> "none"]
      /\ MqFifoClosed = FALSE
  BY <1>1, <1>2 DEF MqFifoPatience, MqFifoLetter, MqFifoResult, MqFifoClosed, MqIdle
<1>6. InNoTime
  BY <1>1 DEF InNoTime
<1> QED  BY <1>3, <1>4, <1>5, <1>6 DEF MqFifo!FifoInit

LEMMA ThreadStepMaps ==
  ASSUME MqInv, InNoTime, NEW t \in Threads, MqStep(t)
  PROVE  [MqFifo!FifoNext]_(MqFifo!fifoVars)
<1>1. ASSUME NEW m \in Messages, NEW kind \in {"send", "urgent"}, MqSendCall(t, kind, m)
      PROVE  MqFifo!FifoNext
  BY <1>1, SendCallMaps DEF MqFifo!FifoNext
<1>2. CASE MqSendFull(t)
  <2>1. mq_time[t] # "forever"
    BY <1>2 DEF InNoTime, MqSendFull
  <2> QED  BY <1>2, <2>1, RefusedMaps DEF MqSendFull, MqFifoClosed, MqFifo!FifoNext
<1>3. CASE MqSendTake(t)
  BY <1>3, SendTakeMaps
<1>4. CASE MqSendLink(t)
  BY <1>4, SendLinkMaps DEF MqFifo!FifoNext
<1>5. ASSUME NEW time \in Timeouts, MqRecvCall(t, time)
      PROVE  MqFifo!FifoNext
  BY <1>5, RecvCallMaps DEF MqFifo!FifoNext
<1>6. CASE MqRecvEmpty(t)
  BY <1>6, RefusedMaps DEF MqRecvEmpty, MqFifoClosed, MqFifo!FifoNext
<1>7. CASE MqRecvSuspend(t)
  BY <1>7, RecvSuspendMaps
<1>8. CASE MqRecvUnlink(t)
  BY <1>8, RecvUnlinkMaps DEF MqFifo!FifoNext
<1>9. CASE MqRecvFree(t)
  BY <1>9, RecvFreeMaps
<1>10. CASE MqTimeout(t)
  BY <1>10, RefusedMaps DEF MqTimeout, MqFifoClosed, MqFifo!FifoNext
<1>11. CASE MqReturn(t)
  BY <1>11, ReturnMaps DEF MqFifo!FifoNext
<1> QED
  BY <1>1, <1>2, <1>3, <1>4, <1>5, <1>6, <1>7, <1>8, <1>9, <1>10, <1>11 DEF MqStep

LEMMA StepMaps ==
  ASSUME MqInv, InNoTime, [MqNext]_mqVars
  PROVE  [MqFifo!FifoNext]_(MqFifo!fifoVars)
<1>1. ASSUME NEW t \in Threads, MqStep(t)  PROVE [MqFifo!FifoNext]_(MqFifo!fifoVars)
  BY <1>1, ThreadStepMaps
<1>2. CASE MqReset
  BY <1>2, ResetMaps DEF MqFifo!FifoNext
<1>3. CASE MqDeleteCall \/ MqDeleteTest \/ MqDeleteHead \/ MqDeleteFree
  BY <1>3, DeleteMaps DEF MqFifo!FifoNext
<1>4. CASE MqDeleteResume
  <2> DEFINE w == Head(mq_waiting)
  <2>1. w \in Threads /\ mq_call[w] = "recv_wait"
    BY <1>4, TailRemovesHead DEF MqDeleteResume, MqInv, MqTypeOK, MqListExact
  <2>2. /\ mq_state # "live"
        /\ mq_call' = [mq_call EXCEPT ![w] = "recv_error"]
        /\ MqFifoClosed' = MqFifoClosed
        /\ UNCHANGED <<mq_list, mq_content, mq_time, mq_slot, mq_buffer>>
    BY <1>4 DEF MqDeleteResume, MqFifoClosed
  <2> HIDE DEF w
  <2>3. MqFifo!FifoRefuse(w)
    BY <2>1, <2>2, RefusedMaps
  <2> QED  BY <2>1, <2>3 DEF MqFifo!FifoNext
<1>5. CASE UNCHANGED mqVars
  BY <1>5 DEF mqVars, MqFifo!fifoVars, MqFifoQueue, MqFifoCall, MqFifoPatience,
              MqFifoLetter, MqFifoResult, MqFifoClosed
<1> QED  BY <1>1, <1>2, <1>3, <1>4, <1>5 DEF MqNext

\* rt_mq_send, rt_mq_urgent, rt_mq_recv, RT_IPC_CMD_RESET and rt_mq_delete
\* together are a bounded FIFO: though each call takes several critical
\* sections, it takes effect in one.
THEOREM QueueIsFifo == MqSpec => MqIsFifo
<1>1. MqInit => MqFifo!FifoInit /\ InNoTime
  BY InitMaps
<1>2. MqInv /\ InNoTime /\ [MqNext]_mqVars => InNoTime'
  BY StepKeepsNoTime
<1>3. MqInv /\ InNoTime /\ [MqNext]_mqVars => [MqFifo!FifoNext]_(MqFifo!fifoVars)
  BY StepMaps
<1> QED
  BY <1>1, <1>2, <1>3, MqInvariance, PTL DEF MqSpec, MqIsFifo, MqFifo!FifoSpec

=============================================================================
