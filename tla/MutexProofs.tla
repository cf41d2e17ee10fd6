---------------------------- MODULE MutexProofs -----------------------------
(***************************************************************************)
(* Proofs about Mutex, for any number of threads and mutexes, nested or     *)
(* not, and any priorities.                                                 *)
(*                                                                          *)
(* The inductive invariant MutexInv relates what the kernel keeps (owner,   *)
(* hold and the wait lists) to what the threads were told (has and call).   *)
(* A release makes a waiting thread the owner before that thread runs, so   *)
(* for Exclusion one has to know that a thread that was resumed, and only   *)
(* such a thread, is an owner that does not know it yet; and for that, that *)
(* the lists hold exactly the threads that wait and did not time out.       *)
(***************************************************************************)
EXTENDS Mutex, KernelWaitProofs

\* The list of a mutex holds exactly the threads that wait for it, once each.
Lists ==
  \A m \in Mutexes :
    /\ Distinct(suspend_thread[m])
    /\ Waiting(suspend_thread[m]) =
         {t \in Threads : call[t] = "suspended" /\ m \in taking[t]}

\* A thread takes one mutex at a time.  It owns the mutex if it was resumed,
\* without knowing it, and does not if it waits or timed out.
Calls ==
  \A t \in Threads :
    /\ call[t] = "out" => taking[t] = {}
    /\ \A m, n \in taking[t] : m = n
    /\ \A m \in taking[t] :
         /\ call[t] = "EOK" => owner[m] = t /\ hold[m] = 1 /\ has[t][m] = 0
         /\ call[t] # "EOK" => owner[m] # t

\* The owner of a mutex can be given back the priority it had.
OriginalKnown ==
  \A m \in Mutexes : owner[m] # NoThread => original_priority[m] \in Priorities

MutexInv ==
  /\ MutexTypeOK /\ Lists /\ Calls /\ Exclusion /\ FieldsAgree /\ OwnerKnows
  /\ OriginalKnown

-----------------------------------------------------------------------------
(* Lemmas *)

\* The types of the single values.
LEMMA Types ==
  ASSUME MutexTypeOK
  PROVE  /\ \A k \in Mutexes : /\ owner[k] \in Threads \cup {NoThread}
                               /\ hold[k] \in 0 .. MaxHold
                               /\ value[k] \in {0, 1}
         /\ \A u \in Threads : /\ taking[u] \subseteq Mutexes
                               /\ \A k \in Mutexes : has[u][k] \in 0 .. MaxHold
BY DEF MutexTypeOK

\* What a thread was told of one mutex changes, and nothing else.
LEMMA HasChanges ==
  ASSUME MutexTypeOK, NEW t \in Threads, NEW m \in Mutexes, NEW n \in 0 .. MaxHold,
         Has(t, m, n)
  PROVE  /\ has' \in [Threads -> [Mutexes -> 0 .. MaxHold]]
         /\ \A u \in Threads, k \in Mutexes :
              has'[u][k] = IF u = t /\ k = m THEN n ELSE has[u][k]
BY DEF MutexTypeOK, Has

\* Where rt_ipc_list_suspend puts a thread: everybody before it is as urgent,
\* and the one it is put before is less urgent.
LEMMA PlaceByPriority ==
  ASSUME NEW list \in Seq(Threads), NEW t \in Threads
  PROVE  \E k \in 1 .. Len(list) + 1 :
           /\ EnqueueByPriority(list, t) = EnqueueAt(list, k, t)
           /\ \A i \in 1 .. k - 1 : ~(current_priority[t] < current_priority[list[i]])
           /\ k \in DOMAIN list => current_priority[t] < current_priority[list[k]]
<1> DEFINE lower == {i \in DOMAIN list : current_priority[t] < current_priority[list[i]]}
           first == CHOOSE i \in lower : \A j \in lower : i <= j
           k == IF lower = {} THEN Len(list) + 1 ELSE first
<1>1. lower \in SUBSET Nat
  OBVIOUS
<1>2. \A i \in DOMAIN list : i \in lower <=> current_priority[t] < current_priority[list[i]]
  OBVIOUS
<1>3. EnqueueByPriority(list, t) = EnqueueAt(list, k, t)
  BY DEF EnqueueByPriority
<1>4. Len(list) \in Nat /\ DOMAIN list = 1 .. Len(list) /\ lower \subseteq 1 .. Len(list)
  OBVIOUS
<1> HIDE DEF lower
<1>5. lower # {} => first \in lower /\ \A j \in lower : first <= j
  <2> SUFFICES ASSUME lower # {}  PROVE first \in lower /\ \A j \in lower : first <= j
    OBVIOUS
  <2>1. \E i \in lower : \A j \in lower : i <= j
    BY <1>1, FirstPlace
  <2> QED  BY <2>1
<1> HIDE DEF first
<1>6. k \in 1 .. Len(list) + 1
  <2>1. CASE lower = {}
    BY <2>1, <1>4
  <2>2. CASE lower # {}
    <3>1. k = first /\ first \in 1 .. Len(list)
      BY <2>2, <1>5, <1>4
    <3> QED  BY <3>1, <1>4
  <2> QED  BY <2>1, <2>2
<1>7. ASSUME NEW i \in 1 .. k - 1  PROVE ~(current_priority[t] < current_priority[list[i]])
  <2>1. i \in DOMAIN list /\ i \in Int /\ i < k
    BY <1>6, <1>4
  <2>2. ASSUME i \in lower  PROVE FALSE
    <3>1. first <= i /\ first = k
      BY <1>5, <2>2
    <3> QED  BY <3>1, <2>1, <1>6
  <2>3. i \notin lower
    BY <2>2
  <2> QED  BY <2>1, <2>3, <1>2
<1>8. k \in DOMAIN list => current_priority[t] < current_priority[list[k]]
  <2> SUFFICES ASSUME k \in DOMAIN list
               PROVE  current_priority[t] < current_priority[list[k]]
    OBVIOUS
  <2>1. lower # {}
    BY <1>4
  <2>2. k \in lower
    BY <2>1, <1>5
  <2> QED  BY <2>2, <1>2
<1> HIDE DEF k
<1> QED  BY <1>3, <1>6, <1>7, <1>8

\* rt_ipc_list_suspend adds the thread to the list and nothing else.
LEMMA EnqueueByPriorityAdds ==
  ASSUME NEW list \in Seq(Threads), NEW t \in Threads,
         Distinct(list), t \notin Waiting(list)
  PROVE  /\ EnqueueByPriority(list, t) \in Seq(Threads)
         /\ Distinct(EnqueueByPriority(list, t))
         /\ Waiting(EnqueueByPriority(list, t)) = Waiting(list) \cup {t}
<1>1. PICK k \in 1 .. Len(list) + 1 : EnqueueByPriority(list, t) = EnqueueAt(list, k, t)
  BY PlaceByPriority
<1> QED  BY <1>1, EnqueueAtAdds

-----------------------------------------------------------------------------
(* Every step keeps the invariant *)

\* The owner takes the mutex once more: it knows that it owns it, since it is
\* not about to return from another rt_mutex_take.
LEMMA TakeAgainKeeps ==
  ASSUME MutexInv, NEW t \in Threads, NEW m \in Mutexes, TakeAgain(t, m)
  PROVE  MutexInv'
<1> USE MutexAssumption
<1>1. /\ MutexTypeOK /\ Lists /\ Calls /\ Exclusion /\ FieldsAgree /\ OwnerKnows
      /\ OriginalKnown
      /\ call[t] = "out" /\ owner[m] = t /\ has[t][m] < MaxHold
      /\ hold' = [hold EXCEPT ![m] = @ + 1]
      /\ Has(t, m, has[t][m] + 1)
      /\ UNCHANGED <<value, owner, original_priority, suspend_thread, current_priority,
                     call, taking, time>>
  BY DEF MutexInv, TakeAgain, MayTake
<1>2. has[t][m] \in 1 .. MaxHold /\ hold[m] = has[t][m]
  <2>1. taking[t] = {}
    BY <1>1 DEF Calls
  <2>2. has[t][m] > 0
    BY <1>1, <2>1 DEF OwnerKnows
  <2>3. hold[m] = has[t][m]
    BY <1>1, <2>2 DEF Exclusion
  <2> QED  BY <1>1, <2>2, <2>3, Types
<1>3. /\ has' \in [Threads -> [Mutexes -> 0 .. MaxHold]]
      /\ \A u \in Threads, k \in Mutexes :
           has'[u][k] = IF u = t /\ k = m THEN has[t][m] + 1 ELSE has[u][k]
  BY <1>1, <1>2, HasChanges
<1>4. MutexTypeOK'
  BY <1>1, <1>2, <1>3 DEF MutexTypeOK
<1>5. Lists'
  BY <1>1 DEF Lists
<1>6. Calls'
  <2>1. ASSUME NEW u \in Threads, NEW k \in taking[u], call[u] = "EOK"
        PROVE  hold'[k] = 1 /\ has'[u][k] = 0
    <3>1. k \in Mutexes /\ owner[k] = u /\ hold[k] = 1 /\ has[u][k] = 0
      BY <1>1, <2>1, Types DEF Calls
    <3>2. k # m
      BY <1>1, <2>1, <3>1
    <3> QED  BY <1>1, <1>3, <3>1, <3>2 DEF MutexTypeOK
  <2> QED  BY <1>1, <2>1 DEF Calls
<1>7. Exclusion'
  BY SMTT(40), <1>1, <1>2, <1>3 DEF Exclusion, MutexTypeOK
<1>8. FieldsAgree'
  BY <1>1, <1>2 DEF FieldsAgree, MutexTypeOK
<1>9. OwnerKnows'
  BY <1>1, <1>2, <1>3, Types DEF OwnerKnows
<1>10. OriginalKnown'
  BY <1>1 DEF OriginalKnown, MutexTypeOK, fields
<1> QED  BY <1>4, <1>5, <1>6, <1>7, <1>8, <1>9, <1>10 DEF MutexInv

\* A thread takes a free mutex, for which nobody waits.
LEMMA TakeFreeKeeps ==
  ASSUME MutexInv, NEW t \in Threads, NEW m \in Mutexes, TakeFree(t, m)
  PROVE  MutexInv'
<1> USE MutexAssumption
<1>1. /\ MutexTypeOK /\ Lists /\ Calls /\ Exclusion /\ FieldsAgree /\ OwnerKnows
      /\ OriginalKnown
      /\ call[t] = "out" /\ value[m] > 0 /\ owner[m] # t
      /\ value' = [value EXCEPT ![m] = @ - 1]
      /\ owner' = [owner EXCEPT ![m] = t]
      /\ original_priority' = [original_priority EXCEPT ![m] = current_priority[t]]
      /\ hold' = [hold EXCEPT ![m] = @ + 1]
      /\ Has(t, m, has[t][m] + 1)
      /\ UNCHANGED <<suspend_thread, current_priority, call, taking, time>>
  BY DEF MutexInv, TakeFree, MayTake
<1>2. /\ value[m] = 1 /\ owner[m] = NoThread /\ hold[m] = 0
      /\ \A u \in Threads : has[u][m] = 0
  BY <1>1 DEF MutexTypeOK, FieldsAgree, Exclusion
<1>3. /\ has' \in [Threads -> [Mutexes -> 0 .. MaxHold]]
      /\ \A u \in Threads, k \in Mutexes :
           has'[u][k] = IF u = t /\ k = m THEN 1 ELSE has[u][k]
  BY <1>1, <1>2, HasChanges
<1>4. MutexTypeOK'
  BY <1>1, <1>2, <1>3 DEF MutexTypeOK
<1>5. Lists'
  BY <1>1 DEF Lists
<1>6. Calls'
  BY <1>1, <1>2, <1>3 DEF Calls, MutexTypeOK
<1>7. Exclusion'
  BY <1>1, <1>2, <1>3 DEF Exclusion, MutexTypeOK
<1>8. FieldsAgree'
  BY <1>1, <1>2 DEF FieldsAgree, MutexTypeOK
<1>9. OwnerKnows'
  BY <1>1, <1>2, <1>3 DEF OwnerKnows, MutexTypeOK
<1>10. OriginalKnown'
  BY <1>1 DEF OriginalKnown, MutexTypeOK, fields
<1> QED  BY <1>4, <1>5, <1>6, <1>7, <1>8, <1>9, <1>10 DEF MutexInv

\* A thread is refused a mutex that somebody else has.
LEMMA TakeRefusedKeeps ==
  ASSUME MutexInv, NEW t \in Threads, NEW m \in Mutexes, TakeRefused(t, m)
  PROVE  MutexInv'
<1>1. /\ MutexTypeOK /\ Lists /\ Calls /\ Exclusion /\ FieldsAgree /\ OwnerKnows
      /\ OriginalKnown
      /\ call[t] = "out" /\ owner[m] # t
      /\ call' = [call EXCEPT ![t] = "ETIMEOUT"]
      /\ taking' = [taking EXCEPT ![t] = {m}]
      /\ UNCHANGED <<fields, current_priority, time, has>>
  BY DEF MutexInv, TakeRefused, MayTake
<1>2. MutexTypeOK'
  BY <1>1 DEF MutexTypeOK, fields
<1>3. Lists'
  BY <1>1 DEF Lists, MutexTypeOK, fields
<1>4. Calls'
  BY <1>1 DEF Calls, MutexTypeOK, fields
<1>5. Exclusion' /\ FieldsAgree'
  BY <1>1 DEF Exclusion, FieldsAgree, fields
<1>6. OwnerKnows'
  BY <1>1 DEF OwnerKnows, MutexTypeOK, Calls, fields
<1>7. OriginalKnown'
  BY <1>1 DEF OriginalKnown, MutexTypeOK, fields
<1> QED  BY <1>2, <1>3, <1>4, <1>5, <1>6, <1>7 DEF MutexInv

\* A thread suspends itself on the list of a mutex that somebody else has.
LEMMA TakeSuspendKeeps ==
  ASSUME MutexInv, NEW t \in Threads, NEW m \in Mutexes, NEW tm \in Timeouts,
         TakeSuspend(t, m, tm)
  PROVE  MutexInv'
<1> USE MutexAssumption
<1> DEFINE list == suspend_thread[m]
<1>1. /\ MutexTypeOK /\ Lists /\ Calls /\ Exclusion /\ FieldsAgree /\ OwnerKnows
      /\ OriginalKnown
      /\ call[t] = "out" /\ owner[m] # t /\ value[m] = 0
      /\ Inherit(t, m)
      /\ suspend_thread' = [suspend_thread EXCEPT ![m] = EnqueueByPriority(list, t)]
      /\ call' = [call EXCEPT ![t] = "suspended"]
      /\ taking' = [taking EXCEPT ![t] = {m}]
      /\ time' = [time EXCEPT ![t] = tm]
      /\ UNCHANGED <<value, owner, original_priority, hold, has>>
  BY DEF MutexInv, TakeSuspend, MayTake
<1>2. /\ list \in Seq(Threads) /\ Distinct(list)
      /\ Waiting(list) = {u \in Threads : call[u] = "suspended" /\ m \in taking[u]}
  BY <1>1 DEF MutexTypeOK, Lists
<1>3. owner[m] \in Threads
  BY <1>1 DEF MutexTypeOK, FieldsAgree
<1> DEFINE new == EnqueueByPriority(list, t)
<1>4. /\ new \in Seq(Threads) /\ Distinct(new)
      /\ Waiting(new) = Waiting(list) \cup {t}
  BY <1>1, <1>2, EnqueueByPriorityAdds
<1> HIDE DEF new, list
<1>5. suspend_thread' = [suspend_thread EXCEPT ![m] = new]
  BY <1>1 DEF new
<1>6. MutexTypeOK'
  <2>1. current_priority' \in [Threads -> Priorities]
    BY <1>1, <1>3 DEF Inherit, MutexTypeOK
  <2>2. suspend_thread' \in [Mutexes -> Seq(Threads)]
    BY <1>1, <1>4, <1>5 DEF MutexTypeOK
  <2>3. /\ call' \in [Threads -> {"out", "suspended", "EOK", "ETIMEOUT"}]
        /\ taking' \in [Threads -> SUBSET Mutexes]
        /\ time' \in [Threads -> Timeouts]
    BY <1>1 DEF MutexTypeOK
  <2> QED  BY <1>1, <2>1, <2>2, <2>3 DEF MutexTypeOK
<1>7. Lists'
  <2> SUFFICES ASSUME NEW k \in Mutexes
               PROVE  /\ Distinct(suspend_thread'[k])
                      /\ Waiting(suspend_thread'[k]) =
                           {u \in Threads : call'[u] = "suspended" /\ k \in taking'[u]}
    BY DEF Lists
  <2>1. CASE k = m
    BY <2>1, <1>1, <1>2, <1>4, <1>5 DEF MutexTypeOK
  <2>2. CASE k # m
    <3>1. suspend_thread'[k] = suspend_thread[k]
      BY <2>2, <1>1, <1>5 DEF MutexTypeOK
    <3>2. \A u \in Threads : call'[u] = "suspended" /\ k \in taking'[u]
                             <=> call[u] = "suspended" /\ k \in taking[u]
      BY <2>2, <1>1 DEF MutexTypeOK, Calls
    <3> QED  BY <3>1, <3>2, <1>1 DEF Lists
  <2> QED  BY <2>1, <2>2
<1>8. Calls'
  BY <1>1 DEF Calls, MutexTypeOK
<1>9. Exclusion'
  BY <1>1 DEF Exclusion
<1>10. FieldsAgree'
  BY <1>1, <1>3, <1>5 DEF FieldsAgree, MutexTypeOK
<1>11. OwnerKnows'
  BY <1>1 DEF OwnerKnows, MutexTypeOK, Calls
<1>12. OriginalKnown'
  BY <1>1 DEF OriginalKnown, MutexTypeOK, fields
<1> QED  BY <1>6, <1>7, <1>8, <1>9, <1>10, <1>11, <1>12 DEF MutexInv

\* A thread that waits leaves the list, so that no release can choose it.
LEMMA TakeTimeoutKeeps ==
  ASSUME MutexInv, NEW t \in Threads, NEW m \in Mutexes, TakeTimeout(t, m)
  PROVE  MutexInv'
<1> DEFINE list == suspend_thread[m]
           new == Unlink(list, t)
<1>1. /\ MutexTypeOK /\ Lists /\ Calls /\ Exclusion /\ FieldsAgree /\ OwnerKnows
      /\ OriginalKnown
      /\ call[t] = "suspended" /\ m \in taking[t]
      /\ suspend_thread' = [suspend_thread EXCEPT ![m] = new]
      /\ call' = [call EXCEPT ![t] = "ETIMEOUT"]
      /\ UNCHANGED <<value, owner, original_priority, hold, current_priority,
                     taking, time, has>>
  BY DEF MutexInv, TakeTimeout
<1>2. /\ list \in Seq(Threads) /\ Distinct(list) /\ t \in Waiting(list)
      /\ Waiting(list) = {u \in Threads : call[u] = "suspended" /\ m \in taking[u]}
  BY <1>1 DEF MutexTypeOK, Lists
<1>3. /\ new \in Seq(Threads) /\ Distinct(new) /\ list # <<>>
      /\ Waiting(new) = Waiting(list) \ {t}
  BY <1>2, UnlinkRemoves
<1> HIDE DEF new, list
<1>4. MutexTypeOK'
  BY <1>1, <1>3 DEF MutexTypeOK
<1>5. Lists'
  <2> SUFFICES ASSUME NEW k \in Mutexes
               PROVE  /\ Distinct(suspend_thread'[k])
                      /\ Waiting(suspend_thread'[k]) =
                           {u \in Threads : call'[u] = "suspended" /\ k \in taking'[u]}
    BY DEF Lists
  <2>1. CASE k = m
    BY <2>1, <1>1, <1>2, <1>3 DEF MutexTypeOK
  <2>2. CASE k # m
    <3>1. suspend_thread'[k] = suspend_thread[k]
      BY <2>2, <1>1 DEF MutexTypeOK
    <3>2. \A u \in Threads : call'[u] = "suspended" /\ k \in taking'[u]
                             <=> call[u] = "suspended" /\ k \in taking[u]
      BY <2>2, <1>1 DEF MutexTypeOK, Calls
    <3> QED  BY <3>1, <3>2, <1>1 DEF Lists
  <2> QED  BY <2>1, <2>2
<1>6. Calls'
  BY <1>1 DEF Calls, MutexTypeOK
<1>7. Exclusion'
  BY <1>1 DEF Exclusion
<1>8. FieldsAgree'
  BY <1>1, <1>3 DEF FieldsAgree, MutexTypeOK, list
<1>9. OwnerKnows'
  BY <1>1 DEF OwnerKnows, MutexTypeOK
<1>10. OriginalKnown'
  BY <1>1 DEF OriginalKnown, MutexTypeOK, fields
<1> QED  BY <1>4, <1>5, <1>6, <1>7, <1>8, <1>9, <1>10 DEF MutexInv

\* rt_mutex_take returns: a thread that was resumed learns that it is the
\* owner.
LEMMA TakeReturnKeeps ==
  ASSUME MutexInv, NEW t \in Threads, NEW m \in Mutexes, TakeReturn(t, m)
  PROVE  MutexInv'
<1> USE MutexAssumption
<1> DEFINE n == IF call[t] = "EOK" THEN has[t][m] + 1 ELSE has[t][m]
<1>1. /\ MutexTypeOK /\ Lists /\ Calls /\ Exclusion /\ FieldsAgree /\ OwnerKnows
      /\ OriginalKnown
      /\ call[t] \in {"EOK", "ETIMEOUT"} /\ m \in taking[t]
      /\ Has(t, m, n)
      /\ call' = [call EXCEPT ![t] = "out"]
      /\ taking' = [taking EXCEPT ![t] = {}]
      /\ time' = [time EXCEPT ![t] = "no_wait"]
      /\ UNCHANGED <<fields, current_priority>>
  BY DEF MutexInv, TakeReturn
<1>2. /\ call[t] = "EOK" => owner[m] = t /\ hold[m] = 1 /\ has[t][m] = 0 /\ n = 1
      /\ call[t] # "EOK" => owner[m] # t /\ n = has[t][m]
      /\ n \in 0 .. MaxHold
  BY <1>1 DEF Calls, MutexTypeOK
<1> HIDE DEF n
<1>3. /\ has' \in [Threads -> [Mutexes -> 0 .. MaxHold]]
      /\ \A u \in Threads, k \in Mutexes :
           has'[u][k] = IF u = t /\ k = m THEN n ELSE has[u][k]
  BY <1>1, <1>2, HasChanges
<1>4. MutexTypeOK'
  BY <1>1, <1>3 DEF MutexTypeOK, fields, Timeouts
<1>5. Lists'
  <2>1. \A u \in Threads, k \in Mutexes :
          call'[u] = "suspended" /\ k \in taking'[u]
            <=> call[u] = "suspended" /\ k \in taking[u]
    BY <1>1 DEF MutexTypeOK
  <2> QED  BY <2>1, <1>1 DEF Lists, fields
<1>6. Calls'
  BY SMTT(40), <1>1, <1>3 DEF Calls, MutexTypeOK, fields
<1>7. Exclusion'
  BY <1>1, <1>2, <1>3 DEF Exclusion, fields
<1>8. FieldsAgree'
  BY <1>1 DEF FieldsAgree, fields
<1>9. OwnerKnows'
  <2> SUFFICES ASSUME NEW k \in Mutexes, owner[k] # NoThread
               PROVE  \/ has'[owner[k]][k] > 0
                      \/ k \in taking'[owner[k]] /\ call'[owner[k]] = "EOK"
    BY <1>1 DEF OwnerKnows, fields
  <2>1. owner[k] \in Threads
    BY <1>1 DEF MutexTypeOK
  <2>2. CASE owner[k] # t
    BY <2>1, <2>2, <1>1, <1>3 DEF OwnerKnows, MutexTypeOK
  <2>3. CASE owner[k] = t /\ k # m
    BY <2>1, <2>3, <1>1, <1>3 DEF OwnerKnows, Calls
  <2>4. CASE owner[k] = t /\ k = m
    BY <2>4, <1>1, <1>2, <1>3
  <2> QED  BY <2>2, <2>3, <2>4
<1>10. OriginalKnown'
  BY <1>1 DEF OriginalKnown, MutexTypeOK, fields
<1> QED  BY <1>4, <1>5, <1>6, <1>7, <1>8, <1>9, <1>10 DEF MutexInv

\* The owner gives back one of several takes.
LEMMA ReleaseHeldKeeps ==
  ASSUME MutexInv, NEW t \in Threads, NEW m \in Mutexes, ReleaseHeld(t, m)
  PROVE  MutexInv'
<1> USE MutexAssumption
<1>1. /\ MutexTypeOK /\ Lists /\ Calls /\ Exclusion /\ FieldsAgree /\ OwnerKnows
      /\ OriginalKnown
      /\ call[t] = "out" /\ owner[m] = t /\ has[t][m] > 0 /\ hold[m] > 1
      /\ hold' = [hold EXCEPT ![m] = @ - 1]
      /\ Has(t, m, has[t][m] - 1)
      /\ UNCHANGED <<value, owner, original_priority, suspend_thread, current_priority,
                     call, taking, time>>
  BY DEF MutexInv, ReleaseHeld, ReleaseCall
<1>2. has[t][m] \in 2 .. MaxHold /\ hold[m] = has[t][m]
  BY <1>1 DEF MutexTypeOK, Exclusion
<1>3. /\ has' \in [Threads -> [Mutexes -> 0 .. MaxHold]]
      /\ \A u \in Threads, k \in Mutexes :
           has'[u][k] = IF u = t /\ k = m THEN has[t][m] - 1 ELSE has[u][k]
  BY <1>1, <1>2, HasChanges
<1>4. MutexTypeOK'
  BY <1>1, <1>2, <1>3 DEF MutexTypeOK
<1>5. Lists'
  BY <1>1 DEF Lists
<1>6. Calls'
  <2>1. ASSUME NEW u \in Threads, NEW k \in taking[u], call[u] = "EOK"
        PROVE  hold'[k] = 1 /\ has'[u][k] = 0
    <3>1. k \in Mutexes /\ owner[k] = u /\ hold[k] = 1 /\ has[u][k] = 0
      BY <1>1, <2>1, Types DEF Calls
    <3>2. k # m
      BY <1>1, <2>1, <3>1
    <3> QED  BY <1>1, <1>3, <3>1, <3>2 DEF MutexTypeOK
  <2> QED  BY <1>1, <2>1 DEF Calls
<1>7. Exclusion'
  BY SMTT(40), <1>1, <1>2, <1>3 DEF Exclusion, MutexTypeOK
<1>8. FieldsAgree'
  BY <1>1, <1>2 DEF FieldsAgree, MutexTypeOK
<1>9. OwnerKnows'
  BY <1>1, <1>2, <1>3, Types DEF OwnerKnows
<1>10. OriginalKnown'
  BY <1>1 DEF OriginalKnown, MutexTypeOK, fields
<1> QED  BY <1>4, <1>5, <1>6, <1>7, <1>8, <1>9, <1>10 DEF MutexInv

\* The owner gives back its last take and nobody waits.
LEMMA ReleaseFreeKeeps ==
  ASSUME MutexInv, NEW t \in Threads, NEW m \in Mutexes, ReleaseFree(t, m)
  PROVE  MutexInv'
<1> USE MutexAssumption
<1>1. /\ MutexTypeOK /\ Lists /\ Calls /\ Exclusion /\ FieldsAgree /\ OwnerKnows
      /\ OriginalKnown
      /\ call[t] = "out" /\ owner[m] = t /\ has[t][m] > 0 /\ hold[m] = 1
      /\ suspend_thread[m] = <<>>
      /\ Restore(t, m)
      /\ Has(t, m, has[t][m] - 1)
      /\ hold' = [hold EXCEPT ![m] = 0]
      /\ value' = [value EXCEPT ![m] = @ + 1]
      /\ owner' = [owner EXCEPT ![m] = NoThread]
      /\ original_priority' = [original_priority EXCEPT ![m] = NoPriority]
      /\ UNCHANGED <<suspend_thread, call, taking, time>>
  BY DEF MutexInv, ReleaseFree, ReleaseCall
<1>2. /\ has[t][m] = 1 /\ value[m] = 0
      /\ \A u \in Threads : u # t => has[u][m] = 0
  BY <1>1 DEF MutexTypeOK, Exclusion, FieldsAgree
<1>3. /\ has' \in [Threads -> [Mutexes -> 0 .. MaxHold]]
      /\ \A u \in Threads, k \in Mutexes :
           has'[u][k] = IF u = t /\ k = m THEN 0 ELSE has[u][k]
  BY <1>1, <1>2, HasChanges
<1>4. MutexTypeOK'
  <2>1. current_priority' \in [Threads -> Priorities]
    BY <1>1 DEF MutexTypeOK, Restore, OriginalKnown
  <2>2. /\ value' \in [Mutexes -> {0, 1}]
        /\ owner' \in [Mutexes -> Threads \cup {NoThread}]
        /\ original_priority' \in [Mutexes -> Priorities \cup {NoPriority}]
        /\ hold' \in [Mutexes -> 0 .. MaxHold]
    BY <1>1, <1>2 DEF MutexTypeOK
  <2> QED  BY <1>1, <1>3, <2>1, <2>2 DEF MutexTypeOK
<1>5. Lists'
  BY <1>1 DEF Lists
<1>6. Calls'
  BY SMTT(40), <1>1, <1>3 DEF Calls, MutexTypeOK
<1>7. Exclusion'
  BY <1>1, <1>2, <1>3 DEF Exclusion, MutexTypeOK
<1>8. FieldsAgree'
  BY <1>1, <1>2 DEF FieldsAgree, MutexTypeOK
<1>9. OwnerKnows'
  BY <1>1, <1>2, <1>3 DEF OwnerKnows, MutexTypeOK
<1>10. OriginalKnown'
  BY <1>1 DEF OriginalKnown, MutexTypeOK, fields
<1> QED  BY <1>4, <1>5, <1>6, <1>7, <1>8, <1>9, <1>10 DEF MutexInv

\* The owner gives back its last take and makes the first thread that waits
\* the owner.
LEMMA ReleaseToWaiterKeeps ==
  ASSUME MutexInv, NEW t \in Threads, NEW m \in Mutexes, ReleaseToWaiter(t, m)
  PROVE  MutexInv'
<1> USE MutexAssumption
<1> DEFINE list == suspend_thread[m]
           w == Head(list)
<1>1. /\ MutexTypeOK /\ Lists /\ Calls /\ Exclusion /\ FieldsAgree /\ OwnerKnows
      /\ OriginalKnown
      /\ call[t] = "out" /\ owner[m] = t /\ has[t][m] > 0 /\ hold[m] = 1
      /\ list # <<>>
      /\ Restore(t, m)
      /\ Has(t, m, has[t][m] - 1)
      /\ owner' = [owner EXCEPT ![m] = w]
      /\ original_priority' = [original_priority EXCEPT ![m] = current_priority[w]]
      /\ call' = [call EXCEPT ![w] = "EOK"]
      /\ suspend_thread' = [suspend_thread EXCEPT ![m] = Tail(list)]
      /\ UNCHANGED <<value, hold, taking, time>>
  BY DEF MutexInv, ReleaseToWaiter, ReleaseCall
<1>2. /\ has[t][m] = 1 /\ value[m] = 0
      /\ \A u \in Threads : u # t => has[u][m] = 0
  BY <1>1 DEF MutexTypeOK, Exclusion, FieldsAgree
<1>3. /\ list \in Seq(Threads) /\ Distinct(list)
      /\ Waiting(list) = {u \in Threads : call[u] = "suspended" /\ m \in taking[u]}
  BY <1>1 DEF MutexTypeOK, Lists
<1>4. /\ w \in Threads /\ w \in Waiting(list)
      /\ Tail(list) \in Seq(Threads) /\ Distinct(Tail(list))
      /\ Waiting(Tail(list)) = Waiting(list) \ {w}
  BY <1>1, <1>3, TailRemovesHead
<1> DEFINE rest == Tail(list)
<1> HIDE DEF w, rest, list
<1>5. w \in Threads /\ call[w] = "suspended" /\ m \in taking[w] /\ w # t /\ has[w][m] = 0
  BY <1>1, <1>2, <1>3, <1>4
<1>6. /\ suspend_thread' = [suspend_thread EXCEPT ![m] = rest]
      /\ rest \in Seq(Threads) /\ Distinct(rest)
      /\ Waiting(rest) = Waiting(list) \ {w}
  BY <1>1, <1>4 DEF rest
<1>7. /\ has' \in [Threads -> [Mutexes -> 0 .. MaxHold]]
      /\ \A u \in Threads, k \in Mutexes :
           has'[u][k] = IF u = t /\ k = m THEN 0 ELSE has[u][k]
  BY <1>1, <1>2, HasChanges
<1>8. MutexTypeOK'
  <2>1. current_priority' \in [Threads -> Priorities]
    BY <1>1 DEF MutexTypeOK, Restore, OriginalKnown
  <2>2. /\ owner' \in [Mutexes -> Threads \cup {NoThread}]
        /\ original_priority' \in [Mutexes -> Priorities \cup {NoPriority}]
        /\ call' \in [Threads -> {"out", "suspended", "EOK", "ETIMEOUT"}]
    BY <1>1, <1>5 DEF MutexTypeOK
  <2>3. suspend_thread' \in [Mutexes -> Seq(Threads)]
    BY <1>1, <1>6 DEF MutexTypeOK
  <2> QED  BY <1>1, <1>7, <2>1, <2>2, <2>3 DEF MutexTypeOK
<1>9. Lists'
  <2> SUFFICES ASSUME NEW k \in Mutexes
               PROVE  /\ Distinct(suspend_thread'[k])
                      /\ Waiting(suspend_thread'[k]) =
                           {u \in Threads : call'[u] = "suspended" /\ k \in taking'[u]}
    BY DEF Lists
  <2>1. CASE k = m
    <3>1. suspend_thread'[k] = rest
      BY <2>1, <1>1, <1>6 DEF MutexTypeOK
    <3>2. \A u \in Threads : call'[u] = IF u = w THEN "EOK" ELSE call[u]
      BY <1>1, <1>5 DEF MutexTypeOK
    <3>3. \A u \in Threads : u \in Waiting(rest) <=>
            call'[u] = "suspended" /\ k \in taking'[u]
      BY <2>1, <1>1, <1>3, <1>6, <3>2
    <3> QED  BY <1>3, <1>6, <3>1, <3>3
  <2>2. CASE k # m
    <3>1. suspend_thread'[k] = suspend_thread[k]
      BY <2>2, <1>1, <1>6 DEF MutexTypeOK
    <3>2. \A u \in Threads : call'[u] = "suspended" /\ k \in taking'[u]
                             <=> call[u] = "suspended" /\ k \in taking[u]
      BY SMTT(40), <2>2, <1>1, <1>5 DEF MutexTypeOK, Calls
    <3> QED  BY <3>1, <3>2, <1>1 DEF Lists
  <2> QED  BY <2>1, <2>2
<1>10. Calls'
  <2> SUFFICES ASSUME NEW u \in Threads
               PROVE  /\ call'[u] = "out" => taking'[u] = {}
                      /\ \A k, n \in taking'[u] : k = n
                      /\ \A k \in taking'[u] :
                           /\ call'[u] = "EOK" =>
                                owner'[k] = u /\ hold'[k] = 1 /\ has'[u][k] = 0
                           /\ call'[u] # "EOK" => owner'[k] # u
    BY DEF Calls
  <2>1. CASE u = w
    BY <2>1, <1>1, <1>5, <1>7 DEF Calls, MutexTypeOK
  <2>2. CASE u # w
    <3>1. call'[u] = call[u] /\ taking'[u] = taking[u]
      BY <2>2, <1>1, <1>5 DEF MutexTypeOK
    <3>2. ASSUME NEW k \in taking[u], call[u] = "EOK"
          PROVE  owner'[k] = u /\ hold'[k] = 1 /\ has'[u][k] = 0
      <4>1. k \in Mutexes /\ owner[k] = u /\ hold[k] = 1 /\ has[u][k] = 0
        BY <1>1, <3>2, Types DEF Calls
      <4>2. k # m
        BY <1>1, <3>2, <4>1 DEF Calls
      <4> QED  BY SMTT(40), <1>1, <1>7, <4>1, <4>2 DEF MutexTypeOK
    <3>3. ASSUME NEW k \in taking[u], call[u] # "EOK"
          PROVE  owner'[k] # u
      BY <2>2, <1>1, <1>5, <3>3 DEF Calls, MutexTypeOK
    <3> QED  BY <1>1, <3>1, <3>2, <3>3 DEF Calls
  <2> QED  BY <2>1, <2>2
<1>11. Exclusion'
  <2> SUFFICES ASSUME NEW u \in Threads, NEW k \in Mutexes, has'[u][k] > 0
               PROVE  owner'[k] = u /\ hold'[k] = has'[u][k]
    BY DEF Exclusion
  <2>1. k # m
    BY <1>2, <1>7
  <2>2. has'[u][k] = has[u][k] /\ owner'[k] = owner[k] /\ hold'[k] = hold[k]
    BY <1>1, <1>7, <2>1 DEF MutexTypeOK
  <2> QED  BY <1>1, <2>2 DEF Exclusion
<1>12. FieldsAgree'
  BY <1>1, <1>2, <1>5, <1>6 DEF FieldsAgree, MutexTypeOK
<1>13. OwnerKnows'
  <2> SUFFICES ASSUME NEW k \in Mutexes, owner'[k] # NoThread
               PROVE  \/ has'[owner'[k]][k] > 0
                      \/ k \in taking'[owner'[k]] /\ call'[owner'[k]] = "EOK"
    BY DEF OwnerKnows
  <2>1. CASE k = m
    BY <2>1, <1>1, <1>5 DEF MutexTypeOK
  <2>2. CASE k # m
    <3>1. owner'[k] = owner[k] /\ owner[k] \in Threads
      BY <2>2, <1>1 DEF MutexTypeOK
    <3>2. has'[owner[k]][k] = has[owner[k]][k]
      BY <2>2, <3>1, <1>7
    <3>3. call[owner[k]] = "EOK" => call'[owner[k]] = "EOK"
      BY <3>1, <1>1, <1>5 DEF MutexTypeOK
    <3> QED  BY <1>1, <3>1, <3>2, <3>3 DEF OwnerKnows
  <2> QED  BY <2>1, <2>2
<1>14. OriginalKnown'
  BY <1>1, <1>5 DEF OriginalKnown, MutexTypeOK
<1> QED  BY <1>8, <1>9, <1>10, <1>11, <1>12, <1>13, <1>14 DEF MutexInv

-----------------------------------------------------------------------------
(* Theorems *)

\* The kernel's fields and what the threads were told stay in agreement.
LEMMA Invariance == Spec => []MutexInv
<1> USE MutexAssumption
<1>1. Init => MutexInv
  <2> SUFFICES ASSUME Init  PROVE MutexInv
    OBVIOUS
  <2>1. MutexTypeOK
    BY DEF Init, MutexTypeOK, Timeouts, Priorities
  <2>2. Lists
    BY DEF Init, Lists, Distinct, Waiting
  <2>3. Calls /\ Exclusion
    BY DEF Init, Calls, Exclusion
  <2>4. FieldsAgree /\ OwnerKnows
      /\ OriginalKnown
    BY DEF Init, FieldsAgree, OwnerKnows, OriginalKnown
  <2> QED  BY <2>1, <2>2, <2>3, <2>4 DEF MutexInv
<1>2. MutexInv /\ [Next]_vars => MutexInv'
  <2> SUFFICES ASSUME MutexInv, [Next]_vars  PROVE MutexInv'
    OBVIOUS
  <2>1. CASE Next
    <3>1. PICK t \in Threads, m \in Mutexes :
            \/ TakeAgain(t, m) \/ TakeFree(t, m) \/ TakeRefused(t, m)
            \/ \E tm \in {"ticks", "forever"} : TakeSuspend(t, m, tm)
            \/ TakeTimeout(t, m) \/ TakeReturn(t, m)
            \/ ReleaseHeld(t, m) \/ ReleaseFree(t, m) \/ ReleaseToWaiter(t, m)
      BY <2>1 DEF Next, Step
    <3>2. CASE TakeAgain(t, m)
      BY <3>2, TakeAgainKeeps
    <3>3. CASE TakeFree(t, m)
      BY <3>3, TakeFreeKeeps
    <3>4. CASE TakeRefused(t, m)
      BY <3>4, TakeRefusedKeeps
    <3>5. CASE \E tm \in {"ticks", "forever"} : TakeSuspend(t, m, tm)
      BY <3>5, TakeSuspendKeeps DEF Timeouts
    <3>6. CASE TakeTimeout(t, m)
      BY <3>6, TakeTimeoutKeeps
    <3>7. CASE TakeReturn(t, m)
      BY <3>7, TakeReturnKeeps
    <3>8. CASE ReleaseHeld(t, m)
      BY <3>8, ReleaseHeldKeeps
    <3>9. CASE ReleaseFree(t, m)
      BY <3>9, ReleaseFreeKeeps
    <3>10. CASE ReleaseToWaiter(t, m)
      BY <3>10, ReleaseToWaiterKeeps
    <3> QED  BY <3>1, <3>2, <3>3, <3>4, <3>5, <3>6, <3>7, <3>8, <3>9, <3>10
  <2>2. CASE UNCHANGED vars
    BY <2>2 DEF vars, fields, MutexInv, MutexTypeOK, Lists, Calls, Exclusion, FieldsAgree,
                OwnerKnows, OriginalKnown
  <2> QED  BY <2>1, <2>2
<1> QED  BY <1>1, <1>2, PTL DEF Spec

\* The mutexes and the priorities of the threads keep their types; an owner
\* is given back a priority and never the mark RT_THREAD_PRIORITY_MAX.
THEOREM TypeCorrect == Spec => []MutexTypeOK
<1>1. MutexInv => MutexTypeOK
  BY DEF MutexInv
<1> QED  BY <1>1, Invariance, PTL

\* Mutual exclusion: of the threads rt_mutex_take reported success to, only
\* the owner has not yet called rt_mutex_release as often.
THEOREM MutualExclusion == Spec => []Exclusion
<1>1. MutexInv => Exclusion
  BY DEF MutexInv
<1> QED  BY <1>1, Invariance, PTL

\* value, owner and hold agree whether a mutex is taken, and no thread waits
\* for a free mutex: rt_mutex_release loses no thread.
THEOREM FreeWithoutWaiters == Spec => []FieldsAgree
<1>1. MutexInv => FieldsAgree
  BY DEF MutexInv
<1> QED  BY <1>1, Invariance, PTL

\* A thread that rt_mutex_release made the owner hears of it: the hand-over
\* never reaches a thread that timed out and will not release the mutex.
THEOREM HandOverReceived == Spec => []OwnerKnows
<1>1. MutexInv => OwnerKnows
  BY DEF MutexInv
<1> QED  BY <1>1, Invariance, PTL


-----------------------------------------------------------------------------
(* Priorities *)

\* A thread that waits owns no mutex, and nobody owns two: so it is if threads
\* do not take a mutex while they have another.
OneEach ==
  /\ \A m, n \in Mutexes : owner[m] = owner[n] /\ owner[m] # NoThread => m = n
  /\ \A t \in Threads, m \in Mutexes : call[t] = "suspended" => owner[m] # t

\* A mutex gives its owner the priority back that the thread was created with.
OriginalIsInitial ==
  \A m \in Mutexes : owner[m] # NoThread => original_priority[m] = init_priority[owner[m]]

\* The list is in the order of the priorities.
Ordered(list, priority) ==
  \A i, j \in DOMAIN list : i < j => priority[list[i]] <= priority[list[j]]

ListsOrdered == \A m \in Mutexes : Ordered(suspend_thread[m], current_priority)

PriorityInv ==
  /\ OneEach /\ OriginalIsInitial /\ ListsOrdered
  /\ PriorityInherited /\ PriorityRestored

\* Priorities are numbers.
LEMMA PrioritiesAre ==
  ASSUME MutexTypeOK
  PROVE  /\ \A u \in Threads : current_priority[u] \in Int /\ init_priority[u] \in Int
         /\ \A m \in Mutexes : \A i \in DOMAIN suspend_thread[m] : suspend_thread[m][i] \in Threads
<1>1. \A x \in Priorities : x \in Int
  BY MutexAssumption DEF Priorities
<1> QED  BY <1>1, MutexAssumption DEF MutexTypeOK, Priorities

\* Who waits is on no list but that, has no mutex, and knows who has it.
LEMMA WaitingIs ==
  ASSUME MutexInv, NEW m \in Mutexes, NEW t \in Waiting(suspend_thread[m])
  PROVE  /\ t \in Threads /\ call[t] = "suspended" /\ m \in taking[t]
         /\ owner[m] \in Threads
BY DEF MutexInv, Lists, FieldsAgree, MutexTypeOK, Waiting

LEMMA EnqueuedInOrder ==
  ASSUME NEW list \in Seq(Threads), NEW t \in Threads,
         \A u \in Threads : current_priority[u] \in Int,
         Ordered(list, current_priority)
  PROVE  Ordered(EnqueueByPriority(list, t), current_priority)
<1> DEFINE p(u) == current_priority[u]
<1>1. PICK k \in 1 .. Len(list) + 1 :
        /\ EnqueueByPriority(list, t) = EnqueueAt(list, k, t)
        /\ \A i \in 1 .. k - 1 : ~(p(t) < p(list[i]))
        /\ k \in DOMAIN list => p(t) < p(list[k])
  BY PlaceByPriority
<1> DEFINE new == EnqueueByPriority(list, t)
<1>2. /\ Len(list) \in Nat /\ DOMAIN list = 1 .. Len(list)
      /\ \A i \in DOMAIN list : list[i] \in Threads
      /\ DOMAIN new = 1 .. Len(list) + 1
      /\ \A i \in 1 .. Len(list) + 1 :
           new[i] = IF i < k THEN list[i] ELSE IF i = k THEN t ELSE list[i - 1]
  BY <1>1 DEF EnqueueAt
<1> HIDE DEF new
<1>3. \A i, j \in DOMAIN list : i < j => p(list[i]) <= p(list[j])
  BY DEF Ordered
<1>4. \A i \in DOMAIN list : p(list[i]) \in Int /\ p(t) \in Int
  BY <1>2
<1> HIDE DEF p
<1>5. \A i \in DOMAIN list : (i < k => p(list[i]) <= p(t)) /\ (k <= i => p(t) <= p(list[i]))
  <2>1. ASSUME NEW i \in DOMAIN list, i < k  PROVE p(list[i]) <= p(t)
    BY <2>1, <1>1, <1>2, <1>4
  <2>2. ASSUME NEW i \in DOMAIN list, k <= i  PROVE p(t) <= p(list[i])
    <3>1. k \in DOMAIN list /\ p(t) < p(list[k]) /\ p(list[k]) \in Int
      BY <2>2, <1>1, <1>2, <1>4
    <3>2. k = i \/ p(list[k]) <= p(list[i])
      BY <2>2, <3>1, <1>2, <1>3
    <3> QED  BY <3>1, <3>2, <1>4
  <2> QED  BY <2>1, <2>2
<1>6. ASSUME NEW i \in DOMAIN new, NEW j \in DOMAIN new, i < j
      PROVE  p(new[i]) <= p(new[j])
  <2>1. i \in 1 .. Len(list) + 1 /\ j \in 1 .. Len(list) + 1
    BY <1>2
  <2>2. CASE i = k
    <3>1. new[i] = t /\ j - 1 \in DOMAIN list /\ new[j] = list[j - 1] /\ k <= j - 1
      BY <2>1, <2>2, <1>2, <1>6
    <3> QED  BY <3>1, <1>5
  <2>3. CASE j = k
    <3>1. new[j] = t /\ i \in DOMAIN list /\ new[i] = list[i] /\ i < k
      BY <2>1, <2>3, <1>2, <1>6
    <3> QED  BY <3>1, <1>5
  <2>4. CASE i # k /\ j # k
    <3> DEFINE from(n) == IF n < k THEN n ELSE n - 1
    <3>1. /\ from(i) \in DOMAIN list /\ new[i] = list[from(i)]
          /\ from(j) \in DOMAIN list /\ new[j] = list[from(j)]
          /\ from(i) < from(j)
      BY <2>1, <2>4, <1>2, <1>6
    <3> QED  BY <3>1, <1>3
  <2> QED  BY <2>2, <2>3, <2>4
<1> QED  BY <1>6 DEF Ordered, new, p

LEMMA UnlinkedInOrder ==
  ASSUME NEW list \in Seq(Threads), NEW t \in Waiting(list), NEW priority, Ordered(list, priority)
  PROVE  Ordered(Unlink(list, t), priority)
<1> DEFINE k == CHOOSE i \in DOMAIN list : list[i] = t
           new == Unlink(list, t)
<1>1. k \in DOMAIN list /\ Len(list) \in Nat /\ DOMAIN list = 1 .. Len(list)
  BY DEF Waiting
<1>2. /\ DOMAIN new = 1 .. Len(list) - 1
      /\ \A i \in 1 .. Len(list) - 1 : new[i] = IF i < k THEN list[i] ELSE list[i + 1]
  BY DEF Unlink
<1> HIDE DEF k, new
<1>3. ASSUME NEW i \in DOMAIN new, NEW j \in DOMAIN new, i < j
      PROVE  priority[new[i]] <= priority[new[j]]
  <2> DEFINE from(n) == IF n < k THEN n ELSE n + 1
  <2>1. /\ from(i) \in DOMAIN list /\ new[i] = list[from(i)]
        /\ from(j) \in DOMAIN list /\ new[j] = list[from(j)]
        /\ from(i) < from(j)
    BY <1>1, <1>2, <1>3
  <2> QED  BY <2>1 DEF Ordered
<1> QED  BY <1>3 DEF Ordered, new

\* An order does not depend on the priorities of threads that are not in it.
LEMMA SameOrder ==
  ASSUME NEW list, NEW p, NEW q, Ordered(list, p),
         \A i \in DOMAIN list : q[list[i]] = p[list[i]]
  PROVE  Ordered(list, q)
BY DEF Ordered

\* A thread that may take a mutex it does not own owns none.
LEMMA TakerOwnsNone ==
  ASSUME MutexInv, ~Nested, NEW t \in Threads, NEW m \in Mutexes,
         MayTake(t, m), owner[m] # t
  PROVE  \A k \in Mutexes : owner[k] # t
<1> SUFFICES ASSUME NEW k \in Mutexes, owner[k] = t  PROVE FALSE
  OBVIOUS
<1>1. taking[t] = {}
  BY DEF MutexInv, Calls, MayTake
<1>2. has[t][k] > 0
  BY <1>1, MutexAssumption DEF MutexInv, OwnerKnows
<1>3. k # m
  OBVIOUS
<1>4. has[t][k] = 0
  BY <1>3 DEF MayTake
<1> QED  BY <1>2, <1>4

\* A thread that waits, or owns no mutex, has its own priority.
LEMMA WaitsAsCreated ==
  ASSUME PriorityInv, NEW t \in Threads,
         call[t] = "suspended" \/ \A m \in Mutexes : owner[m] # t
  PROVE  /\ \A m \in Mutexes : owner[m] # t
         /\ current_priority[t] = init_priority[t]
BY DEF PriorityInv, OneEach, PriorityRestored

\* A step that leaves owners, lists and priorities alone, and suspends nobody.
LEMMA NothingMovesKeeps ==
  ASSUME PriorityInv, UNCHANGED <<owner, original_priority, suspend_thread, current_priority>>,
         \A u \in Threads : call'[u] = "suspended" => call[u] = "suspended"
  PROVE  PriorityInv'
<1>1. OneEach'
  BY DEF PriorityInv, OneEach
<1>2. OriginalIsInitial' /\ PriorityRestored'
  BY DEF PriorityInv, OriginalIsInitial, PriorityRestored
<1>3. ListsOrdered'
  BY DEF PriorityInv, ListsOrdered
<1>4. PriorityInherited'
  BY DEF PriorityInv, PriorityInherited
<1> QED  BY <1>1, <1>2, <1>3, <1>4 DEF PriorityInv

\* The mutex notes the priority the thread was created with, since the thread
\* has nothing that others wait for.
LEMMA TakeFreeInOrder ==
  ASSUME MutexInv, PriorityInv, ~Nested, NEW t \in Threads, NEW m \in Mutexes, TakeFree(t, m)
  PROVE  PriorityInv'
<1> USE MutexAssumption
<1>1. /\ MutexTypeOK /\ FieldsAgree /\ call[t] = "out" /\ value[m] > 0
      /\ owner[m] # t /\ MayTake(t, m)
      /\ owner' = [owner EXCEPT ![m] = t]
      /\ original_priority' = [original_priority EXCEPT ![m] = current_priority[t]]
      /\ UNCHANGED <<suspend_thread, current_priority, call>>
  BY DEF MutexInv, TakeFree, MayTake
<1>2. owner[m] = NoThread /\ suspend_thread[m] = <<>>
  BY <1>1 DEF MutexTypeOK, FieldsAgree
<1>3. \A k \in Mutexes : owner[k] # t
  BY <1>1, TakerOwnsNone
<1>4. current_priority[t] = init_priority[t]
  BY <1>3, WaitsAsCreated
<1>5. \A k \in Mutexes : /\ owner'[k] = IF k = m THEN t ELSE owner[k]
                         /\ original_priority'[k] =
                              IF k = m THEN current_priority[t] ELSE original_priority[k]
  BY <1>1 DEF MutexTypeOK
<1>6. OneEach'
  BY <1>1, <1>3, <1>5 DEF PriorityInv, OneEach
<1>7. OriginalIsInitial'
  BY <1>4, <1>5 DEF PriorityInv, OriginalIsInitial
<1>8. ListsOrdered'
  BY <1>1 DEF PriorityInv, ListsOrdered
<1>9. PriorityInherited'
  BY <1>1, <1>2, <1>5 DEF PriorityInv, PriorityInherited, Waiting
<1>10. PriorityRestored'
  BY <1>1, <1>2, <1>5 DEF PriorityInv, PriorityRestored
<1> QED  BY <1>6, <1>7, <1>8, <1>9, <1>10 DEF PriorityInv

\* The owner gets at least the priority of the thread that suspends itself; no
\* thread that waits is an owner, so that the lists stay in order.
LEMMA TakeSuspendInOrder ==
  ASSUME MutexInv, PriorityInv, ~Nested, NEW t \in Threads, NEW m \in Mutexes,
         NEW tm \in Timeouts, TakeSuspend(t, m, tm)
  PROVE  PriorityInv'
<1> USE MutexAssumption
<1> DEFINE new == EnqueueByPriority(suspend_thread[m], t)
           o == owner[m]
<1>1. /\ MutexTypeOK /\ FieldsAgree /\ Lists /\ call[t] = "out" /\ value[m] = 0
      /\ o # t /\ MayTake(t, m) /\ Inherit(t, m)
      /\ suspend_thread' = [suspend_thread EXCEPT ![m] = new]
      /\ call' = [call EXCEPT ![t] = "suspended"]
      /\ UNCHANGED <<owner, original_priority>>
  BY DEF MutexInv, TakeSuspend, MayTake
<1>2. o \in Threads
  BY <1>1 DEF MutexTypeOK, FieldsAgree
<1>3. \A k \in Mutexes : owner[k] # t
  BY <1>1, TakerOwnsNone
<1>4. /\ \A u \in Threads : u # o => current_priority'[u] = current_priority[u]
      /\ current_priority'[o] <= current_priority[o]
      /\ current_priority'[o] <= current_priority[t]
      /\ \A u \in Threads : current_priority[u] \in Int /\ current_priority'[u] \in Int
  <2>1. \A u \in Threads : current_priority[u] \in Int
    BY <1>1, PrioritiesAre
  <2> QED  BY <1>1, <1>2, <2>1 DEF MutexTypeOK, Inherit
<1>5. /\ suspend_thread[m] \in Seq(Threads) /\ Distinct(suspend_thread[m])
      /\ t \notin Waiting(suspend_thread[m])
  BY <1>1 DEF MutexTypeOK, Lists
<1>6. new \in Seq(Threads) /\ Waiting(new) = Waiting(suspend_thread[m]) \cup {t}
  BY <1>5, EnqueueByPriorityAdds
<1>7. Ordered(new, current_priority)
  BY <1>4, <1>5, EnqueuedInOrder DEF PriorityInv, ListsOrdered
<1> HIDE DEF new
<1>8. \A k \in Mutexes : suspend_thread'[k] = IF k = m THEN new ELSE suspend_thread[k]
  BY <1>1 DEF MutexTypeOK
<1>9. ASSUME NEW k \in Mutexes, NEW u \in Waiting(suspend_thread[k])
      PROVE  u \in Threads /\ u # o /\ owner[k] \in Threads
  BY <1>9, WaitingIs DEF PriorityInv, OneEach
<1>10. OneEach'
  BY <1>1, <1>3 DEF PriorityInv, OneEach, MutexTypeOK
<1>11. OriginalIsInitial'
  BY <1>1 DEF PriorityInv, OriginalIsInitial
<1>12. ListsOrdered'
  <2> SUFFICES ASSUME NEW k \in Mutexes
               PROVE  Ordered(suspend_thread'[k], current_priority')
    BY DEF ListsOrdered
  <2>1. CASE k = m
    <3>1. \A i \in DOMAIN new : new[i] \in Threads /\ new[i] # o
      BY <1>1, <1>6, <1>9 DEF Waiting
    <3>2. \A i \in DOMAIN new : current_priority'[new[i]] = current_priority[new[i]]
      BY <3>1, <1>4
    <3>3. Ordered(new, current_priority')
      BY <3>2, <1>7, SameOrder
    <3> QED  BY <2>1, <3>3, <1>8
  <2>2. CASE k # m
    <3> DEFINE list == suspend_thread[k]
    <3>1. \A i \in DOMAIN list : list[i] \in Waiting(list)
      BY DEF Waiting
    <3>2. Ordered(list, current_priority)
      BY DEF PriorityInv, ListsOrdered
    <3>3. \A i \in DOMAIN list : current_priority'[list[i]] = current_priority[list[i]]
      BY <3>1, <1>4, <1>9
    <3> HIDE DEF list
    <3>4. Ordered(list, current_priority')
      BY <3>2, <3>3, SameOrder
    <3> QED  BY <2>2, <3>4, <1>8 DEF list
  <2> QED  BY <2>1, <2>2
<1>13. PriorityInherited'
  <2> SUFFICES ASSUME NEW k \in Mutexes, NEW u \in Waiting(suspend_thread'[k])
               PROVE  current_priority'[owner[k]] <= current_priority'[u]
    BY <1>1 DEF PriorityInherited
  <2>1. CASE k = m /\ u = t
    BY <2>1, <1>1, <1>4
  <2>2. CASE u \in Waiting(suspend_thread[k])
    <3>1. /\ u \in Threads /\ u # o /\ owner[k] \in Threads
          /\ current_priority[owner[k]] <= current_priority[u]
      BY <2>2, <1>9 DEF PriorityInv, PriorityInherited
    <3>2. current_priority'[owner[k]] <= current_priority[owner[k]]
      BY <3>1, <1>4
    <3> QED  BY <3>1, <3>2, <1>4
  <2> QED  BY <2>1, <2>2, <1>6, <1>8
<1>14. PriorityRestored'
  BY <1>1, <1>2, <1>4 DEF PriorityInv, PriorityRestored
<1> QED  BY <1>10, <1>11, <1>12, <1>13, <1>14 DEF PriorityInv

\* A thread that timed out leaves the list in order.
LEMMA TakeTimeoutInOrder ==
  ASSUME MutexInv, PriorityInv, NEW t \in Threads, NEW m \in Mutexes, TakeTimeout(t, m)
  PROVE  PriorityInv'
<1> DEFINE new == Unlink(suspend_thread[m], t)
<1>1. /\ MutexTypeOK /\ Lists /\ call[t] = "suspended" /\ m \in taking[t]
      /\ suspend_thread' = [suspend_thread EXCEPT ![m] = new]
      /\ call' = [call EXCEPT ![t] = "ETIMEOUT"]
      /\ UNCHANGED <<owner, original_priority, current_priority>>
  BY DEF MutexInv, TakeTimeout
<1>2. /\ suspend_thread[m] \in Seq(Threads) /\ Distinct(suspend_thread[m])
      /\ t \in Waiting(suspend_thread[m])
  BY <1>1 DEF MutexTypeOK, Lists
<1>3. Waiting(new) = Waiting(suspend_thread[m]) \ {t}
  BY <1>2, UnlinkRemoves
<1>4. Ordered(new, current_priority)
  BY <1>2, UnlinkedInOrder DEF PriorityInv, ListsOrdered
<1> HIDE DEF new
<1>5. \A k \in Mutexes : suspend_thread'[k] = IF k = m THEN new ELSE suspend_thread[k]
  BY <1>1 DEF MutexTypeOK
<1>6. OneEach'
  BY <1>1 DEF PriorityInv, OneEach, MutexTypeOK
<1>7. OriginalIsInitial' /\ PriorityRestored'
  BY <1>1 DEF PriorityInv, OriginalIsInitial, PriorityRestored
<1>8. ListsOrdered'
  BY <1>1, <1>4, <1>5 DEF PriorityInv, ListsOrdered
<1>9. PriorityInherited'
  BY <1>1, <1>3, <1>5 DEF PriorityInv, PriorityInherited
<1> QED  BY <1>6, <1>7, <1>8, <1>9 DEF PriorityInv

\* A thread that gives its only mutex up has its own priority again.
LEMMA ReleaseFreeInOrder ==
  ASSUME MutexInv, PriorityInv, NEW t \in Threads, NEW m \in Mutexes, ReleaseFree(t, m)
  PROVE  PriorityInv'
<1> USE MutexAssumption
<1>1. /\ MutexTypeOK /\ call[t] = "out" /\ owner[m] = t /\ suspend_thread[m] = <<>>
      /\ Restore(t, m)
      /\ owner' = [owner EXCEPT ![m] = NoThread]
      /\ original_priority' = [original_priority EXCEPT ![m] = NoPriority]
      /\ UNCHANGED <<suspend_thread, call>>
  BY DEF MutexInv, ReleaseFree, ReleaseCall
<1>2. \A k \in Mutexes : /\ owner'[k] = IF k = m THEN NoThread ELSE owner[k]
                         /\ k # m => original_priority'[k] = original_priority[k]
  BY <1>1 DEF MutexTypeOK
<1>3. \A u \in Threads :
        current_priority'[u] = IF u = t THEN init_priority[t] ELSE current_priority[u]
  BY <1>1 DEF Restore, MutexTypeOK, PriorityInv, OriginalIsInitial
<1>4. \A k \in Mutexes : k # m => owner[k] # t
  BY <1>1 DEF PriorityInv, OneEach
<1>5. ASSUME NEW k \in Mutexes, NEW u \in Waiting(suspend_thread[k])
      PROVE  u \in Threads /\ u # t /\ owner[k] \in Threads /\ k # m
  <2>1. u \in Threads /\ call[u] = "suspended" /\ owner[k] \in Threads
    BY <1>5, WaitingIs
  <2>2. k # m
    BY <1>1, <1>5 DEF Waiting
  <2> QED  BY <1>1, <2>1, <2>2
<1>6. OneEach'
  BY <1>1, <1>2 DEF PriorityInv, OneEach
<1>7. OriginalIsInitial'
  BY <1>2 DEF PriorityInv, OriginalIsInitial
<1>8. ListsOrdered'
  <2> SUFFICES ASSUME NEW k \in Mutexes
               PROVE  Ordered(suspend_thread[k], current_priority')
    BY <1>1 DEF ListsOrdered
  <2> DEFINE list == suspend_thread[k]
  <2>1. \A i \in DOMAIN list : list[i] \in Waiting(list)
    BY DEF Waiting
  <2>2. \A i \in DOMAIN list : current_priority'[list[i]] = current_priority[list[i]]
    BY <2>1, <1>3, <1>5
  <2>3. Ordered(list, current_priority)
    BY DEF PriorityInv, ListsOrdered
  <2> HIDE DEF list
  <2>4. Ordered(list, current_priority')
    BY <2>2, <2>3, SameOrder
  <2> QED  BY <2>4 DEF list
<1>9. PriorityInherited'
  <2> SUFFICES ASSUME NEW k \in Mutexes, NEW u \in Waiting(suspend_thread[k])
               PROVE  current_priority'[owner'[k]] <= current_priority'[u]
    BY <1>1 DEF PriorityInherited
  <2>1. u \in Threads /\ u # t /\ owner[k] \in Threads /\ owner'[k] = owner[k] /\ owner[k] # t
    BY <1>2, <1>4, <1>5
  <2> QED  BY <2>1, <1>3 DEF PriorityInv, PriorityInherited
<1>10. PriorityRestored'
  BY <1>1, <1>2, <1>3 DEF PriorityInv, PriorityRestored
<1> QED  BY <1>6, <1>7, <1>8, <1>9, <1>10 DEF PriorityInv

\* The first thread that waits is the most urgent of them, so that it needs
\* to inherit nothing when it becomes the owner.
LEMMA ReleaseToWaiterInOrder ==
  ASSUME MutexInv, PriorityInv, NEW t \in Threads, NEW m \in Mutexes, ReleaseToWaiter(t, m)
  PROVE  PriorityInv'
<1> USE MutexAssumption
<1> DEFINE list == suspend_thread[m]
           w == Head(list)
           rest == Tail(list)
<1>1. /\ MutexTypeOK /\ Lists /\ call[t] = "out" /\ owner[m] = t /\ list # <<>>
      /\ Restore(t, m)
      /\ owner' = [owner EXCEPT ![m] = w]
      /\ original_priority' = [original_priority EXCEPT ![m] = current_priority[w]]
      /\ call' = [call EXCEPT ![w] = "EOK"]
      /\ suspend_thread' = [suspend_thread EXCEPT ![m] = rest]
  BY DEF MutexInv, ReleaseToWaiter, ReleaseCall
<1>2. list \in Seq(Threads) /\ Distinct(list)
  BY <1>1 DEF MutexTypeOK, Lists
<1>3. /\ w \in Threads /\ w \in Waiting(list)
      /\ rest \in Seq(Threads) /\ Waiting(rest) = Waiting(list) \ {w}
  BY <1>1, <1>2, TailRemovesHead
<1>4. /\ Ordered(rest, current_priority)
      /\ \A u \in Waiting(rest) : current_priority[w] <= current_priority[u]
  <2>1. Ordered(list, current_priority)
    BY DEF PriorityInv, ListsOrdered
  <2>2. /\ Len(list) \in Nat \ {0} /\ DOMAIN list = 1 .. Len(list) /\ w = list[1]
        /\ DOMAIN rest = 1 .. Len(list) - 1
        /\ \A i \in 1 .. Len(list) - 1 : rest[i] = list[i + 1]
    BY <1>1, <1>2
  <2> HIDE DEF list, w, rest
  <2>3. \A i \in DOMAIN rest : i + 1 \in DOMAIN list /\ 1 \in DOMAIN list /\ 1 < i + 1
    BY <2>2
  <2>4. \A i, j \in DOMAIN rest : i < j => i + 1 < j + 1
    BY <2>2
  <2>5. Ordered(rest, current_priority)
    BY <2>1, <2>2, <2>3, <2>4 DEF Ordered
  <2>6. \A i \in DOMAIN rest : current_priority[w] <= current_priority[rest[i]]
    BY <2>1, <2>2, <2>3 DEF Ordered
  <2> QED  BY <2>5, <2>6 DEF Waiting
<1>5. call[w] = "suspended" /\ w # t
  BY <1>1, <1>3, WaitingIs
<1> HIDE DEF w, rest, list
<1>6. /\ \A k \in Mutexes : owner[k] # w
      /\ current_priority[w] = init_priority[w]
  BY <1>3, <1>5, WaitsAsCreated
<1>7. \A k \in Mutexes :
        /\ owner'[k] = IF k = m THEN w ELSE owner[k]
        /\ original_priority'[k] = IF k = m THEN current_priority[w] ELSE original_priority[k]
        /\ suspend_thread'[k] = IF k = m THEN rest ELSE suspend_thread[k]
  BY <1>1 DEF MutexTypeOK
<1>8. \A u \in Threads :
        current_priority'[u] = IF u = t THEN init_priority[t] ELSE current_priority[u]
  BY <1>1 DEF Restore, MutexTypeOK, PriorityInv, OriginalIsInitial
<1>9. \A k \in Mutexes : k # m => owner[k] # t
  BY <1>1 DEF PriorityInv, OneEach
<1>10. ASSUME NEW k \in Mutexes, NEW u \in Waiting(suspend_thread'[k])
       PROVE  u \in Threads /\ u # t /\ u \in Waiting(suspend_thread[k]) /\ owner[k] \in Threads
  <2>1. u \in Waiting(suspend_thread[k])
    BY <1>3, <1>7, <1>10 DEF list
  <2> QED  BY <2>1, <1>1, WaitingIs
<1>11. OneEach'
  <2>1. \A u \in Threads : call'[u] = "suspended" => call[u] = "suspended" /\ u # w
    BY <1>1, <1>3 DEF MutexTypeOK
  <2> QED  BY <2>1, <1>6, <1>7 DEF PriorityInv, OneEach
<1>12. OriginalIsInitial'
  BY <1>6, <1>7 DEF PriorityInv, OriginalIsInitial
<1>13. ListsOrdered'
  <2> SUFFICES ASSUME NEW k \in Mutexes
               PROVE  Ordered(suspend_thread'[k], current_priority')
    BY DEF ListsOrdered
  <2> DEFINE next == suspend_thread'[k]
  <2>1. \A i \in DOMAIN next : next[i] \in Waiting(next)
    BY DEF Waiting
  <2>2. \A i \in DOMAIN next : current_priority'[next[i]] = current_priority[next[i]]
    BY <2>1, <1>8, <1>10
  <2>3. Ordered(next, current_priority)
    BY <1>4, <1>7 DEF PriorityInv, ListsOrdered
  <2> HIDE DEF next
  <2>4. Ordered(next, current_priority')
    BY <2>2, <2>3, SameOrder
  <2> QED  BY <2>4 DEF next
<1>14. PriorityInherited'
  <2> SUFFICES ASSUME NEW k \in Mutexes, NEW u \in Waiting(suspend_thread'[k])
               PROVE  current_priority'[owner'[k]] <= current_priority'[u]
    BY DEF PriorityInherited
  <2>1. /\ u \in Threads /\ u # t /\ u \in Waiting(suspend_thread[k]) /\ owner[k] \in Threads
        /\ current_priority'[u] = current_priority[u]
    BY <1>8, <1>10
  <2>2. CASE k = m
    <3>1. u \in Waiting(rest) /\ owner'[k] = w /\ current_priority'[w] = current_priority[w]
      BY <2>2, <1>3, <1>5, <1>7, <1>8
    <3> QED  BY <2>1, <3>1, <1>4
  <2>3. CASE k # m
    <3>1. owner'[k] = owner[k] /\ current_priority'[owner[k]] = current_priority[owner[k]]
      BY <2>1, <2>3, <1>7, <1>8, <1>9
    <3> QED  BY <2>1, <3>1 DEF PriorityInv, PriorityInherited
  <2> QED  BY <2>2, <2>3
<1>15. PriorityRestored'
  <2> SUFFICES ASSUME NEW u \in Threads, \A k \in Mutexes : owner'[k] # u
               PROVE  current_priority'[u] = init_priority[u]
    BY DEF PriorityRestored
  <2>1. CASE u = t
    BY <2>1, <1>8
  <2>2. CASE u # t
    <3>1. \A k \in Mutexes : owner[k] # u
      BY <2>2, <1>1, <1>7
    <3> QED  BY <2>2, <3>1, <1>8 DEF PriorityInv, PriorityRestored
  <2> QED  BY <2>1, <2>2
<1> QED  BY <1>11, <1>12, <1>13, <1>14, <1>15 DEF PriorityInv

LEMMA PriorityInvariance == ~Nested => (Spec => []PriorityInv)
<1> SUFFICES ASSUME ~Nested  PROVE Spec => []PriorityInv
  OBVIOUS
<1>1. Init => PriorityInv
  <2> SUFFICES ASSUME Init  PROVE PriorityInv
    OBVIOUS
  <2>1. OneEach /\ OriginalIsInitial
    BY DEF Init, OneEach, OriginalIsInitial
  <2>2. ListsOrdered
    BY DEF Init, ListsOrdered, Ordered
  <2>3. PriorityInherited
    BY DEF Init, PriorityInherited, Waiting
  <2>4. PriorityRestored
    BY DEF Init, PriorityRestored
  <2> QED  BY <2>1, <2>2, <2>3, <2>4 DEF PriorityInv
<1>2. MutexInv /\ PriorityInv /\ [Next]_vars => PriorityInv'
  <2> SUFFICES ASSUME MutexInv, PriorityInv, [Next]_vars  PROVE PriorityInv'
    OBVIOUS
  <2>1. CASE Next
    <3>1. PICK t \in Threads, m \in Mutexes :
            \/ TakeAgain(t, m) \/ TakeFree(t, m) \/ TakeRefused(t, m)
            \/ \E tm \in {"ticks", "forever"} : TakeSuspend(t, m, tm)
            \/ TakeTimeout(t, m) \/ TakeReturn(t, m)
            \/ ReleaseHeld(t, m) \/ ReleaseFree(t, m) \/ ReleaseToWaiter(t, m)
      BY <2>1 DEF Next, Step
    <3>2. CASE TakeAgain(t, m) \/ ReleaseHeld(t, m)
      BY <3>2, NothingMovesKeeps DEF TakeAgain, ReleaseHeld
    <3>3. CASE TakeFree(t, m)
      BY <3>3, TakeFreeInOrder
    <3>4. CASE TakeRefused(t, m)
      BY <3>4, NothingMovesKeeps DEF TakeRefused, fields, MutexInv, MutexTypeOK
    <3>5. CASE \E tm \in {"ticks", "forever"} : TakeSuspend(t, m, tm)
      BY <3>5, TakeSuspendInOrder DEF Timeouts
    <3>6. CASE TakeTimeout(t, m)
      BY <3>6, TakeTimeoutInOrder
    <3>7. CASE TakeReturn(t, m)
      BY <3>7, NothingMovesKeeps DEF TakeReturn, fields, MutexInv, MutexTypeOK
    <3>8. CASE ReleaseFree(t, m)
      BY <3>8, ReleaseFreeInOrder
    <3>9. CASE ReleaseToWaiter(t, m)
      BY <3>9, ReleaseToWaiterInOrder
    <3> QED  BY <3>1, <3>2, <3>3, <3>4, <3>5, <3>6, <3>7, <3>8, <3>9
  <2>2. CASE UNCHANGED vars
    BY <2>2, NothingMovesKeeps DEF vars, fields
  <2> QED  BY <2>1, <2>2
<1> QED  BY <1>1, <1>2, Invariance, PTL DEF Spec

\* Priority inheritance, for threads that take one mutex at a time: nobody
\* waits for an owner of a lower priority.  What rt_mutex_take lends is not
\* lost when other threads time out or the mutex is handed over.
THEOREM Inherited == ~Nested => (Spec => []PriorityInherited)
<1>1. PriorityInv => PriorityInherited
  BY DEF PriorityInv
<1> QED  BY <1>1, PriorityInvariance, PTL

\* A thread that has given its mutex up has the priority it was created with,
\* whatever it inherited in between: rt_mutex_release restores what the mutex
\* noted, and the mutex noted nothing inherited.
THEOREM Restored == ~Nested => (Spec => []PriorityRestored)
<1>1. PriorityInv => PriorityRestored
  BY DEF PriorityInv
<1> QED  BY <1>1, PriorityInvariance, PTL

=============================================================================
