-------------------------- MODULE KernelWaitProofs --------------------------
(***************************************************************************)
(* What the wait list operations of KernelWait do, for lists of any length, *)
(* and two facts about numbers that stand in for induction.                 *)
(***************************************************************************)
EXTENDS KernelWait, FiniteSetTheorems, WellFoundedInduction, TLAPS

\* An element that is put last on a list is added and nothing else.
LEMMA AppendToAdds ==
  ASSUME NEW S, NEW list \in Seq(S), NEW t \in S,
         Distinct(list), t \notin Waiting(list)
  PROVE  /\ EnqueueLast(list, t) \in Seq(S)
         /\ Distinct(EnqueueLast(list, t))
         /\ Waiting(EnqueueLast(list, t)) = Waiting(list) \cup {t}
<1>1. /\ EnqueueLast(list, t) \in Seq(S)
      /\ Len(EnqueueLast(list, t)) = Len(list) + 1
      /\ DOMAIN EnqueueLast(list, t) = 1 .. Len(list) + 1
      /\ \A i \in 1 .. Len(list) : EnqueueLast(list, t)[i] = list[i]
      /\ EnqueueLast(list, t)[Len(list) + 1] = t
  BY DEF EnqueueLast
<1>2. Distinct(EnqueueLast(list, t))
  BY <1>1 DEF Distinct, Waiting
<1>3. Waiting(EnqueueLast(list, t)) = Waiting(list) \cup {t}
  BY <1>1 DEF Waiting
<1> QED  BY <1>1, <1>2, <1>3

\* rt_list_insert_before at the list head adds the thread and nothing else.
LEMMA EnqueueLastAdds ==
  ASSUME NEW list \in Seq(Threads), NEW t \in Threads,
         Distinct(list), t \notin Waiting(list)
  PROVE  /\ EnqueueLast(list, t) \in Seq(Threads)
         /\ Distinct(EnqueueLast(list, t))
         /\ Waiting(EnqueueLast(list, t)) = Waiting(list) \cup {t}
BY AppendToAdds

\* rt_list_insert_before some thread of the list, or at its end, adds the
\* thread and nothing else.
LEMMA EnqueueAtAdds ==
  ASSUME NEW list \in Seq(Threads), NEW t \in Threads, NEW k \in 1 .. Len(list) + 1,
         Distinct(list), t \notin Waiting(list)
  PROVE  /\ EnqueueAt(list, k, t) \in Seq(Threads)
         /\ Distinct(EnqueueAt(list, k, t))
         /\ Waiting(EnqueueAt(list, k, t)) = Waiting(list) \cup {t}
<1> DEFINE new == EnqueueAt(list, k, t)
<1>1. /\ new \in Seq(Threads)
      /\ Len(new) = Len(list) + 1
      /\ DOMAIN new = 1 .. Len(list) + 1
      /\ \A i \in 1 .. Len(list) + 1 :
           new[i] = IF i < k THEN list[i] ELSE IF i = k THEN t ELSE list[i - 1]
  BY DEF EnqueueAt
<1> HIDE DEF new
<1>2. Distinct(new)
  <2> SUFFICES ASSUME NEW i \in 1 .. Len(list) + 1, NEW j \in 1 .. Len(list) + 1,
                      new[i] = new[j]
               PROVE  i = j
    BY <1>1 DEF Distinct
  <2> DEFINE from(n) == IF n < k THEN n ELSE n - 1
  <2>0. \A n \in 1 .. Len(list) + 1 :
          n # k => from(n) \in 1 .. Len(list) /\ new[n] = list[from(n)]
    BY <1>1
  <2>1. CASE i = k \/ j = k
    <3>1. new[k] = t
      BY <1>1
    <3>2. \A n \in 1 .. Len(list) + 1 : n # k => new[n] # t
      BY <2>0 DEF Waiting
    <3> QED  BY <2>1, <3>1, <3>2
  <2>2. CASE i # k /\ j # k
    <3>1. /\ from(i) \in 1 .. Len(list) /\ new[i] = list[from(i)]
          /\ from(j) \in 1 .. Len(list) /\ new[j] = list[from(j)]
      BY <2>2, <2>0
    <3>2. \A a, b \in 1 .. Len(list) : list[a] = list[b] => a = b
      BY DEF Distinct
    <3>3. from(i) = from(j)
      BY <3>1, <3>2
    <3> QED  BY <3>3, <2>2
  <2> QED  BY <2>1, <2>2
<1>3. Waiting(new) = Waiting(list) \cup {t}
  <2>1. Waiting(new) \subseteq Waiting(list) \cup {t}
    BY <1>1 DEF Waiting
  <2>2. t \in Waiting(new)
    BY <1>1 DEF Waiting
  <2>3. ASSUME NEW i \in DOMAIN list  PROVE list[i] \in Waiting(new)
    <3>1. CASE i < k
      <4>1. i \in 1 .. Len(list) + 1 /\ new[i] = list[i]
        BY <3>1, <1>1
      <4> QED  BY <4>1, <1>1 DEF Waiting
    <3>2. CASE ~(i < k)
      <4>1. i + 1 \in 1 .. Len(list) + 1 /\ new[i + 1] = list[i]
        BY <3>2, <1>1
      <4> QED  BY <4>1, <1>1 DEF Waiting
    <3> QED  BY <3>1, <3>2
  <2> QED  BY <2>1, <2>2, <2>3 DEF Waiting
<1> QED  BY <1>1, <1>2, <1>3 DEF new

\* rt_list_insert_after the list head adds the thread and nothing else.
LEMMA EnqueueFirstAdds ==
  ASSUME NEW list \in Seq(Threads), NEW t \in Threads,
         Distinct(list), t \notin Waiting(list)
  PROVE  /\ EnqueueFirst(list, t) \in Seq(Threads)
         /\ Len(EnqueueFirst(list, t)) = Len(list) + 1
         /\ Distinct(EnqueueFirst(list, t))
         /\ Waiting(EnqueueFirst(list, t)) = Waiting(list) \cup {t}
<1> DEFINE new == EnqueueFirst(list, t)
<1>1. /\ new \in Seq(Threads)
      /\ Len(new) = Len(list) + 1
      /\ DOMAIN new = 1 .. Len(list) + 1
      /\ \A i \in 1 .. Len(list) + 1 : new[i] = IF i = 1 THEN t ELSE list[i - 1]
  BY DEF EnqueueFirst
<1>2. Distinct(new)
  <2> HIDE DEF new
  <2> SUFFICES ASSUME NEW i \in 1 .. Len(list) + 1, NEW j \in 1 .. Len(list) + 1,
                      new[i] = new[j]
               PROVE  i = j
    BY <1>1 DEF Distinct
  <2>1. CASE i = 1 /\ j # 1
    BY <2>1, <1>1 DEF Waiting
  <2>2. CASE i # 1 /\ j = 1
    BY <2>2, <1>1 DEF Waiting
  <2>3. CASE i # 1 /\ j # 1
    BY <2>3, <1>1 DEF Distinct
  <2> QED  BY <2>1, <2>2, <2>3
<1>3. Waiting(new) = Waiting(list) \cup {t}
  <2>1. Waiting(new) \subseteq Waiting(list) \cup {t}
    BY <1>1 DEF Waiting
  <2>2. t \in Waiting(new)
    BY <1>1 DEF Waiting
  <2>3. ASSUME NEW i \in DOMAIN list  PROVE list[i] \in Waiting(new)
    <3>1. i + 1 \in 1 .. Len(list) + 1 /\ new[i + 1] = list[i]
      BY <1>1
    <3> QED  BY <3>1, <1>1 DEF Waiting
  <2> QED  BY <2>1, <2>2, <2>3 DEF Waiting
<1> QED  BY <1>1, <1>2, <1>3

\* Without its first element a list has no other elements, nor fewer.
LEMMA TailOfRemoves ==
  ASSUME NEW S, NEW list \in Seq(S), list # <<>>, Distinct(list)
  PROVE  /\ Head(list) \in S
         /\ Head(list) \in Waiting(list)
         /\ Tail(list) \in Seq(S)
         /\ Len(Tail(list)) = Len(list) - 1
         /\ Len(list) \in Nat \ {0}
         /\ Distinct(Tail(list))
         /\ Waiting(Tail(list)) = Waiting(list) \ {Head(list)}
<1>1. /\ Len(list) \in Nat \ {0}
      /\ Head(list) = list[1]
      /\ Tail(list) \in Seq(S)
      /\ Len(Tail(list)) = Len(list) - 1
      /\ DOMAIN Tail(list) = 1 .. Len(list) - 1
      /\ \A i \in 1 .. Len(list) - 1 : Tail(list)[i] = list[i + 1]
  OBVIOUS
<1>2. Head(list) \in S /\ Head(list) \in Waiting(list)
  BY <1>1 DEF Waiting
<1>3. Distinct(Tail(list))
  BY <1>1 DEF Distinct
<1>4. Waiting(Tail(list)) = Waiting(list) \ {Head(list)}
  <2>1. Waiting(Tail(list)) \subseteq Waiting(list) \ {Head(list)}
    BY <1>1 DEF Waiting, Distinct
  <2>2. ASSUME NEW i \in DOMAIN list, list[i] # Head(list)
        PROVE  list[i] \in Waiting(Tail(list))
    <3>1. i - 1 \in 1 .. Len(list) - 1 /\ Tail(list)[i - 1] = list[i]
      BY <1>1, <2>2
    <3> QED  BY <3>1, <1>1 DEF Waiting
  <2> QED  BY <2>1, <2>2 DEF Waiting
<1> QED  BY <1>1, <1>2, <1>3, <1>4

\* Resuming the first thread of a list takes off that thread and no other.
LEMMA TailRemovesHead ==
  ASSUME NEW list \in Seq(Threads), list # <<>>, Distinct(list)
  PROVE  /\ Head(list) \in Threads
         /\ Head(list) \in Waiting(list)
         /\ Tail(list) \in Seq(Threads)
         /\ Len(Tail(list)) = Len(list) - 1
         /\ Len(list) \in Nat \ {0}
         /\ Distinct(Tail(list))
         /\ Waiting(Tail(list)) = Waiting(list) \ {Head(list)}
BY TailOfRemoves

\* rt_list_remove takes off an element and no other.
LEMMA UnlinkFromRemoves ==
  ASSUME NEW S, NEW list \in Seq(S), NEW t \in S,
         Distinct(list), t \in Waiting(list)
  PROVE  /\ Unlink(list, t) \in Seq(S)
         /\ Len(Unlink(list, t)) = Len(list) - 1
         /\ Len(list) \in Nat \ {0}
         /\ Distinct(Unlink(list, t))
         /\ Waiting(Unlink(list, t)) = Waiting(list) \ {t}
<1> DEFINE k == CHOOSE i \in DOMAIN list : list[i] = t
           new == Unlink(list, t)
<1>1. k \in DOMAIN list /\ list[k] = t
  BY DEF Waiting
<1>2. /\ Len(list) \in Nat \ {0}
      /\ k \in 1 .. Len(list)
  BY <1>1
<1> HIDE DEF k
<1>3. new = [i \in 1 .. Len(list) - 1 |-> IF i < k THEN list[i] ELSE list[i + 1]]
  BY DEF Unlink, k
<1>4. /\ new \in Seq(S)
      /\ Len(new) = Len(list) - 1
      /\ DOMAIN new = 1 .. Len(list) - 1
      /\ \A i \in 1 .. Len(list) - 1 : new[i] = IF i < k THEN list[i] ELSE list[i + 1]
  BY <1>2, <1>3
<1> HIDE DEF new
<1>5. Distinct(new)
  <2> SUFFICES ASSUME NEW i \in 1 .. Len(list) - 1, NEW j \in 1 .. Len(list) - 1,
                      new[i] = new[j]
               PROVE  i = j
    BY <1>4 DEF Distinct
  <2> DEFINE from(n) == IF n < k THEN n ELSE n + 1
  <2>1. \A n \in 1 .. Len(list) - 1 : from(n) \in 1 .. Len(list) /\ new[n] = list[from(n)]
    BY <1>2, <1>4
  <2>2. \A a, b \in 1 .. Len(list) : list[a] = list[b] => a = b
    BY DEF Distinct
  <2>3. from(i) = from(j)
    BY <2>1, <2>2
  <2> QED  BY <2>3, <1>2
<1>6. Waiting(new) = Waiting(list) \ {t}
  <2>1. Waiting(new) \subseteq Waiting(list) \ {t}
    BY <1>1, <1>2, <1>4 DEF Waiting, Distinct
  <2>2. ASSUME NEW i \in DOMAIN list, list[i] # t
        PROVE  list[i] \in Waiting(new)
    <3>1. i # k
      BY <1>1, <2>2
    <3>2. CASE i < k
      BY <3>2, <1>2, <1>4 DEF Waiting
    <3>3. CASE i > k
      <4>1. i - 1 \in 1 .. Len(list) - 1 /\ new[i - 1] = list[i]
        BY <3>3, <1>2, <1>4
      <4> QED  BY <4>1, <1>4 DEF Waiting
    <3> QED  BY <3>1, <3>2, <3>3, <1>2
  <2> QED  BY <2>1, <2>2 DEF Waiting
<1> QED  BY <1>2, <1>4, <1>5, <1>6 DEF new

\* rt_list_remove takes off the thread that timed out and no other.
LEMMA UnlinkRemoves ==
  ASSUME NEW list \in Seq(Threads), NEW t \in Threads,
         Distinct(list), t \in Waiting(list)
  PROVE  /\ Unlink(list, t) \in Seq(Threads)
         /\ Len(Unlink(list, t)) = Len(list) - 1
         /\ Len(list) \in Nat \ {0}
         /\ Distinct(Unlink(list, t))
         /\ Waiting(Unlink(list, t)) = Waiting(list) \ {t}
BY UnlinkFromRemoves

\* A list without repetitions is as long as it has elements.
LEMMA LengthIsCount ==
  ASSUME NEW S, NEW list \in Seq(S), Distinct(list)
  PROVE  Cardinality(Waiting(list)) = Len(list)
<1> DEFINE f == [i \in 1 .. Len(list) |-> list[i]]
<1>1. Len(list) \in Nat /\ DOMAIN list = 1 .. Len(list)
  OBVIOUS
<1>2. f \in Bijection(1 .. Len(list), Waiting(list))
  <2>1. f \in [1 .. Len(list) -> Waiting(list)]
    BY <1>1 DEF Waiting
  <2>2. \A i, j \in 1 .. Len(list) : f[i] = f[j] => i = j
    BY <1>1 DEF Distinct
  <2>3. \A s \in Waiting(list) : \E i \in 1 .. Len(list) : f[i] = s
    BY <1>1 DEF Waiting
  <2> HIDE DEF f
  <2> QED  BY <2>1, <2>2, <2>3 DEF Bijection, Injection, Surjection, IsInjective
<1>3. ExistsBijection(1 .. Len(list), Waiting(list))
  BY <1>2 DEF ExistsBijection
<1>4. IsFiniteSet(1 .. Len(list)) /\ Cardinality(1 .. Len(list)) = Len(list)
  BY SMTT(40), <1>1, FS_Interval
<1> QED  BY <1>3, <1>4, FS_Bijection

\* A set of places that is not empty has a first one.
LEMMA FirstPlace ==
  ASSUME NEW S \in SUBSET Nat, S # {}
  PROVE  \E i \in S : \A j \in S : i <= j
<1> DEFINE less == {p \in Nat \X Nat : p[1] < p[2]}
<1>1. IsWellFoundedOn(less, Nat)
  BY NatLessThanWellFounded DEF OpToRel
<1>2. \A i, j \in Nat : <<j, i>> \in less <=> j < i
  OBVIOUS
<1> HIDE DEF less
<1>3. PICK i \in S : \A j \in S : ~(<<j, i>> \in less)
  BY <1>1, WFMin
<1>4. ASSUME NEW j \in S  PROVE i <= j
  <2>1. i \in Nat /\ j \in Nat
    OBVIOUS
  <2>2. ~(j < i)
    BY <1>2, <1>3, <2>1
  <2> QED  BY <2>1, <2>2
<1> QED  BY <1>4

\* What holds of 0, and of a number when it holds of the one before, holds of
\* all numbers up to n.
LEMMA CountingUp ==
  ASSUME NEW n \in Nat, NEW S,
         0 \in S, \A i \in 0 .. n - 1 : i \in S => i + 1 \in S
  PROVE  \A i \in 0 .. n : i \in S
<1> DEFINE out == {i \in 0 .. n : i \notin S}
<1> SUFFICES ASSUME out # {}  PROVE FALSE
  OBVIOUS
<1>1. out \in SUBSET Nat
  OBVIOUS
<1>2. PICK i \in out : \A j \in out : i <= j
  BY <1>1, FirstPlace
<1>3. i # 0 /\ i - 1 \in 0 .. n - 1
  BY <1>2
<1>4. i - 1 \notin out
  BY <1>1, <1>2
<1>5. i - 1 \in S
  BY <1>3, <1>4
<1>6. (i - 1) + 1 \in S /\ (i - 1) + 1 = i
  BY <1>3, <1>5
<1> QED  BY <1>2, <1>6

=============================================================================
