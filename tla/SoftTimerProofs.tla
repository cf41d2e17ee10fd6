--------------------------- MODULE SoftTimerProofs --------------------------
(***************************************************************************)
(* Proofs about SoftTimer, for any number of owners, of whatever priority,  *)
(* any delays and any width of the tick counter.                            *)
(*                                                                          *)
(* That the list is in order needs a bound on how far apart two timers are: *)
(* the ticks wrap, and "later" is decided by the half turn.  AllInTime says *)
(* that every timer is at most MaxLate ticks behind the clock or so far     *)
(* ahead of it that MaxLate ticks fit into the half turn; there the order   *)
(* of the ticks is that of the integers Ahead, which is transitive.         *)
(*                                                                          *)
(* That nothing freed is used needs to know of every kernel timer who still *)
(* points to it: its owner (HandlesHeld), a call of its owner (CallsHeld),  *)
(* the timer thread and the function it runs (ThreadWorksOn), and what the  *)
(* flags of the timer then say (FlagsHeld, ActiveHeld).                     *)
(***************************************************************************)
EXTENDS SoftTimer, SequenceTheorems, WellFoundedInduction, TLAPS

Half == TickMax \div 2

\* Tick b is at most MaxLate ticks past, or ahead with room to spare.
InTime(b) == Diff(rt_tick, b) <= MaxLate \/ Diff(b, rt_tick) + MaxLate < Half

\* The timers in the list and those about to be put there are due in time.
AllInTime ==
  /\ \A o \in Linked : InTime(timeout_tick[o])
  /\ \A u \in Owners : op[u] = "start_insert" => InTime(timeout_tick[op_timer[u]])
  /\ cb_op = "start_insert" => InTime(timeout_tick[cb_timer])

\* Where the timer thread is, the timer it works on and what its function does.
ThreadWorksOn ==
  /\ t # Null <=> entry_pc \in {"function", "returned", "clear"}
  /\ t # Null /\ entry_pc # "clear" => t \in allocated /\ "RUNNING" \in flag[t]
  /\ entry_pc = "clear" => /\ t \notin allocated
                           /\ cb_op = "idle"
                           /\ user_timer[t] \in Owners
                           /\ user_timer[t] \notin high => handle[user_timer[t]] = Null
  /\ cb_op = "idle" => cb_timer = Null
  /\ cb_op # "idle" => /\ entry_pc = "function"
                       /\ cb_timer = t
                       /\ t \notin Linked
                       /\ user_timer[t] \notin high
                       /\ handle[user_timer[t]] = t
  /\ cb_op = "start_insert" => user_timer[t] \notin stopped /\ "start" \in CallbackOps

\* Only the timer whose function runs is marked so; free memory is not marked.
FlagsHeld ==
  \A o \in Objects :
    /\ "RUNNING" \in flag[o] => o = t
    /\ "FREE_PENDING" \in flag[o] => o = t
    /\ o \notin allocated => flag[o] = {}

\* An owner has a kernel timer that points to it and is not to be deleted.  An
\* owner that may preempt the timer thread can initialise its timer anew while
\* the function of the old one runs; the others have the one that points to
\* them until it is to be deleted.
HandlesHeld ==
  /\ \A u \in Owners :
       handle[u] # Null => /\ handle[u] \in allocated
                           /\ user_timer[handle[u]] = u
                           /\ "FREE_PENDING" \notin flag[handle[u]]
  /\ \A o \in allocated :
       /\ user_timer[o] \in Owners
       /\ user_timer[o] \notin high =>
            \/ handle[user_timer[o]] = o
            \/ handle[user_timer[o]] = Null /\ "FREE_PENDING" \in flag[o]

\* Only a timer whose function may deinitialise it while the timer thread keeps
\* its owner from running is taken from a call of its owner.
MayBeOvertaken(u) == u \notin Periodic /\ u \notin high /\ "deinit" \in CallbackOps

\* An owner that changes its timer has it to itself, and in the rest of a call
\* the call is on the owner's timer unless its function deinitialised that.
CallsHeld ==
  \A u \in Owners :
    /\ op[u] \in Changing =>
         /\ op_timer[u] # Null
         /\ op_timer[u] = handle[u]
         /\ op_timer[u] \notin Linked
         /\ u \notin high \/ op[u] = "delete_free" => op_timer[u] # t
    /\ op[u] \notin Changing \cup {"idle", "start_resume", "lost"} =>
         /\ op_timer[u] \in Objects
         /\ \/ op_timer[u] = handle[u]
            \/ handle[u] = Null /\ MayBeOvertaken(u)
    /\ op[u] = "lost" => MayBeOvertaken(u)
    /\ op[u] = "start_insert" => u \notin stopped
    /\ u \in stopped /\ handle[u] # Null => "ACTIVATED" \notin flag[handle[u]]

\* The timer of u does not lose its mark of being active while it is linked.
Keeps(u) == u \in Periodic \/ (u \notin high /\ "start" \notin CallbackOps)

\* What the flags of the timers in the list, or just taken from it, say.
ActiveHeld ==
  /\ \A o \in Linked : o = t \/ Keeps(user_timer[o]) => "ACTIVATED" \in flag[o]
  /\ t # Null /\ user_timer[t] \notin high /\ "start" \notin CallbackOps => t \notin Linked
  /\ t # Null /\ "FREE_PENDING" \in flag[t] => t \notin Linked

\* Who points to which kernel timer.
Pointers ==
  /\ TimerTypeOK
  /\ Linked \subseteq allocated
  /\ ThreadWorksOn /\ FlagsHeld /\ HandlesHeld /\ CallsHeld /\ ActiveHeld

TimerInv == Pointers /\ AllInTime /\ ListSorted

-----------------------------------------------------------------------------
(* Ticks *)

\* How far tick b is ahead of the clock; negative if it is past.
Ahead(b) ==
  IF Diff(b, rt_tick) < Half THEN Diff(b, rt_tick) ELSE Diff(b, rt_tick) - (TickMax + 1)

\* What is assumed of the constants, in arithmetic.
LEMMA Widths ==
  /\ TickMax \in Nat /\ MaxLate \in Nat
  /\ Half \in Nat /\ 2 * Half <= TickMax /\ MaxLate < Half /\ 1 < Half
  /\ \A d \in Delays : d \in Nat /\ 0 < d /\ d + MaxLate < Half
<1>1. /\ TickMax \in Nat /\ MaxLate \in Nat /\ Delays # {}
      /\ \A d \in Delays : d \in Nat \ {0} /\ d + MaxLate < Half
  BY SoftTimerAssumption DEF Half
<1>2. Half \in Nat /\ 2 * Half <= TickMax
  BY <1>1 DEF Half
<1> QED  BY <1>1, <1>2

LEMMA ModIs ==
  ASSUME NEW n \in Nat \ {0}, NEW k \in 0 .. 2 * n - 1
  PROVE  k % n = IF k < n THEN k ELSE k - n
OBVIOUS

\* The unsigned difference is the difference, or turns once.
LEMMA DiffIs ==
  ASSUME NEW b \in Ticks, NEW a \in Ticks
  PROVE  Diff(b, a) = IF a <= b THEN b - a ELSE b + TickMax + 1 - a
<1>1. TickMax \in Nat /\ a \in 0 .. TickMax /\ b \in 0 .. TickMax
  BY Widths DEF Ticks
<1> DEFINE k == b + TickMax + 1 - a
<1>2. k \in 0 .. 2 * (TickMax + 1) - 1 /\ TickMax + 1 \in Nat \ {0}
  BY <1>1
<1>3. Diff(b, a) = k % (TickMax + 1)
  BY DEF Diff
<1> HIDE DEF k
<1>4. Diff(b, a) = IF k < TickMax + 1 THEN k ELSE k - (TickMax + 1)
  BY <1>2, <1>3, ModIs
<1> QED  BY <1>1, <1>4 DEF k

\* A tick of the future is a tick, as far ahead as stopped for.
LEMMA LaterIs ==
  ASSUME rt_tick \in Ticks, NEW n \in 0 .. TickMax
  PROVE  /\ Later(n) \in Ticks
         /\ Diff(Later(n), rt_tick) = n
         /\ Later(n) = IF rt_tick + n <= TickMax THEN rt_tick + n ELSE rt_tick + n - (TickMax + 1)
<1>1. TickMax \in Nat /\ rt_tick \in 0 .. TickMax
  BY Widths DEF Ticks
<1> DEFINE k == rt_tick + n
<1>2. k \in 0 .. 2 * (TickMax + 1) - 1 /\ TickMax + 1 \in Nat \ {0}
  BY <1>1
<1>3. Later(n) = k % (TickMax + 1)
  BY DEF Later
<1> HIDE DEF k
<1>4. Later(n) = IF k < TickMax + 1 THEN k ELSE k - (TickMax + 1)
  BY <1>2, <1>3, ModIs
<1>5. Later(n) \in Ticks
  BY <1>1, <1>4 DEF k, Ticks
<1>6. Diff(Later(n), rt_tick)
        = IF rt_tick <= Later(n) THEN Later(n) - rt_tick ELSE Later(n) + TickMax + 1 - rt_tick
  BY <1>5, DiffIs
<1> QED  BY <1>1, <1>4, <1>5, <1>6 DEF k

\* The time a timer is started with is in time.
LEMMA StartedInTime ==
  ASSUME rt_tick \in Ticks, NEW d \in Delays
  PROVE  Later(d) \in Ticks /\ InTime(Later(d))
<1>1. d \in 0 .. TickMax /\ d + MaxLate < Half
  BY Widths
<1> QED  BY <1>1, LaterIs DEF InTime

\* Among ticks that are in time, "reached before half a turn is over" is the
\* order of the integers Ahead.
LEMMA AheadOrders ==
  ASSUME rt_tick \in Ticks, NEW a \in Ticks, NEW b \in Ticks, InTime(a), InTime(b)
  PROVE  /\ Ahead(a) \in Int
         /\ Reached(b, a) <=> Ahead(a) <= Ahead(b)
         /\ a = b <=> Ahead(a) = Ahead(b)
<1>1. /\ TickMax \in Nat /\ MaxLate \in Nat /\ Half \in Nat
      /\ 2 * Half <= TickMax /\ MaxLate < Half
      /\ rt_tick \in 0 .. TickMax /\ a \in 0 .. TickMax /\ b \in 0 .. TickMax
  BY Widths DEF Ticks
<1>2. /\ Diff(a, rt_tick) = IF rt_tick <= a THEN a - rt_tick ELSE a + TickMax + 1 - rt_tick
      /\ Diff(b, rt_tick) = IF rt_tick <= b THEN b - rt_tick ELSE b + TickMax + 1 - rt_tick
      /\ Diff(rt_tick, a) = IF a <= rt_tick THEN rt_tick - a ELSE rt_tick + TickMax + 1 - a
      /\ Diff(rt_tick, b) = IF b <= rt_tick THEN rt_tick - b ELSE rt_tick + TickMax + 1 - b
      /\ Diff(b, a) = IF a <= b THEN b - a ELSE b + TickMax + 1 - a
  BY DiffIs
<1>3. Reached(b, a) <=> Diff(b, a) < Half
  BY DEF Reached, Half
<1>4. /\ Diff(rt_tick, a) <= MaxLate \/ Diff(a, rt_tick) + MaxLate < Half
      /\ Diff(rt_tick, b) <= MaxLate \/ Diff(b, rt_tick) + MaxLate < Half
  BY DEF InTime
<1>5. /\ Ahead(a) = IF Diff(a, rt_tick) < Half THEN Diff(a, rt_tick)
                    ELSE Diff(a, rt_tick) - (TickMax + 1)
      /\ Ahead(b) = IF Diff(b, rt_tick) < Half THEN Diff(b, rt_tick)
                    ELSE Diff(b, rt_tick) - (TickMax + 1)
  BY DEF Ahead
<1> QED  BY <1>1, <1>2, <1>3, <1>4, <1>5

\* A tick of the clock, which does not come while a timer is as late as it
\* may be, leaves a tick in time.
LEMMA ClockKeepsInTime ==
  ASSUME rt_tick \in Ticks, rt_tick' = Later(1), NEW a \in Ticks, InTime(a),
         Reached(rt_tick, a) => Diff(rt_tick, a) < MaxLate
  PROVE  /\ rt_tick' \in Ticks
         /\ Diff(rt_tick', a) <= MaxLate \/ Diff(a, rt_tick') + MaxLate < Half
<1>1. /\ TickMax \in Nat /\ MaxLate \in Nat /\ Half \in Nat /\ 1 \in 0 .. TickMax
      /\ 2 * Half <= TickMax /\ MaxLate < Half
      /\ rt_tick \in 0 .. TickMax /\ a \in 0 .. TickMax
  BY Widths DEF Ticks
<1>2. /\ rt_tick' \in Ticks
      /\ rt_tick' = IF rt_tick + 1 <= TickMax THEN rt_tick + 1 ELSE rt_tick + 1 - (TickMax + 1)
  BY <1>1, LaterIs
<1>3. /\ Diff(a, rt_tick) = IF rt_tick <= a THEN a - rt_tick ELSE a + TickMax + 1 - rt_tick
      /\ Diff(rt_tick, a) = IF a <= rt_tick THEN rt_tick - a ELSE rt_tick + TickMax + 1 - a
  BY DiffIs
<1>4. /\ Diff(a, rt_tick') = IF rt_tick' <= a THEN a - rt_tick' ELSE a + TickMax + 1 - rt_tick'
      /\ Diff(rt_tick', a) = IF a <= rt_tick' THEN rt_tick' - a ELSE rt_tick' + TickMax + 1 - a
  BY <1>2, DiffIs
<1>5. Reached(rt_tick, a) <=> Diff(rt_tick, a) < Half
  BY DEF Reached, Half
<1>6. Diff(rt_tick, a) <= MaxLate \/ Diff(a, rt_tick) + MaxLate < Half
  BY DEF InTime
<1> QED  BY <1>1, <1>2, <1>3, <1>4, <1>5, <1>6

-----------------------------------------------------------------------------
(* The list *)

\* A list in the order of ticks, with every timer in it once.
InOrder(list, ticks) ==
  \A i, j \in DOMAIN list :
    i < j => list[i] # list[j] /\ Reached(ticks[list[j]], ticks[list[i]])

\* InsertAt moves what is behind by one.
LEMMA InsertAtIs ==
  ASSUME NEW s \in Seq(Objects), NEW e \in Objects, NEW k \in 1 .. Len(s) + 1
  PROVE  /\ InsertAt(s, k, e) \in Seq(Objects)
         /\ DOMAIN InsertAt(s, k, e) = 1 .. Len(s) + 1
         /\ \A i \in 1 .. Len(s) + 1 :
              InsertAt(s, k, e)[i] = IF i < k THEN s[i] ELSE IF i = k THEN e ELSE s[i - 1]
<1> DEFINE before == SubSeq(s, 1, k - 1)
           upto == before \o <<e>>
           behind == SubSeq(s, k, Len(s))
<1>1. /\ before \in Seq(Objects) /\ Len(before) = k - 1
      /\ \A i \in 1 .. k - 1 : before[i] = s[i]
  BY SubSeqProperties
<1>2. /\ behind \in Seq(Objects) /\ Len(behind) = Len(s) - k + 1
      /\ \A i \in 1 .. Len(s) - k + 1 : behind[i] = s[k + i - 1]
  BY SubSeqProperties
<1>3. Len(s) \in Nat /\ InsertAt(s, k, e) = upto \o behind
  BY DEF InsertAt
<1> HIDE DEF before, behind
<1>4. /\ upto \in Seq(Objects) /\ Len(upto) = k
      /\ \A i \in 1 .. k : upto[i] = IF i < k THEN s[i] ELSE e
  BY <1>1
<1> HIDE DEF upto
<1>5. /\ upto \o behind \in Seq(Objects)
      /\ Len(upto \o behind) = Len(upto) + Len(behind)
      /\ \A i \in 1 .. Len(upto) + Len(behind) :
           (upto \o behind)[i] = IF i <= Len(upto) THEN upto[i] ELSE behind[i - Len(upto)]
  BY <1>2, <1>4, ConcatProperties
<1> QED  BY <1>2, <1>3, <1>4, <1>5

\* RemoveAt moves what is behind by one.
LEMMA RemoveAtIs ==
  ASSUME NEW S, NEW s \in Seq(S), NEW k \in 1 .. Len(s)
  PROVE  /\ RemoveAt(s, k) \in Seq(S)
         /\ DOMAIN RemoveAt(s, k) = 1 .. Len(s) - 1
         /\ \A i \in 1 .. Len(s) - 1 :
              RemoveAt(s, k)[i] = IF i < k THEN s[i] ELSE s[i + 1]
<1> DEFINE before == SubSeq(s, 1, k - 1)
           behind == SubSeq(s, k + 1, Len(s))
<1>1. /\ before \in Seq(S) /\ Len(before) = k - 1
      /\ \A i \in 1 .. k - 1 : before[i] = s[i]
  BY SubSeqProperties
<1>2. /\ behind \in Seq(S) /\ Len(behind) = Len(s) - k
      /\ \A i \in 1 .. Len(s) - k : behind[i] = s[k + i]
  BY SubSeqProperties
<1>3. Len(s) \in Nat /\ RemoveAt(s, k) = before \o behind
  BY DEF RemoveAt
<1> HIDE DEF before, behind
<1>4. /\ before \o behind \in Seq(S)
      /\ Len(before \o behind) = Len(before) + Len(behind)
      /\ \A i \in 1 .. Len(before) + Len(behind) :
           (before \o behind)[i] = IF i <= Len(before) THEN before[i]
                                   ELSE behind[i - Len(before)]
  BY <1>1, <1>2, ConcatProperties
<1> DEFINE new == before \o behind
<1> HIDE DEF new
<1>5. /\ new \in Seq(S) /\ Len(new) = Len(s) - 1
      /\ \A i \in 1 .. Len(s) - 1 : new[i] = IF i < k THEN before[i] ELSE behind[i - (k - 1)]
  BY <1>1, <1>2, <1>3, <1>4 DEF new
<1>6. \A i \in 1 .. Len(s) - 1 : new[i] = IF i < k THEN s[i] ELSE s[i + 1]
  BY <1>1, <1>2, <1>3, <1>5
<1> QED  BY <1>3, <1>5, <1>6 DEF new

\* _rt_timer_remove takes off that timer and keeps the order of the others.
LEMMA RemovedIs ==
  ASSUME NEW list \in Seq(Objects), NEW o,
         \A i, j \in DOMAIN list : i < j => list[i] # list[j]
  PROVE  /\ Removed(list, o) \in Seq(Objects)
         /\ ToSet(Removed(list, o)) = ToSet(list) \ {o}
         /\ \A i, j \in DOMAIN Removed(list, o) : i < j =>
              \E k, n \in DOMAIN list : /\ k < n
                                        /\ Removed(list, o)[i] = list[k]
                                        /\ Removed(list, o)[j] = list[n]
<1>1. CASE o \notin ToSet(list)
  BY <1>1 DEF Removed
<1>2. CASE o \in ToSet(list)
  <2> DEFINE k == CHOOSE i \in DOMAIN list : list[i] = o
             new == Removed(list, o)
  <2>1. k \in DOMAIN list /\ list[k] = o
    BY <1>2 DEF ToSet
  <2>2. new = RemoveAt(list, k)
    BY <1>2 DEF Removed
  <2>3. Len(list) \in Nat /\ DOMAIN list = 1 .. Len(list)
    OBVIOUS
  <2> HIDE DEF k
  <2>4. /\ new \in Seq(Objects)
        /\ DOMAIN new = 1 .. Len(list) - 1
        /\ \A i \in 1 .. Len(list) - 1 : new[i] = IF i < k THEN list[i] ELSE list[i + 1]
    BY <2>1, <2>2, <2>3, RemoveAtIs
  <2> HIDE DEF new
  <2>5. \A i, j \in DOMAIN new : i < j =>
          \E m, n \in DOMAIN list : m < n /\ new[i] = list[m] /\ new[j] = list[n]
    <3> SUFFICES ASSUME NEW i \in DOMAIN new, NEW j \in DOMAIN new, i < j
                 PROVE  \E m, n \in DOMAIN list :
                          m < n /\ new[i] = list[m] /\ new[j] = list[n]
      OBVIOUS
    <3> DEFINE from(m) == IF m < k THEN m ELSE m + 1
    <3>1. i \in 1 .. Len(list) - 1 /\ j \in 1 .. Len(list) - 1
      BY <2>4
    <3>2. /\ from(i) \in DOMAIN list /\ new[i] = list[from(i)]
          /\ from(j) \in DOMAIN list /\ new[j] = list[from(j)]
          /\ from(i) < from(j)
      BY <3>1, <2>1, <2>3, <2>4
    <3> QED  BY <3>2
  <2>6. ToSet(new) = ToSet(list) \ {o}
    <3>1. ASSUME NEW i \in 1 .. Len(list) - 1  PROVE new[i] \in ToSet(list) \ {o}
      <4> DEFINE m == IF i < k THEN i ELSE i + 1
      <4>1. m \in 1 .. Len(list) /\ m # k /\ new[i] = list[m]
        BY <2>1, <2>3, <2>4
      <4>2. list[m] # o
        BY <4>1, <2>1, <2>3
      <4> QED  BY <4>1, <4>2, <2>3 DEF ToSet
    <3>2. ASSUME NEW i \in DOMAIN list, list[i] # o  PROVE list[i] \in ToSet(new)
      <4> DEFINE m == IF i < k THEN i ELSE i - 1
      <4>1. m \in 1 .. Len(list) - 1 /\ new[m] = list[i]
        BY <3>2, <2>1, <2>3, <2>4
      <4> QED  BY <4>1, <2>4 DEF ToSet
    <3>3. ToSet(new) \subseteq ToSet(list) \ {o}
      BY <3>1, <2>4 DEF ToSet
    <3> QED  BY <3>2, <3>3 DEF ToSet
  <2> QED  BY <2>4, <2>5, <2>6 DEF new
<1> QED  BY <1>1, <1>2

\* A list in order stays so without a timer, whatever that timer's tick then is.
LEMMA RemovedInOrder ==
  ASSUME NEW list \in Seq(Objects), NEW o, NEW ticks, NEW ticks2,
         InOrder(list, ticks),
         \A x \in ToSet(list) \ {o} : ticks2[x] = ticks[x]
  PROVE  /\ Removed(list, o) \in Seq(Objects)
         /\ ToSet(Removed(list, o)) = ToSet(list) \ {o}
         /\ InOrder(Removed(list, o), ticks2)
<1> DEFINE new == Removed(list, o)
<1>1. /\ new \in Seq(Objects)
      /\ ToSet(new) = ToSet(list) \ {o}
      /\ \A i, j \in DOMAIN new : i < j =>
           \E k, n \in DOMAIN list : k < n /\ new[i] = list[k] /\ new[j] = list[n]
  BY RemovedIs DEF InOrder
<1> HIDE DEF new
<1>2. ASSUME NEW i \in DOMAIN new, NEW j \in DOMAIN new, i < j
      PROVE  new[i] # new[j] /\ Reached(ticks2[new[j]], ticks2[new[i]])
  <2>1. PICK k \in DOMAIN list, n \in DOMAIN list :
          k < n /\ new[i] = list[k] /\ new[j] = list[n]
    BY <1>1, <1>2
  <2>2. list[k] # list[n] /\ Reached(ticks[list[n]], ticks[list[k]])
    BY <2>1 DEF InOrder
  <2>3. new[i] \in ToSet(list) \ {o} /\ new[j] \in ToSet(list) \ {o}
    BY <1>1 DEF ToSet
  <2> QED  BY <2>1, <2>2, <2>3
<1> QED  BY <1>1, <1>2 DEF InOrder, new

\* A set of places that is not empty has a first one.
LEMMA FirstPlace ==
  ASSUME NEW S \in SUBSET Nat, S # {}
  PROVE  \E i \in S : \A j \in S : i <= j
<1> DEFINE less == {p \in Nat \X Nat : p[1] < p[2]}
<1>1. IsWellFoundedOn(less, Nat)
  BY NatLessThanWellFounded DEF OpToRel
<1>2. \A i, j \in Nat : <<j, i>> \in less <=> j < i
  OBVIOUS
<1> HIDE DEF less
<1>3. PICK i \in S : \A j \in S : ~(<<j, i>> \in less)
  BY <1>1, WFMin
<1>4. ASSUME NEW j \in S  PROVE i <= j
  <2>1. i \in Nat /\ j \in Nat
    OBVIOUS
  <2>2. ~(j < i)
    BY <1>2, <1>3, <2>1
  <2> QED  BY <2>1, <2>2
<1> QED  BY <1>4

\* rt_timer_start puts a timer where it belongs, if all timers are in time.
LEMMA InsertedInOrder ==
  ASSUME rt_tick \in Ticks,
         NEW list \in Seq(Objects), NEW o \in Objects \ ToSet(list),
         NEW ticks \in [Objects -> Ticks],
         \A x \in ToSet(list) \cup {o} : InTime(ticks[x]),
         InOrder(list, ticks)
  PROVE  /\ Inserted(list, o, ticks) \in Seq(Objects)
         /\ ToSet(Inserted(list, o, ticks)) = ToSet(list) \cup {o}
         /\ InOrder(Inserted(list, o, ticks), ticks)
<1> DEFINE after == {i \in DOMAIN list : /\ ticks[list[i]] # ticks[o]
                                         /\ Reached(ticks[list[i]], ticks[o])}
           k == IF after = {} THEN Len(list) + 1
                ELSE CHOOSE i \in after : \A j \in after : i <= j
           new == Inserted(list, o, ticks)
           d(x) == Ahead(ticks[x])
<1>1. Len(list) \in Nat /\ DOMAIN list = 1 .. Len(list) /\ \A i \in DOMAIN list : list[i] \in Objects
  OBVIOUS
<1>2. \A i \in DOMAIN list : list[i] \in ToSet(list)
  BY DEF ToSet
<1>3. \A x \in ToSet(list) \cup {o} : x \in Objects /\ ticks[x] \in Ticks /\ d(x) \in Int
  <2>1. ToSet(list) \subseteq Objects
    BY <1>1 DEF ToSet
  <2> QED  BY <2>1, AheadOrders
<1>4. \A x, y \in ToSet(list) \cup {o} :
        /\ Reached(ticks[y], ticks[x]) <=> d(x) <= d(y)
        /\ ticks[x] = ticks[y] <=> d(x) = d(y)
  BY <1>3, AheadOrders
<1> HIDE DEF d
<1>5. \A i \in DOMAIN list : i \in after <=> d(o) < d(list[i])
  BY <1>2, <1>3, <1>4
<1>6. \A i, j \in DOMAIN list : i < j => list[i] # list[j] /\ d(list[i]) <= d(list[j])
  BY <1>2, <1>4 DEF InOrder
<1>7. /\ k \in 1 .. Len(list) + 1
      /\ \A i \in DOMAIN list : (i < k => d(list[i]) <= d(o)) /\ (k <= i => d(o) <= d(list[i]))
  <2> HIDE DEF after
  <2>1. CASE after = {}
    BY <2>1, <1>1, <1>2, <1>3, <1>5
  <2>2. CASE after # {}
    <3>1. after \in SUBSET Nat /\ after \subseteq DOMAIN list
      BY <1>1 DEF after
    <3>2. k \in after /\ \A j \in after : k <= j
      BY <2>2, <3>1, FirstPlace
    <3> HIDE DEF k
    <3>3. k \in DOMAIN list /\ d(o) < d(list[k])
      BY <3>1, <3>2, <1>5
    <3>4. ASSUME NEW i \in DOMAIN list  PROVE (i < k => d(list[i]) <= d(o)) /\ (k <= i => d(o) <= d(list[i]))
      <4>1. CASE i < k
        <5>1. i \notin after
          BY <4>1, <3>2, <3>3, <1>1
        <5> QED  BY <5>1, <4>1, <1>1, <1>2, <1>3, <1>5, <3>3
      <4>2. CASE k <= i
        <5>1. d(list[k]) <= d(list[i])
          BY <4>2, <3>3, <1>1, <1>2, <1>3, <1>6
        <5> QED  BY <5>1, <4>2, <1>1, <1>2, <1>3, <3>3
      <4> QED  BY <4>1, <4>2, <1>1, <3>3
    <3> QED  BY <3>3, <3>4, <1>1
  <2> QED  BY <2>1, <2>2
<1>8. new = InsertAt(list, k, o)
  BY DEF Inserted
<1> HIDE DEF after, k, new
<1>9. /\ new \in Seq(Objects)
      /\ DOMAIN new = 1 .. Len(list) + 1
      /\ \A i \in 1 .. Len(list) + 1 :
           new[i] = IF i < k THEN list[i] ELSE IF i = k THEN o ELSE list[i - 1]
  <2>1. o \in Objects /\ k \in 1 .. Len(list) + 1
    BY <1>7
  <2>2. /\ InsertAt(list, k, o) \in Seq(Objects)
        /\ DOMAIN InsertAt(list, k, o) = 1 .. Len(list) + 1
        /\ \A i \in 1 .. Len(list) + 1 :
             InsertAt(list, k, o)[i] = IF i < k THEN list[i] ELSE IF i = k THEN o ELSE list[i - 1]
    BY <2>1, InsertAtIs
  <2> QED  BY <2>2, <1>8
<1>10. ToSet(new) = ToSet(list) \cup {o}
  <2>1. ASSUME NEW i \in DOMAIN new  PROVE new[i] \in ToSet(list) \cup {o}
    <3>1. i = k \/ (i < k /\ i \in DOMAIN list) \/ (k < i /\ i - 1 \in DOMAIN list)
      BY <1>1, <1>7, <1>9
    <3> QED  BY <3>1, <1>1, <1>2, <1>7, <1>9
  <2>2. new[k] = o
    BY <1>7, <1>9, <1>1
  <2>3. ASSUME NEW i \in DOMAIN list  PROVE list[i] \in ToSet(new)
    <3> DEFINE m == IF i < k THEN i ELSE i + 1
    <3>1. m \in 1 .. Len(list) + 1 /\ new[m] = list[i]
      BY <1>1, <1>7, <1>9
    <3> QED  BY <3>1, <1>9 DEF ToSet
  <2>4. k \in DOMAIN new
    BY <1>1, <1>7, <1>9
  <2>5. ToSet(new) \subseteq ToSet(list) \cup {o}
    BY <2>1 DEF ToSet
  <2>6. o \in ToSet(new)
    BY <2>2, <2>4 DEF ToSet
  <2>7. ToSet(list) \subseteq ToSet(new)
    BY <2>3 DEF ToSet
  <2> QED  BY <2>5, <2>6, <2>7
<1>11. ASSUME NEW i \in DOMAIN new, NEW j \in DOMAIN new, i < j
       PROVE  new[i] # new[j] /\ d(new[i]) <= d(new[j])
  <2>1. i \in 1 .. Len(list) + 1 /\ j \in 1 .. Len(list) + 1
    BY <1>9
  <2>2. CASE i = k
    <3>1. new[i] = o /\ j - 1 \in DOMAIN list /\ new[j] = list[j - 1] /\ k <= j - 1
      BY <2>1, <2>2, <1>1, <1>7, <1>9, <1>11
    <3> QED  BY <3>1, <1>2, <1>7
  <2>3. CASE j = k
    <3>1. new[j] = o /\ i \in DOMAIN list /\ new[i] = list[i] /\ i < k
      BY <2>1, <2>3, <1>1, <1>7, <1>9, <1>11
    <3> QED  BY <3>1, <1>2, <1>7
  <2>4. CASE i # k /\ j # k
    <3> DEFINE from(n) == IF n < k THEN n ELSE n - 1
    <3>1. /\ from(i) \in DOMAIN list /\ new[i] = list[from(i)]
          /\ from(j) \in DOMAIN list /\ new[j] = list[from(j)]
          /\ from(i) < from(j)
      BY <2>1, <2>4, <1>1, <1>7, <1>9, <1>11
    <3> QED  BY <3>1, <1>6
  <2> QED  BY <2>2, <2>3, <2>4
<1>12. InOrder(new, ticks)
  <2>1. \A i \in DOMAIN new : new[i] \in ToSet(list) \cup {o}
    BY <1>10 DEF ToSet
  <2> QED  BY <2>1, <1>4, <1>11 DEF InOrder
<1> QED  BY <1>9, <1>10, <1>12 DEF new


-----------------------------------------------------------------------------
(* The list in a step *)

\* A step that takes a timer off the list, and changes the time of no other.
LEMMA RemovesOne ==
  ASSUME TimerInv, NEW o,
         rt_soft_timer_list' = Removed(rt_soft_timer_list, o),
         \A x \in Linked \ {o} : timeout_tick'[x] = timeout_tick[x]
  PROVE  rt_soft_timer_list' \in Seq(Objects) /\ Linked' = Linked \ {o} /\ ListSorted'
<1>1. rt_soft_timer_list \in Seq(Objects) /\ InOrder(rt_soft_timer_list, timeout_tick)
  BY DEF TimerInv, Pointers, TimerTypeOK, ListSorted, InOrder
<1>2. /\ rt_soft_timer_list' \in Seq(Objects)
      /\ ToSet(rt_soft_timer_list') = ToSet(rt_soft_timer_list) \ {o}
      /\ InOrder(rt_soft_timer_list', timeout_tick')
  BY <1>1, RemovedInOrder DEF Linked
<1> QED  BY <1>2 DEF Linked, ListSorted, InOrder

\* A step that puts a timer into the list, where it may have been already.
LEMMA InsertsOne ==
  ASSUME TimerInv, rt_tick' = rt_tick, NEW o \in Objects,
         timeout_tick' \in [Objects -> Ticks], InTime(timeout_tick'[o]),
         \A x \in Linked \ {o} : timeout_tick'[x] = timeout_tick[x],
         rt_soft_timer_list' = Inserted(Removed(rt_soft_timer_list, o), o, timeout_tick')
  PROVE  rt_soft_timer_list' \in Seq(Objects) /\ Linked' = Linked \cup {o} /\ ListSorted'
<1> DEFINE left == Removed(rt_soft_timer_list, o)
<1>1. rt_soft_timer_list \in Seq(Objects) /\ InOrder(rt_soft_timer_list, timeout_tick)
  BY DEF TimerInv, Pointers, TimerTypeOK, ListSorted, InOrder
<1>2. left \in Seq(Objects) /\ ToSet(left) = Linked \ {o} /\ InOrder(left, timeout_tick')
  BY <1>1, RemovedInOrder DEF Linked
<1> HIDE DEF left
<1>3. \A x \in ToSet(left) \cup {o} : InTime(timeout_tick'[x])
  BY <1>2 DEF TimerInv, AllInTime
<1>4. rt_tick \in Ticks /\ o \in Objects \ ToSet(left)
  BY <1>2 DEF TimerInv, Pointers, TimerTypeOK
<1> DEFINE new == Inserted(left, o, timeout_tick')
<1>5. new \in Seq(Objects) /\ ToSet(new) = ToSet(left) \cup {o} /\ InOrder(new, timeout_tick')
  BY <1>2, <1>3, <1>4, InsertedInOrder
<1>6. rt_soft_timer_list' = new
  BY DEF left
<1> HIDE DEF new
<1> QED  BY <1>2, <1>5, <1>6 DEF Linked, ListSorted, InOrder


\* The same for a timer that is not there yet.
LEMMA InsertsUnlinked ==
  ASSUME TimerInv, UNCHANGED <<rt_tick, timeout_tick>>, NEW o \in Objects, o \notin Linked,
         InTime(timeout_tick[o]),
         rt_soft_timer_list' = Inserted(rt_soft_timer_list, o, timeout_tick)
  PROVE  rt_soft_timer_list' \in Seq(Objects) /\ Linked' = Linked \cup {o} /\ ListSorted'
<1>1. Removed(rt_soft_timer_list, o) = rt_soft_timer_list
  BY DEF Removed, Linked
<1>2. timeout_tick' \in [Objects -> Ticks]
  BY DEF TimerInv, Pointers, TimerTypeOK
<1> QED  BY <1>1, <1>2, InsertsOne

\* While the clock stands still, a time stays in time.
LEMMA TimesKept ==
  ASSUME rt_tick' = rt_tick,
         \A o \in Linked' : InTime(timeout_tick'[o]),
         \A u \in Owners : op'[u] = "start_insert" => InTime(timeout_tick'[op_timer'[u]]),
         cb_op' = "start_insert" => InTime(timeout_tick'[cb_timer'])
  PROVE  AllInTime'
BY DEF AllInTime, InTime, Diff

-----------------------------------------------------------------------------
(* What owners do *)

\* An owner that may not preempt the timer thread runs while that is asleep.
LEMMA AloneWithTimer ==
  ASSUME TimerInv, NEW u \in Owners, OwnerRuns(u), u \notin high
  PROVE  t = Null /\ entry_pc # "function" /\ cb_op = "idle"
BY DEF TimerInv, Pointers, TimerTypeOK, ThreadWorksOn, OwnerRuns, Asleep

\* Nobody runs while the timer thread clears the timer of an owner.
LEMMA NotWhileClearing ==
  ASSUME NEW u \in Owners, OwnerRuns(u)
  PROVE  entry_pc # "clear"
BY DEF OwnerRuns, Asleep

\* A step of a call that changes no kernel timer, or only its time.
LEMMA CallMovesKeeps ==
  ASSUME TimerInv, NEW u \in Owners, OwnerRuns(u),
         UNCHANGED <<high, rt_tick, rt_soft_timer_list, allocated, flag, timeout_tick,
                     user_timer, handle, cb_op, cb_timer, t>>,
         TimerTypeOK', CallsHeld',
         entry_pc' = entry_pc \/ (Asleep /\ entry_pc' = "check"),
         stopped' = stopped \/ stopped' = stopped \cup {u},
         \A v \in Owners : op'[v] = "start_insert" =>
                            op[v] = "start_insert" /\ op_timer'[v] = op_timer[v]
  PROVE  TimerInv'
<1> USE DEF TimerInv, Pointers
<1>1. Linked' = Linked /\ entry_pc # "clear"
  BY NotWhileClearing DEF Linked
<1>2. u \notin high => cb_op = "idle"
  BY AloneWithTimer
<1>3. AllInTime'
  BY <1>1, TimesKept DEF AllInTime
<1>4. ListSorted'
  BY DEF ListSorted, Reached, Diff
<1>5. ThreadWorksOn'
  BY <1>1, <1>2 DEF ThreadWorksOn, Asleep
<1>6. FlagsHeld' /\ HandlesHeld'
  BY DEF FlagsHeld, HandlesHeld
<1>7. ActiveHeld'
  BY <1>1 DEF ActiveHeld, Keeps
<1> QED  BY <1>1, <1>3, <1>4, <1>5, <1>6, <1>7

LEMMA InitTimerKeeps ==
  ASSUME TimerInv, UNCHANGED high, NEW u \in Owners, InitTimer(u)
  PROVE  TimerInv'
<1> USE DEF TimerInv, Pointers
<1>1. PICK o \in Objects \ allocated, d \in Delays :
        /\ allocated' = allocated \cup {o}
        /\ init_tick' = [init_tick EXCEPT ![o] = d]
        /\ user_timer' = [user_timer EXCEPT ![o] = u]
        /\ handle' = [handle EXCEPT ![u] = o]
  BY DEF InitTimer
<1>2. /\ OwnerRuns(u) /\ op[u] = "idle" /\ handle[u] = Null
      /\ stopped' = stopped \cup {u}
      /\ UNCHANGED <<high, rt_tick, rt_soft_timer_list, flag, timeout_tick, op, op_timer,
                     cb_op, cb_timer, entry_pc, next_timeout, current_tick, t, overlooked>>
      /\ Linked' = Linked
  BY DEF InitTimer, callback, thread, Linked
<1>3. /\ u \notin high => t = Null
      /\ o # Null /\ o \notin Linked /\ o # t /\ flag[o] = {} /\ entry_pc # "clear"
      /\ \A v \in Owners : handle[v] # o
  BY <1>2, AloneWithTimer, NotWhileClearing, SoftTimerAssumption DEF ThreadWorksOn, FlagsHeld, HandlesHeld
<1>4. TimerTypeOK'
  BY <1>1, <1>2 DEF TimerTypeOK
<1>5. AllInTime'
  BY <1>2, TimesKept DEF AllInTime
<1>6. ListSorted'
  BY <1>2 DEF ListSorted, Reached, Diff
<1>7. ThreadWorksOn'
  BY <1>1, <1>2, <1>3 DEF TimerTypeOK, ThreadWorksOn, HandlesHeld
<1>8. FlagsHeld'
  BY <1>1, <1>2 DEF TimerTypeOK, FlagsHeld
<1>9. HandlesHeld'
  <2>1. ASSUME NEW v \in Owners, handle'[v] # Null
        PROVE  handle'[v] \in allocated' /\ user_timer'[handle'[v]] = v
               /\ "FREE_PENDING" \notin flag'[handle'[v]]
    BY <2>1, <1>1, <1>2, <1>3 DEF TimerTypeOK, HandlesHeld
  <2>2. ASSUME NEW x \in allocated', x # o
        PROVE  /\ user_timer'[x] \in Owners
               /\ user_timer'[x] \notin high =>
                    \/ handle'[user_timer'[x]] = x
                    \/ handle'[user_timer'[x]] = Null /\ "FREE_PENDING" \in flag'[x]
    <3>1. x \in allocated /\ x \in Objects /\ user_timer'[x] = user_timer[x]
      BY <2>2, <1>1 DEF TimerTypeOK
    <3>2. user_timer[x] = u => u \in high \/ x = t
      BY <3>1, <1>2, SoftTimerAssumption DEF HandlesHeld, FlagsHeld
    <3>3. user_timer[x] = u => u \in high
      BY <3>1, <3>2, <1>3, SoftTimerAssumption DEF TimerTypeOK
    <3> QED  BY <3>1, <3>3, <1>1, <1>2 DEF TimerTypeOK, HandlesHeld
  <2>3. user_timer'[o] = u /\ handle'[u] = o
    BY <1>1 DEF TimerTypeOK
  <2> QED  BY <2>1, <2>2, <2>3, <1>2 DEF HandlesHeld
<1>10. CallsHeld'
  BY <1>1, <1>2, <1>3 DEF TimerTypeOK, CallsHeld, Changing, MayBeOvertaken
<1>11. ActiveHeld'
  BY <1>1, <1>2, <1>3 DEF TimerTypeOK, ActiveHeld, Keeps
<1> QED  BY <1>1, <1>2, <1>4, <1>5, <1>6, <1>7, <1>8, <1>9, <1>10, <1>11

LEMMA StartTimerKeeps ==
  ASSUME TimerInv, UNCHANGED high, NEW u \in Owners, NEW d \in Delays, StartTimer(u, d)
  PROVE  TimerInv'
<1> USE DEF TimerInv, Pointers
<1>1. /\ OwnerRuns(u) /\ op[u] = "idle" /\ handle[u] # Null
      /\ init_tick' = [init_tick EXCEPT ![handle[u]] = d]
      /\ op' = [op EXCEPT ![u] = "start_test"]
      /\ op_timer' = [op_timer EXCEPT ![u] = handle[u]]
      /\ UNCHANGED <<high, rt_tick, rt_soft_timer_list, allocated, flag, timeout_tick,
                     user_timer, handle, stopped, cb_op, cb_timer, entry_pc, next_timeout,
                     current_tick, t, overlooked>>
      /\ Linked' = Linked
  BY DEF StartTimer, callback, thread, Linked
<1>2. handle[u] \in Objects
  BY <1>1 DEF TimerTypeOK
<1>3. TimerTypeOK'
  BY <1>1, <1>2 DEF TimerTypeOK
<1>4. CallsHeld'
  BY <1>1, <1>2 DEF TimerTypeOK, CallsHeld, Changing, MayBeOvertaken
<1>5. \A v \in Owners : op'[v] = "start_insert" =>
                        op[v] = "start_insert" /\ op_timer'[v] = op_timer[v]
  BY <1>1 DEF TimerTypeOK
<1> QED  BY <1>1, <1>3, <1>4, <1>5, CallMovesKeeps

LEMMA StartTimerRemoveKeeps ==
  ASSUME TimerInv, UNCHANGED high, NEW u \in Owners, StartTimerRemove(u)
  PROVE  TimerInv'
<1> DEFINE h == handle[u]
<1> USE DEF TimerInv, Pointers
<1>1. /\ OwnerRuns(u) /\ op[u] = "start_test" /\ op_timer[u] = h
      /\ rt_soft_timer_list' = Removed(rt_soft_timer_list, h)
      /\ flag' = [flag EXCEPT ![h] = @ \ {"ACTIVATED"}]
      /\ timeout_tick' = [timeout_tick EXCEPT ![h] = Later(init_tick[h])]
      /\ op' = [op EXCEPT ![u] = "start_insert"]
      /\ stopped' = stopped \ {u}
      /\ UNCHANGED <<high, rt_tick, allocated, init_tick, user_timer, handle, op_timer, cb_op,
                     cb_timer, entry_pc, next_timeout, current_tick, t, overlooked>>
  BY DEF StartTimerRemove, StartRemove, Overtaken, callback, thread
<1>2. /\ h \in Objects /\ h # Null
      /\ u \notin high => t = Null /\ entry_pc # "function"
      /\ entry_pc # "clear"
  BY <1>1, AloneWithTimer, NotWhileClearing, SoftTimerAssumption DEF CallsHeld, Changing
<1>3. Later(init_tick[h]) \in Ticks /\ InTime(Later(init_tick[h]))
      /\ timeout_tick'[h] = Later(init_tick[h])
  BY <1>1, <1>2, StartedInTime DEF TimerTypeOK
<1>4. rt_soft_timer_list' \in Seq(Objects) /\ Linked' = Linked \ {h} /\ ListSorted'
  <2>1. \A x \in Linked \ {h} : timeout_tick'[x] = timeout_tick[x]
    BY <1>1 DEF TimerTypeOK
  <2> QED  BY <1>1, <2>1, RemovesOne
<1> HIDE DEF h
<1>5. TimerTypeOK'
  BY <1>1, <1>2, <1>3, <1>4 DEF TimerTypeOK
<1>6. AllInTime'
  <2>1. \A o \in Linked' : InTime(timeout_tick'[o])
    BY <1>1, <1>2, <1>4 DEF AllInTime, TimerTypeOK
  <2>2. \A v \in Owners : op'[v] = "start_insert" => InTime(timeout_tick'[op_timer'[v]])
    BY <1>1, <1>2, <1>3 DEF h, AllInTime, TimerTypeOK, CallsHeld, Changing, MayBeOvertaken, HandlesHeld
  <2>3. cb_op' = "start_insert" => InTime(timeout_tick'[cb_timer'])
    BY <1>1, <1>2 DEF h, AllInTime, TimerTypeOK, ThreadWorksOn, HandlesHeld
  <2> QED  BY <1>1, <2>1, <2>2, <2>3, TimesKept
<1>7. ThreadWorksOn'
  BY <1>1, <1>2, <1>4 DEF h, TimerTypeOK, ThreadWorksOn, HandlesHeld
<1>8. FlagsHeld'
  BY <1>1, <1>2 DEF TimerTypeOK, FlagsHeld
<1>9. HandlesHeld'
  BY <1>1, <1>2 DEF TimerTypeOK, HandlesHeld
<1>10. CallsHeld'
  BY <1>1, <1>2, <1>4 DEF h, TimerTypeOK, CallsHeld, Changing, MayBeOvertaken
<1>11. ActiveHeld'
  BY <1>1, <1>2, <1>4 DEF TimerTypeOK, ActiveHeld, Keeps
<1> QED  BY <1>1, <1>4, <1>5, <1>6, <1>7, <1>8, <1>9, <1>10, <1>11


LEMMA StartTimerInsertKeeps ==
  ASSUME TimerInv, UNCHANGED high, NEW u \in Owners, StartTimerInsert(u)
  PROVE  TimerInv'
<1> DEFINE h == handle[u]
<1> USE DEF TimerInv, Pointers
<1>1. /\ OwnerRuns(u) /\ op[u] = "start_insert" /\ u \notin stopped
      /\ h \in allocated /\ h \notin Linked /\ op_timer[u] = h
      /\ user_timer[h] = u /\ "FREE_PENDING" \notin flag[h]
  BY DEF StartTimerInsert, CallsHeld, HandlesHeld, Changing
<1>2. /\ rt_soft_timer_list' = Inserted(rt_soft_timer_list, h, timeout_tick)
      /\ flag' = [flag EXCEPT ![h] = @ \cup {"ACTIVATED"}]
      /\ op' = [op EXCEPT ![u] = "start_look"]
      /\ overlooked' = (overlooked \/ entry_pc = "decide")
      /\ UNCHANGED <<high, rt_tick, allocated, timeout_tick, init_tick, user_timer, handle,
                     op_timer, stopped, cb_op, cb_timer, entry_pc, next_timeout, current_tick, t>>
  BY <1>1 DEF StartTimerInsert, StartInsert, callback, thread
<1>3. /\ u \notin high => t = Null /\ entry_pc # "function" /\ cb_op = "idle"
      /\ entry_pc # "clear"
  BY <1>1, AloneWithTimer, NotWhileClearing
<1>4. h \in Objects /\ InTime(timeout_tick[h])
  BY <1>1 DEF TimerTypeOK, AllInTime
<1>5. rt_soft_timer_list' \in Seq(Objects) /\ Linked' = Linked \cup {h} /\ ListSorted'
  BY <1>1, <1>2, <1>4, InsertsUnlinked
<1> HIDE DEF h
<1>6. TimerTypeOK'
  BY <1>2, <1>4, <1>5 DEF TimerTypeOK, Flags
<1>7. AllInTime'
  <2>1. \A o \in Linked' : InTime(timeout_tick'[o])
    BY <1>2, <1>4, <1>5 DEF AllInTime
  <2>2. \A v \in Owners : op'[v] = "start_insert" => InTime(timeout_tick'[op_timer'[v]])
    BY <1>2 DEF AllInTime, TimerTypeOK
  <2>3. cb_op' = "start_insert" => InTime(timeout_tick'[cb_timer'])
    BY <1>2 DEF AllInTime
  <2> QED  BY <1>2, <2>1, <2>2, <2>3, TimesKept
<1>8. ThreadWorksOn'
  BY <1>1, <1>2, <1>3, <1>4, <1>5 DEF TimerTypeOK, ThreadWorksOn
<1>9. FlagsHeld'
  BY <1>1, <1>2 DEF TimerTypeOK, FlagsHeld
<1>10. HandlesHeld'
  BY <1>1, <1>2 DEF TimerTypeOK, HandlesHeld
<1>11. CallsHeld'
  BY <1>1, <1>2, <1>4, <1>5 DEF h, TimerTypeOK, CallsHeld, Changing, MayBeOvertaken, HandlesHeld
<1>12. ActiveHeld'
  BY <1>1, <1>2, <1>3, <1>5 DEF TimerTypeOK, ActiveHeld, Keeps
<1> QED  BY <1>1, <1>2, <1>5, <1>6, <1>7, <1>8, <1>9, <1>10, <1>11, <1>12


LEMMA StartTimerLookKeeps ==
  ASSUME TimerInv, UNCHANGED high, NEW u \in Owners, StartTimerLook(u)
  PROVE  TimerInv'
<1> USE DEF TimerInv, Pointers
<1>1. /\ OwnerRuns(u)
      /\ op[u] = "start_look"
      /\ \/ op' = [op EXCEPT ![u] = "start_resume"] /\ op_timer' = op_timer
         \/ /\ op' = [op EXCEPT ![u] = "idle"]
            /\ op_timer' = [op_timer EXCEPT ![u] = Null]
      /\ UNCHANGED <<high, rt_tick, rt_soft_timer_list, allocated, flag, timeout_tick,
                     init_tick, user_timer, handle, stopped, cb_op, cb_timer, entry_pc, next_timeout,
                     current_tick, t, overlooked>>
      /\ Linked' = Linked
  BY DEF StartTimerLook, fields, callback, thread, Linked
<1>2. TimerTypeOK'
  BY <1>1 DEF TimerTypeOK
<1>3. CallsHeld'
  BY <1>1 DEF TimerTypeOK, CallsHeld, Changing, MayBeOvertaken
<1>4. \A v \in Owners : op'[v] = "start_insert" =>
                        op[v] = "start_insert" /\ op_timer'[v] = op_timer[v]
  BY <1>1 DEF TimerTypeOK
<1> QED  BY <1>1, <1>2, <1>3, <1>4, CallMovesKeeps

LEMMA StartTimerResumeKeeps ==
  ASSUME TimerInv, UNCHANGED high, NEW u \in Owners, StartTimerResume(u)
  PROVE  TimerInv'
<1> USE DEF TimerInv, Pointers
<1>1. /\ OwnerRuns(u)
      /\ op[u] = "start_resume"
      /\ entry_pc' = IF Asleep THEN "check" ELSE entry_pc
      /\ op' = [op EXCEPT ![u] = "idle"]
      /\ op_timer' = [op_timer EXCEPT ![u] = Null]
      /\ UNCHANGED <<high, rt_tick, rt_soft_timer_list, allocated, flag, timeout_tick,
                     init_tick, user_timer, handle, stopped, cb_op, cb_timer, next_timeout,
                     current_tick, t, overlooked>>
      /\ Linked' = Linked
  BY DEF StartTimerResume, ResumeTimerThread, fields, callback, Linked
<1>2. TimerTypeOK'
  BY <1>1 DEF TimerTypeOK
<1>3. CallsHeld'
  BY <1>1 DEF TimerTypeOK, CallsHeld, Changing, MayBeOvertaken
<1>4. \A v \in Owners : op'[v] = "start_insert" =>
                        op[v] = "start_insert" /\ op_timer'[v] = op_timer[v]
  BY <1>1 DEF TimerTypeOK
<1> QED  BY <1>1, <1>2, <1>3, <1>4, CallMovesKeeps

LEMMA StopTimerKeeps ==
  ASSUME TimerInv, UNCHANGED high, NEW u \in Owners, StopTimer(u)
  PROVE  TimerInv'
<1> USE DEF TimerInv, Pointers
<1>1. /\ OwnerRuns(u)
      /\ op[u] = "idle" /\ handle[u] # Null
      /\ op' = [op EXCEPT ![u] = "stop_test"]
      /\ op_timer' = [op_timer EXCEPT ![u] = handle[u]]
      /\ UNCHANGED <<high, rt_tick, rt_soft_timer_list, allocated, flag, timeout_tick,
                     init_tick, user_timer, handle, stopped, cb_op, cb_timer, entry_pc, next_timeout,
                     current_tick, t, overlooked>>
      /\ Linked' = Linked
  BY DEF StopTimer, fields, callback, thread, Linked
<1>2. TimerTypeOK'
  BY <1>1 DEF TimerTypeOK
<1>3. CallsHeld'
  BY <1>1 DEF TimerTypeOK, CallsHeld, Changing, MayBeOvertaken
<1>4. \A v \in Owners : op'[v] = "start_insert" =>
                        op[v] = "start_insert" /\ op_timer'[v] = op_timer[v]
  BY <1>1 DEF TimerTypeOK
<1> QED  BY <1>1, <1>2, <1>3, <1>4, CallMovesKeeps

LEMMA StopRefusedKeeps ==
  ASSUME TimerInv, UNCHANGED high, NEW u \in Owners, StopRefused(u)
  PROVE  TimerInv'
<1> USE DEF TimerInv, Pointers
<1>1. /\ OwnerRuns(u)
      /\ op[u] = "stop_test"
      /\ op_timer[u] # handle[u] \/ "ACTIVATED" \notin flag[op_timer[u]]
      /\ stopped' = stopped \cup {u}
      /\ op' = [op EXCEPT ![u] = "idle"]
      /\ op_timer' = [op_timer EXCEPT ![u] = Null]
      /\ UNCHANGED <<high, rt_tick, rt_soft_timer_list, allocated, flag, timeout_tick,
                     init_tick, user_timer, handle, cb_op, cb_timer, entry_pc, next_timeout,
                     current_tick, t, overlooked>>
      /\ Linked' = Linked
  BY DEF StopRefused, Overtaken, fields, callback, thread, Linked
<1>2. TimerTypeOK'
  BY <1>1 DEF TimerTypeOK
<1>3. CallsHeld'
  BY <1>1 DEF TimerTypeOK, CallsHeld, Changing, MayBeOvertaken
<1>4. \A v \in Owners : op'[v] = "start_insert" =>
                        op[v] = "start_insert" /\ op_timer'[v] = op_timer[v]
  BY <1>1 DEF TimerTypeOK
<1> QED  BY <1>1, <1>2, <1>3, <1>4, CallMovesKeeps

LEMMA StopActiveKeeps ==
  ASSUME TimerInv, UNCHANGED high, NEW u \in Owners, StopActive(u)
  PROVE  TimerInv'
<1> USE DEF TimerInv, Pointers
<1>1. /\ OwnerRuns(u)
      /\ op[u] = "stop_test"
      /\ op' = [op EXCEPT ![u] = "stop_remove"]
      /\ op_timer' = op_timer
      /\ UNCHANGED <<high, rt_tick, rt_soft_timer_list, allocated, flag, timeout_tick,
                     init_tick, user_timer, handle, stopped, cb_op, cb_timer, entry_pc, next_timeout,
                     current_tick, t, overlooked>>
      /\ Linked' = Linked
  BY DEF StopActive, fields, callback, thread, Linked
<1>2. TimerTypeOK'
  BY <1>1 DEF TimerTypeOK
<1>3. CallsHeld'
  BY <1>1 DEF TimerTypeOK, CallsHeld, Changing, MayBeOvertaken
<1>4. \A v \in Owners : op'[v] = "start_insert" =>
                        op[v] = "start_insert" /\ op_timer'[v] = op_timer[v]
  BY <1>1 DEF TimerTypeOK
<1> QED  BY <1>1, <1>2, <1>3, <1>4, CallMovesKeeps

LEMMA UseFreedKeeps ==
  ASSUME TimerInv, UNCHANGED high, NEW u \in Owners, UseFreed(u)
  PROVE  TimerInv'
<1> USE DEF TimerInv, Pointers
<1>1. /\ OwnerRuns(u)
      /\ op[u] \in {"start_test", "stop_remove"} /\ op_timer[u] # handle[u]
      /\ op' = [op EXCEPT ![u] = "lost"]
      /\ op_timer' = op_timer
      /\ UNCHANGED <<high, rt_tick, rt_soft_timer_list, allocated, flag, timeout_tick,
                     init_tick, user_timer, handle, stopped, cb_op, cb_timer, entry_pc, next_timeout,
                     current_tick, t, overlooked>>
      /\ Linked' = Linked
  BY DEF UseFreed, Overtaken, fields, callback, thread, Linked
<1>2. TimerTypeOK'
  BY <1>1 DEF TimerTypeOK
<1>3. CallsHeld'
  BY <1>1 DEF TimerTypeOK, CallsHeld, Changing, MayBeOvertaken
<1>4. \A v \in Owners : op'[v] = "start_insert" =>
                        op[v] = "start_insert" /\ op_timer'[v] = op_timer[v]
  BY <1>1 DEF TimerTypeOK
<1> QED  BY <1>1, <1>2, <1>3, <1>4, CallMovesKeeps

LEMMA StopTimerRemoveKeeps ==
  ASSUME TimerInv, UNCHANGED high, NEW u \in Owners, StopTimerRemove(u)
  PROVE  TimerInv'
<1> DEFINE h == handle[u]
<1> USE DEF TimerInv, Pointers
<1>1. /\ OwnerRuns(u) /\ op[u] = "stop_remove" /\ op_timer[u] = h
      /\ rt_soft_timer_list' = Removed(rt_soft_timer_list, h)
      /\ op' = [op EXCEPT ![u] = "stop_clear"]
      /\ UNCHANGED <<high, rt_tick, allocated, flag, timeout_tick, init_tick, user_timer,
                     handle, op_timer, stopped, cb_op, cb_timer, entry_pc, next_timeout,
                     current_tick, t, overlooked>>
  BY DEF StopTimerRemove, Overtaken, fields, callback, thread
<1>2. h \in Objects /\ h # Null /\ entry_pc # "clear" /\ (u \notin high => t = Null)
  BY <1>1, AloneWithTimer, NotWhileClearing, SoftTimerAssumption DEF CallsHeld, Changing
<1>3. rt_soft_timer_list' \in Seq(Objects) /\ Linked' = Linked \ {h} /\ ListSorted'
  BY <1>1, RemovesOne
<1> HIDE DEF h
<1>4. TimerTypeOK'
  BY <1>1, <1>3 DEF h, TimerTypeOK
<1>5. AllInTime'
  <2>1. \A v \in Owners : op'[v] = "start_insert" => InTime(timeout_tick'[op_timer'[v]])
    BY <1>1 DEF AllInTime, TimerTypeOK
  <2> QED  BY <1>1, <1>3, <2>1, TimesKept DEF AllInTime
<1>6. ThreadWorksOn'
  BY <1>1, <1>3 DEF ThreadWorksOn
<1>7. FlagsHeld' /\ HandlesHeld'
  BY <1>1 DEF FlagsHeld, HandlesHeld
<1>8. CallsHeld'
  BY <1>1, <1>2, <1>3 DEF h, TimerTypeOK, CallsHeld, Changing, MayBeOvertaken
<1>9. ActiveHeld'
  BY <1>1, <1>3 DEF ActiveHeld, Keeps
<1> QED  BY <1>1, <1>3, <1>4, <1>5, <1>6, <1>7, <1>8, <1>9

LEMMA StopTimerClearKeeps ==
  ASSUME TimerInv, UNCHANGED high, NEW u \in Owners, StopTimerClear(u)
  PROVE  TimerInv'
<1> DEFINE h == handle[u]
<1> USE DEF TimerInv, Pointers
<1>1. /\ OwnerRuns(u) /\ op[u] = "stop_clear" /\ op_timer[u] = h
      /\ h \in allocated /\ h \notin Linked /\ user_timer[h] = u
  BY DEF StopTimerClear, CallsHeld, HandlesHeld, Changing
<1>2. /\ flag' = [flag EXCEPT ![h] = @ \ {"ACTIVATED"}]
      /\ op' = [op EXCEPT ![u] = "idle"]
      /\ op_timer' = [op_timer EXCEPT ![u] = Null]
      /\ stopped' = stopped \cup {u}
      /\ UNCHANGED <<high, rt_tick, rt_soft_timer_list, allocated, timeout_tick, init_tick,
                     user_timer, handle, cb_op, cb_timer, entry_pc, next_timeout,
                     current_tick, t, overlooked>>
      /\ Linked' = Linked
  BY <1>1 DEF StopTimerClear, callback, thread, Linked
<1>3. (u \notin high => t = Null /\ cb_op = "idle") /\ entry_pc # "clear"
  BY <1>1, AloneWithTimer, NotWhileClearing
<1> HIDE DEF h
<1>4. TimerTypeOK'
  BY <1>1, <1>2 DEF TimerTypeOK
<1>5. AllInTime'
  <2>1. \A v \in Owners : op'[v] = "start_insert" => InTime(timeout_tick'[op_timer'[v]])
    BY <1>2 DEF AllInTime, TimerTypeOK
  <2> QED  BY <1>2, <2>1, TimesKept DEF AllInTime
<1>6. ListSorted'
  BY <1>2 DEF ListSorted, Reached, Diff
<1>7. ThreadWorksOn'
  BY <1>1, <1>2, <1>3 DEF TimerTypeOK, ThreadWorksOn
<1>8. FlagsHeld' /\ HandlesHeld'
  BY <1>1, <1>2 DEF TimerTypeOK, FlagsHeld, HandlesHeld
<1>9. CallsHeld'
  BY <1>1, <1>2 DEF h, TimerTypeOK, CallsHeld, Changing, MayBeOvertaken
<1>10. ActiveHeld'
  BY <1>1, <1>2 DEF TimerTypeOK, ActiveHeld, Keeps
<1> QED  BY <1>1, <1>2, <1>4, <1>5, <1>6, <1>7, <1>8, <1>9, <1>10


\* The kernel timer is left to the timer thread, which runs its function.
LEMMA DeinitPendingKeeps ==
  ASSUME TimerInv, UNCHANGED high, NEW u \in Owners, DeinitOneshotTimer(u),
         "RUNNING" \in flag[handle[u]]
  PROVE  TimerInv'
<1> DEFINE h == handle[u]
<1> USE DEF TimerInv, Pointers
<1>1. /\ OwnerRuns(u) /\ op[u] = "idle" /\ h # Null /\ h \notin Linked
      /\ handle' = [handle EXCEPT ![u] = Null]
      /\ flag' = [flag EXCEPT ![h] = @ \cup {"FREE_PENDING"}]
      /\ stopped' = stopped \ {u}
      /\ UNCHANGED <<high, rt_tick, rt_soft_timer_list, allocated, timeout_tick, init_tick,
                     user_timer, op, op_timer, cb_op, cb_timer, entry_pc, next_timeout,
                     current_tick, t, overlooked>>
      /\ Linked' = Linked
  BY DEF DeinitOneshotTimer, MayDeinit, DeinitOneshot, Forget, callback, thread, Linked
<1>2. h = t /\ h \in Objects /\ h \in allocated /\ user_timer[h] = u
  BY <1>1 DEF FlagsHeld, HandlesHeld, TimerTypeOK
<1>3. u \in high /\ entry_pc # "clear"
  BY <1>1, <1>2, AloneWithTimer, NotWhileClearing
<1>4. h \notin Linked
  BY <1>1
<1> HIDE DEF h
<1>5. TimerTypeOK'
  BY <1>1, <1>2 DEF TimerTypeOK, Flags
<1>6. AllInTime'
  BY <1>1, TimesKept DEF AllInTime
<1>7. ListSorted'
  BY <1>1 DEF ListSorted, Reached, Diff
<1>8. ThreadWorksOn'
  BY <1>1, <1>2, <1>3 DEF TimerTypeOK, ThreadWorksOn
<1>9. FlagsHeld'
  BY <1>1, <1>2 DEF TimerTypeOK, FlagsHeld
<1>10. HandlesHeld'
  BY <1>1, <1>2, <1>3 DEF h, TimerTypeOK, HandlesHeld
<1>11. CallsHeld'
  BY <1>1, <1>2 DEF TimerTypeOK, CallsHeld, Changing, MayBeOvertaken
<1>12. ActiveHeld'
  BY <1>1, <1>2, <1>4 DEF TimerTypeOK, ActiveHeld, Keeps
<1> QED  BY <1>1, <1>5, <1>6, <1>7, <1>8, <1>9, <1>10, <1>11, <1>12

\* The kernel timer is deleted at once.
LEMMA DeinitFreeKeeps ==
  ASSUME TimerInv, UNCHANGED high, NEW u \in Owners, DeinitOneshotTimer(u),
         "RUNNING" \notin flag[handle[u]]
  PROVE  TimerInv'
<1> DEFINE h == handle[u]
<1> USE DEF TimerInv, Pointers
<1>1. /\ OwnerRuns(u) /\ op[u] = "idle" /\ h # Null
      /\ handle' = [handle EXCEPT ![u] = Null]
      /\ rt_soft_timer_list' = Removed(rt_soft_timer_list, h)
      /\ allocated' = allocated \ {h}
      /\ flag' = [flag EXCEPT ![h] = {}]
      /\ timeout_tick' = [timeout_tick EXCEPT ![h] = 0]
      /\ user_timer' = [user_timer EXCEPT ![h] = Null]
      /\ stopped' = stopped \ {u}
      /\ UNCHANGED <<high, rt_tick, init_tick, op, op_timer, cb_op, cb_timer, entry_pc,
                     next_timeout, current_tick, t, overlooked>>
  BY DEF DeinitOneshotTimer, MayDeinit, DeinitOneshot, Free, Unowned, Forget, callback, thread
<1>2. /\ h \in Objects /\ h \in allocated /\ user_timer[h] = u
      /\ t # Null => h # t
      /\ entry_pc # "clear"
      /\ \A v \in Owners \ {u} : handle[v] # h
  BY <1>1, NotWhileClearing DEF ThreadWorksOn, HandlesHeld, TimerTypeOK
<1>3. rt_soft_timer_list' \in Seq(Objects) /\ Linked' = Linked \ {h} /\ ListSorted'
  <2>1. \A x \in Linked \ {h} : timeout_tick'[x] = timeout_tick[x]
    BY <1>1 DEF TimerTypeOK
  <2> QED  BY <1>1, <2>1, RemovesOne
<1>4. 0 \in Ticks
  BY Widths DEF Ticks
<1> HIDE DEF h
<1>5. TimerTypeOK'
  BY <1>1, <1>2, <1>3, <1>4 DEF TimerTypeOK
<1>6. AllInTime'
  <2>1. \A x \in Linked' : InTime(timeout_tick'[x])
    BY <1>1, <1>2, <1>3 DEF AllInTime, TimerTypeOK
  <2>2. \A v \in Owners : op'[v] = "start_insert" => InTime(timeout_tick'[op_timer'[v]])
    BY <1>1, <1>2 DEF h, AllInTime, TimerTypeOK, CallsHeld, Changing, MayBeOvertaken
  <2>3. cb_op' = "start_insert" => InTime(timeout_tick'[cb_timer'])
    BY <1>1, <1>2 DEF AllInTime, TimerTypeOK, ThreadWorksOn
  <2> QED  BY <1>1, <2>1, <2>2, <2>3, TimesKept
<1>7. ThreadWorksOn'
  BY <1>1, <1>2, <1>3 DEF h, TimerTypeOK, ThreadWorksOn
<1>8. FlagsHeld'
  BY <1>1, <1>2 DEF TimerTypeOK, FlagsHeld
<1>9. HandlesHeld'
  BY <1>1, <1>2 DEF h, TimerTypeOK, HandlesHeld
<1>10. CallsHeld'
  BY <1>1, <1>2, <1>3 DEF h, TimerTypeOK, CallsHeld, Changing, MayBeOvertaken
<1>11. ActiveHeld'
  BY <1>1, <1>2, <1>3 DEF TimerTypeOK, ActiveHeld, Keeps
<1> QED  BY <1>1, <1>2, <1>3, <1>5, <1>6, <1>7, <1>8, <1>9, <1>10, <1>11

LEMMA DeinitTimerKeeps ==
  ASSUME TimerInv, UNCHANGED high, NEW u \in Owners, DeinitTimer(u)
  PROVE  TimerInv'
<1> DEFINE h == handle[u]
<1> USE DEF TimerInv, Pointers
<1>1. /\ OwnerRuns(u) /\ op[u] = "idle" /\ h # Null /\ t # h
      /\ rt_soft_timer_list' = Removed(rt_soft_timer_list, h)
      /\ op' = [op EXCEPT ![u] = "delete_free"]
      /\ op_timer' = [op_timer EXCEPT ![u] = h]
      /\ UNCHANGED <<high, rt_tick, allocated, flag, timeout_tick, init_tick, user_timer,
                     handle, stopped, cb_op, cb_timer, entry_pc, next_timeout, current_tick, t, overlooked>>
  BY DEF DeinitTimer, MayDeinit, fields, callback, thread
<1>2. rt_soft_timer_list' \in Seq(Objects) /\ Linked' = Linked \ {h} /\ ListSorted'
  BY <1>1, RemovesOne
<1> HIDE DEF h
<1>3. TimerTypeOK'
  BY <1>1, <1>2 DEF h, TimerTypeOK
<1>4. AllInTime'
  <2>1. \A v \in Owners : op'[v] = "start_insert" => InTime(timeout_tick'[op_timer'[v]])
    BY <1>1 DEF AllInTime, TimerTypeOK
  <2> QED  BY <1>1, <1>2, <2>1, TimesKept DEF AllInTime
<1>5. ThreadWorksOn'
  BY <1>1, <1>2 DEF ThreadWorksOn
<1>6. FlagsHeld' /\ HandlesHeld'
  BY <1>1 DEF FlagsHeld, HandlesHeld
<1>7. CallsHeld'
  BY <1>1, <1>2 DEF h, TimerTypeOK, CallsHeld, Changing, MayBeOvertaken
<1>8. ActiveHeld'
  BY <1>1, <1>2 DEF ActiveHeld, Keeps
<1> QED  BY <1>1, <1>2, <1>3, <1>4, <1>5, <1>6, <1>7, <1>8

LEMMA DeinitTimerFreeKeeps ==
  ASSUME TimerInv, UNCHANGED high, NEW u \in Owners, DeinitTimerFree(u)
  PROVE  TimerInv'
<1> DEFINE h == handle[u]
<1> USE DEF TimerInv, Pointers
<1>1. /\ op[u] = "delete_free" /\ op_timer[u] = h /\ h # Null /\ h # t
      /\ h \in Objects /\ h \in allocated /\ h \notin Linked /\ user_timer[h] = u
      /\ \A v \in Owners \ {u} : handle[v] # h
      /\ entry_pc # "clear"
  BY NotWhileClearing DEF DeinitTimerFree, CallsHeld, Changing, MayBeOvertaken, HandlesHeld, TimerTypeOK, Changing
<1>2. /\ handle' = [handle EXCEPT ![u] = Null]
      /\ allocated' = allocated \ {h}
      /\ flag' = [flag EXCEPT ![h] = {}]
      /\ timeout_tick' = [timeout_tick EXCEPT ![h] = 0]
      /\ user_timer' = [user_timer EXCEPT ![h] = Null]
      /\ op' = [op EXCEPT ![u] = "idle"]
      /\ op_timer' = [op_timer EXCEPT ![u] = Null]
      /\ stopped' = stopped \ {u}
      /\ UNCHANGED <<high, rt_tick, rt_soft_timer_list, init_tick, cb_op, cb_timer, entry_pc,
                     next_timeout, current_tick, t, overlooked>>
      /\ Linked' = Linked
  BY <1>1 DEF DeinitTimerFree, Free, Unowned, Forget, callback, thread, Linked
<1>3. ListSorted'
  <2>1. \A i \in DOMAIN rt_soft_timer_list : rt_soft_timer_list[i] \in Objects \ {h}
    BY <1>1 DEF Linked, ToSet, TimerTypeOK
  <2>2. \A i \in DOMAIN rt_soft_timer_list :
          timeout_tick'[rt_soft_timer_list[i]] = timeout_tick[rt_soft_timer_list[i]]
    BY <1>2, <2>1 DEF TimerTypeOK
  <2> QED  BY <1>2, <2>2 DEF ListSorted, Reached, Diff
<1>4. 0 \in Ticks
  BY Widths DEF Ticks
<1> HIDE DEF h
<1>5. TimerTypeOK'
  BY <1>1, <1>2, <1>4 DEF TimerTypeOK
<1>6. AllInTime'
  <2>1. \A x \in Linked' : InTime(timeout_tick'[x])
    BY <1>1, <1>2 DEF AllInTime, TimerTypeOK
  <2>2. \A v \in Owners : op'[v] = "start_insert" => InTime(timeout_tick'[op_timer'[v]])
    BY <1>1, <1>2 DEF h, AllInTime, TimerTypeOK, CallsHeld, Changing, MayBeOvertaken
  <2>3. cb_op' = "start_insert" => InTime(timeout_tick'[cb_timer'])
    BY <1>1, <1>2 DEF AllInTime, TimerTypeOK, ThreadWorksOn
  <2> QED  BY <1>2, <2>1, <2>2, <2>3, TimesKept
<1>7. ThreadWorksOn'
  BY <1>1, <1>2 DEF h, TimerTypeOK, ThreadWorksOn
<1>8. FlagsHeld'
  BY <1>1, <1>2 DEF TimerTypeOK, FlagsHeld
<1>9. HandlesHeld'
  BY <1>1, <1>2 DEF h, TimerTypeOK, HandlesHeld
<1>10. CallsHeld'
  BY <1>1, <1>2 DEF h, TimerTypeOK, CallsHeld, Changing, MayBeOvertaken
<1>11. ActiveHeld'
  BY <1>1, <1>2 DEF TimerTypeOK, ActiveHeld, Keeps
<1> QED  BY <1>1, <1>2, <1>3, <1>5, <1>6, <1>7, <1>8, <1>9, <1>10, <1>11


-----------------------------------------------------------------------------
(* What timer functions do *)

\* Who the timer thread works for while a function runs.
LEMMA CallbackIs ==
  ASSUME TimerInv, NEW what, CallbackRuns(what)
  PROVE  /\ entry_pc = "function" /\ cb_op = "idle"
         /\ t \in Objects /\ t \in allocated /\ "RUNNING" \in flag[t]
         /\ user_timer[t] \in Owners /\ user_timer[t] \notin high
         /\ handle[user_timer[t]] = t
         /\ "FREE_PENDING" \notin flag[t]
         /\ \A v \in Owners : op[v] \in Changing => op_timer[v] # t
<1> USE DEF TimerInv, Pointers
<1>1. /\ TimerThreadRuns /\ entry_pc = "function" /\ cb_op = "idle"
      /\ user_timer[t] \notin high /\ handle[user_timer[t]] # Null
  BY DEF CallbackRuns
<1>2. t \in Objects /\ t \in allocated /\ "RUNNING" \in flag[t]
  BY <1>1, SoftTimerAssumption DEF ThreadWorksOn, TimerTypeOK
<1>3. user_timer[t] \in Owners /\ handle[user_timer[t]] = t
  BY <1>1, <1>2 DEF HandlesHeld
<1>4. "FREE_PENDING" \notin flag[t]
  BY <1>1, <1>3 DEF HandlesHeld
<1>5. \A v \in Owners : op[v] \in Changing => op_timer[v] # t
  BY <1>1 DEF TimerThreadRuns, CallsHeld, Changing, MayBeOvertaken
<1> QED  BY <1>1, <1>2, <1>3, <1>4, <1>5

LEMMA CallbackStartKeeps ==
  ASSUME TimerInv, UNCHANGED high, CallbackStart
  PROVE  TimerInv'
<1> DEFINE u == user_timer[t]
<1> USE DEF TimerInv, Pointers
<1>1. CallbackRuns("start") /\ "start" \in CallbackOps
  BY DEF CallbackStart, CallbackRuns
<1>2. /\ entry_pc = "function" /\ cb_op = "idle" /\ t \in Objects
      /\ t \in allocated /\ u \in Owners /\ u \notin high /\ handle[u] = t
      /\ \A v \in Owners : op[v] \in Changing => op_timer[v] # t
  BY <1>1, CallbackIs
<1>3. /\ rt_soft_timer_list' = Removed(rt_soft_timer_list, t)
      /\ flag' = [flag EXCEPT ![t] = @ \ {"ACTIVATED"}]
      /\ timeout_tick' = [timeout_tick EXCEPT ![t] = Later(init_tick[t])]
      /\ cb_op' = "start_insert" /\ cb_timer' = t
      /\ stopped' = stopped \ {u}
      /\ UNCHANGED <<high, rt_tick, allocated, init_tick, user_timer, handle, op, op_timer,
                     entry_pc, next_timeout, current_tick, t, overlooked>>
  BY <1>2 DEF CallbackStart, StartRemove, thread
<1>4. Later(init_tick[t]) \in Ticks /\ InTime(Later(init_tick[t]))
  BY <1>2, StartedInTime DEF TimerTypeOK
<1>5. rt_soft_timer_list' \in Seq(Objects) /\ Linked' = Linked \ {t} /\ ListSorted'
  <2>1. \A x \in Linked \ {t} : timeout_tick'[x] = timeout_tick[x]
    BY <1>3 DEF TimerTypeOK
  <2> QED  BY <1>3, <2>1, RemovesOne
<1> HIDE DEF u
<1>6. TimerTypeOK'
  BY <1>2, <1>3, <1>4, <1>5 DEF TimerTypeOK
<1>7. AllInTime'
  <2>1. \A x \in Linked' : InTime(timeout_tick'[x])
    <3>1. \A x \in Linked : x \in Objects /\ InTime(timeout_tick[x])
      BY DEF AllInTime, TimerTypeOK
    <3> QED  BY <1>3, <1>5, <3>1 DEF TimerTypeOK
  <2>2. \A v \in Owners : op'[v] = "start_insert" => InTime(timeout_tick'[op_timer'[v]])
    BY <1>2, <1>3 DEF AllInTime, TimerTypeOK, CallsHeld, Changing, MayBeOvertaken
  <2>3. InTime(timeout_tick'[cb_timer'])
    BY <1>2, <1>3, <1>4 DEF TimerTypeOK
  <2> QED  BY <1>3, <2>1, <2>2, <2>3, TimesKept
<1>8. ThreadWorksOn'
  BY <1>1, <1>2, <1>3, <1>5 DEF u, TimerTypeOK, ThreadWorksOn
<1>9. FlagsHeld' /\ HandlesHeld'
  BY <1>2, <1>3 DEF TimerTypeOK, FlagsHeld, HandlesHeld
<1>10. CallsHeld'
  BY <1>2, <1>3, <1>5 DEF TimerTypeOK, CallsHeld, Changing, MayBeOvertaken
<1>11. ActiveHeld'
  BY <1>2, <1>3, <1>5 DEF TimerTypeOK, ActiveHeld, Keeps
<1> QED  BY <1>2, <1>3, <1>5, <1>6, <1>7, <1>8, <1>9, <1>10, <1>11

\* The timer that a function starts or stops is that of its owner, who is not
\* in a call.
LEMMA InCallbackIs ==
  ASSUME TimerInv, TimerThreadRuns, cb_op # "idle"
  PROVE  /\ entry_pc = "function" /\ cb_timer = t
         /\ t \in Objects /\ t \in allocated /\ t \notin Linked
         /\ user_timer[t] \in Owners /\ user_timer[t] \notin high
         /\ handle[user_timer[t]] = t
         /\ "FREE_PENDING" \notin flag[t]
         /\ \A v \in Owners : op[v] \in Changing => op_timer[v] # t
<1> USE DEF TimerInv, Pointers
<1>1. /\ entry_pc = "function" /\ cb_timer = t /\ t \notin Linked
      /\ user_timer[t] \notin high /\ handle[user_timer[t]] = t
  BY DEF ThreadWorksOn
<1>2. t \in Objects /\ t \in allocated /\ t # Null
  BY <1>1, SoftTimerAssumption DEF ThreadWorksOn, TimerTypeOK
<1>3. user_timer[t] \in Owners /\ "FREE_PENDING" \notin flag[t]
  BY <1>1, <1>2 DEF HandlesHeld
<1>4. \A v \in Owners : op[v] \in Changing => op_timer[v] # t
  BY DEF TimerThreadRuns, CallsHeld, Changing, MayBeOvertaken
<1> QED  BY <1>1, <1>2, <1>3, <1>4

LEMMA CallbackStartInsertKeeps ==
  ASSUME TimerInv, UNCHANGED high, CallbackStartInsert
  PROVE  TimerInv'
<1> USE DEF TimerInv, Pointers
<1>1. TimerThreadRuns /\ cb_op = "start_insert"
  BY DEF CallbackStartInsert
<1>2. /\ entry_pc = "function" /\ cb_timer = t
      /\ t \in Objects /\ t \in allocated /\ t \notin Linked
      /\ user_timer[t] \in Owners /\ handle[user_timer[t]] = t
      /\ "FREE_PENDING" \notin flag[t]
      /\ \A v \in Owners : op[v] \in Changing => op_timer[v] # t
      /\ user_timer[t] \notin stopped /\ "start" \in CallbackOps
  BY <1>1, InCallbackIs DEF ThreadWorksOn
<1>3. /\ rt_soft_timer_list' = Inserted(rt_soft_timer_list, t, timeout_tick)
      /\ flag' = [flag EXCEPT ![t] = @ \cup {"ACTIVATED"}]
      /\ cb_op' = "idle" /\ cb_timer' = Null
      /\ UNCHANGED <<high, rt_tick, allocated, timeout_tick, init_tick, user_timer, handle,
                     op, op_timer, stopped, entry_pc, next_timeout, current_tick, t, overlooked>>
  BY <1>2 DEF CallbackStartInsert, StartInsert, owned, thread
<1>4. InTime(timeout_tick[t])
  BY <1>1, <1>2 DEF AllInTime
<1>5. rt_soft_timer_list' \in Seq(Objects) /\ Linked' = Linked \cup {t} /\ ListSorted'
  BY <1>2, <1>3, <1>4, InsertsUnlinked
<1>6. TimerTypeOK'
  BY <1>2, <1>3, <1>5 DEF TimerTypeOK, Flags
<1>7. AllInTime'
  BY <1>3, <1>4, <1>5, TimesKept DEF AllInTime
<1>8. ThreadWorksOn'
  BY <1>2, <1>3 DEF TimerTypeOK, ThreadWorksOn
<1>9. FlagsHeld' /\ HandlesHeld'
  BY <1>2, <1>3 DEF TimerTypeOK, FlagsHeld, HandlesHeld
<1>10. CallsHeld'
  BY <1>2, <1>3, <1>5 DEF TimerTypeOK, CallsHeld, Changing, MayBeOvertaken, HandlesHeld
<1>11. ActiveHeld'
  BY <1>2, <1>3, <1>5 DEF TimerTypeOK, ActiveHeld, Keeps
<1> QED  BY <1>2, <1>3, <1>5, <1>6, <1>7, <1>8, <1>9, <1>10, <1>11

LEMMA CallbackStopRefusedKeeps ==
  ASSUME TimerInv, UNCHANGED high, CallbackStopRefused
  PROVE  TimerInv'
<1> DEFINE u == user_timer[t]
<1> USE DEF TimerInv, Pointers
<1>1. CallbackRuns("stop") /\ "ACTIVATED" \notin flag[handle[u]]
  BY DEF CallbackStopRefused
<1>2. /\ cb_op = "idle" /\ u \in Owners /\ handle[u] = t
      /\ \A v \in Owners : op[v] \in Changing => op_timer[v] # t
  BY <1>1, CallbackIs
<1>3. /\ stopped' = stopped \cup {u}
      /\ UNCHANGED <<high, rt_tick, rt_soft_timer_list, allocated, flag, timeout_tick,
                     init_tick, user_timer, handle, op, op_timer, cb_op, cb_timer, entry_pc,
                     next_timeout, current_tick, t, overlooked>>
      /\ Linked' = Linked
  BY DEF CallbackStopRefused, fields, callback, thread, Linked
<1> HIDE DEF u
<1>4. TimerTypeOK'
  BY <1>2, <1>3 DEF TimerTypeOK
<1>5. AllInTime'
  BY <1>3, TimesKept DEF AllInTime
<1>6. ListSorted'
  BY <1>3 DEF ListSorted, Reached, Diff
<1>7. ThreadWorksOn'
  BY <1>2, <1>3 DEF TimerTypeOK, ThreadWorksOn
<1>8. FlagsHeld' /\ HandlesHeld'
  BY <1>3 DEF FlagsHeld, HandlesHeld
<1>9. CallsHeld'
  BY <1>1, <1>2, <1>3 DEF TimerTypeOK, CallsHeld, Changing, MayBeOvertaken
<1>10. ActiveHeld'
  BY <1>3 DEF ActiveHeld, Keeps
<1> QED  BY <1>3, <1>4, <1>5, <1>6, <1>7, <1>8, <1>9, <1>10

LEMMA CallbackStopKeeps ==
  ASSUME TimerInv, UNCHANGED high, CallbackStop
  PROVE  TimerInv'
<1> USE DEF TimerInv, Pointers
<1>1. CallbackRuns("stop")
  BY DEF CallbackStop
<1>2. /\ entry_pc = "function" /\ t \in Objects
      /\ user_timer[t] \notin high /\ handle[user_timer[t]] = t
  BY <1>1, CallbackIs
<1>3. /\ rt_soft_timer_list' = Removed(rt_soft_timer_list, t)
      /\ cb_op' = "stop_clear" /\ cb_timer' = t
      /\ UNCHANGED <<high, rt_tick, allocated, flag, timeout_tick, init_tick, user_timer,
                     handle, op, op_timer, stopped, entry_pc, next_timeout, current_tick, t, overlooked>>
  BY <1>2 DEF CallbackStop, fields, owned, thread
<1>4. rt_soft_timer_list' \in Seq(Objects) /\ Linked' = Linked \ {t} /\ ListSorted'
  BY <1>3, RemovesOne
<1>5. TimerTypeOK'
  BY <1>2, <1>3, <1>4 DEF TimerTypeOK
<1>6. AllInTime'
  BY <1>3, <1>4, TimesKept DEF AllInTime
<1>7. ThreadWorksOn'
  BY <1>2, <1>3, <1>4 DEF ThreadWorksOn
<1>8. FlagsHeld' /\ HandlesHeld'
  BY <1>3 DEF FlagsHeld, HandlesHeld
<1>9. CallsHeld'
  BY <1>3, <1>4 DEF CallsHeld, Changing, MayBeOvertaken
<1>10. ActiveHeld'
  BY <1>3, <1>4 DEF ActiveHeld, Keeps
<1> QED  BY <1>3, <1>4, <1>5, <1>6, <1>7, <1>8, <1>9, <1>10

LEMMA CallbackStopClearKeeps ==
  ASSUME TimerInv, UNCHANGED high, CallbackStopClear
  PROVE  TimerInv'
<1> DEFINE u == user_timer[t]
<1> USE DEF TimerInv, Pointers
<1>1. TimerThreadRuns /\ cb_op = "stop_clear"
  BY DEF CallbackStopClear
<1>2. /\ cb_timer = t /\ t \in Objects /\ t \notin Linked /\ u \in Owners /\ handle[u] = t
      /\ \A v \in Owners : op[v] \in Changing => op_timer[v] # t
  BY <1>1, InCallbackIs
<1>3. /\ flag' = [flag EXCEPT ![t] = @ \ {"ACTIVATED"}]
      /\ cb_op' = "idle" /\ cb_timer' = Null
      /\ stopped' = stopped \cup {u}
      /\ UNCHANGED <<high, rt_tick, rt_soft_timer_list, allocated, timeout_tick, init_tick,
                     user_timer, handle, op, op_timer, entry_pc, next_timeout, current_tick,
                     t, overlooked>>
      /\ Linked' = Linked
  BY <1>2 DEF CallbackStopClear, thread, Linked
<1> HIDE DEF u
<1>4. TimerTypeOK'
  BY <1>2, <1>3 DEF TimerTypeOK
<1>5. AllInTime'
  BY <1>3, TimesKept DEF AllInTime
<1>6. ListSorted'
  BY <1>3 DEF ListSorted, Reached, Diff
<1>7. ThreadWorksOn'
  BY <1>2, <1>3 DEF TimerTypeOK, ThreadWorksOn
<1>8. FlagsHeld' /\ HandlesHeld'
  BY <1>2, <1>3 DEF TimerTypeOK, FlagsHeld, HandlesHeld
<1>9. CallsHeld'
  BY <1>2, <1>3 DEF TimerTypeOK, CallsHeld, Changing, MayBeOvertaken
<1>10. ActiveHeld'
  BY <1>2, <1>3 DEF TimerTypeOK, ActiveHeld, Keeps
<1> QED  BY <1>3, <1>4, <1>5, <1>6, <1>7, <1>8, <1>9, <1>10

LEMMA CallbackDeinitKeeps ==
  ASSUME TimerInv, UNCHANGED high, CallbackDeinit
  PROVE  TimerInv'
<1> DEFINE u == user_timer[t]
<1> USE DEF TimerInv, Pointers
<1>1. /\ CallbackRuns("deinit") /\ t \notin Linked
      /\ "deinit" \in CallbackOps /\ u \notin Periodic
  BY DEF CallbackDeinit, CallbackRuns
<1>2. /\ cb_op = "idle" /\ t \in Objects /\ t \in allocated /\ "RUNNING" \in flag[t]
      /\ u \in Owners /\ u \notin high /\ handle[u] = t
      /\ \A v \in Owners : op[v] \in Changing => op_timer[v] # t
  BY <1>1, CallbackIs
<1>3. /\ handle' = [handle EXCEPT ![u] = Null]
      /\ flag' = [flag EXCEPT ![t] = @ \cup {"FREE_PENDING"}]
      /\ stopped' = stopped \ {u}
      /\ UNCHANGED <<high, rt_tick, rt_soft_timer_list, allocated, timeout_tick, init_tick,
                     user_timer, op, op_timer, cb_op, cb_timer, entry_pc, next_timeout,
                     current_tick, t, overlooked>>
      /\ Linked' = Linked
  BY <1>2 DEF CallbackDeinit, DeinitOneshot, Forget, callback, thread, Linked
<1> HIDE DEF u
<1>4. TimerTypeOK'
  BY <1>2, <1>3 DEF TimerTypeOK, Flags
<1>5. AllInTime'
  BY <1>3, TimesKept DEF AllInTime
<1>6. ListSorted'
  BY <1>3 DEF ListSorted, Reached, Diff
<1>7. ThreadWorksOn'
  BY <1>2, <1>3 DEF TimerTypeOK, ThreadWorksOn
<1>8. FlagsHeld'
  BY <1>2, <1>3 DEF TimerTypeOK, FlagsHeld
<1>9. HandlesHeld'
  BY <1>2, <1>3 DEF u, TimerTypeOK, HandlesHeld
<1>10. CallsHeld'
  BY <1>1, <1>2, <1>3 DEF u, TimerTypeOK, CallsHeld, Changing, MayBeOvertaken
<1>11. ActiveHeld'
  BY <1>1, <1>2, <1>3 DEF TimerTypeOK, ActiveHeld, Keeps
<1> QED  BY <1>3, <1>4, <1>5, <1>6, <1>7, <1>8, <1>9, <1>10, <1>11


-----------------------------------------------------------------------------
(* What the timer thread does *)

\* Most of its steps only say where it is and what it has read.
LEMMA ThreadMovesKeeps ==
  ASSUME TimerInv,
         UNCHANGED <<high, rt_tick, rt_soft_timer_list, allocated, flag, timeout_tick, init_tick,
                     user_timer, handle, op, op_timer, stopped, cb_op, cb_timer, t>>,
         entry_pc' \in {"next", "decide", "suspended", "sleeping", "check", "lock", "locked",
                       "function", "returned", "clear"},
         next_timeout' \in Ticks, current_tick' \in Ticks, overlooked' \in BOOLEAN,
         entry_pc' \in {"function", "returned"} <=> entry_pc \in {"function", "returned"},
         entry_pc' = "clear" <=> entry_pc = "clear",
         cb_op # "idle" => entry_pc' = entry_pc
  PROVE  TimerInv'
<1> USE DEF TimerInv, Pointers
<1>1. Linked' = Linked
  BY DEF Linked
<1>2. TimerTypeOK'
  BY DEF TimerTypeOK
<1>3. AllInTime'
  BY <1>1, TimesKept DEF AllInTime
<1>4. ListSorted'
  BY DEF ListSorted, Reached, Diff
<1>5. ThreadWorksOn'
  BY <1>1 DEF ThreadWorksOn
<1>6. FlagsHeld' /\ HandlesHeld'
  BY DEF FlagsHeld, HandlesHeld
<1>7. CallsHeld' /\ ActiveHeld'
  BY <1>1 DEF CallsHeld, Changing, MayBeOvertaken, ActiveHeld, Keeps
<1> QED  BY <1>1, <1>2, <1>3, <1>4, <1>5, <1>6, <1>7

LEMMA SleepKeeps ==
  ASSUME TimerInv, UNCHANGED high,
         \/ ReadNextTimeout \/ SuspendSelf \/ Delay \/ NoDelay
         \/ ReadCurrentTick \/ CheckDone \/ FunctionReturns
  PROVE  TimerInv'
<1> USE DEF fields, owned, callback
<1>1. TimerTypeOK /\ ThreadWorksOn
  BY DEF TimerInv, Pointers
<1>2. rt_tick \in Ticks /\ 0 \in Ticks /\ next_timeout \in Ticks /\ current_tick \in Ticks
      /\ overlooked \in BOOLEAN
      /\ (cb_op # "idle" => entry_pc = "function")
  BY <1>1, Widths DEF TimerTypeOK, ThreadWorksOn, Ticks
<1>3. CASE ReadNextTimeout
  <2>1. NextTimeout \in Ticks
    <3>1. CASE rt_soft_timer_list = <<>>
      BY <3>1, Widths DEF NextTimeout, Ticks
    <3>2. CASE rt_soft_timer_list # <<>>
      <4>1. Head(rt_soft_timer_list) \in Objects
        BY <3>2, <1>1 DEF TimerTypeOK
      <4> QED  BY <4>1, <3>2, <1>1 DEF NextTimeout, TimerTypeOK
    <3> QED  BY <3>1, <3>2
  <2> QED  BY <2>1, <1>2, <1>3, ThreadMovesKeeps DEF ReadNextTimeout
<1>4. CASE SuspendSelf
  BY <1>2, <1>4, ThreadMovesKeeps DEF SuspendSelf
<1>5. CASE Delay
  BY <1>2, <1>5, ThreadMovesKeeps DEF Delay
<1>6. CASE NoDelay
  BY <1>2, <1>6, ThreadMovesKeeps DEF NoDelay
<1>7. CASE ReadCurrentTick
  BY <1>2, <1>7, ThreadMovesKeeps DEF ReadCurrentTick
<1>8. CASE CheckDone
  BY <1>2, <1>8, ThreadMovesKeeps DEF CheckDone
<1>9. CASE FunctionReturns
  BY <1>2, <1>9, ThreadMovesKeeps DEF FunctionReturns
<1> QED  BY <1>3, <1>4, <1>5, <1>6, <1>7, <1>8, <1>9

LEMMA ExpireKeeps ==
  ASSUME TimerInv, UNCHANGED high, Expire
  PROVE  TimerInv'
<1> DEFINE o == Head(rt_soft_timer_list)
<1> USE DEF TimerInv, Pointers
<1>1. /\ entry_pc \in {"lock", "locked"} /\ rt_soft_timer_list # <<>>
      /\ rt_soft_timer_list' = Removed(rt_soft_timer_list, o)
      /\ flag' = [flag EXCEPT ![o] = @ \cup {"RUNNING"}]
      /\ t' = o /\ entry_pc' = "function"
      /\ UNCHANGED <<high, rt_tick, allocated, timeout_tick, init_tick, user_timer, handle, op,
                     op_timer, stopped, cb_op, cb_timer, next_timeout, overlooked>>
      /\ current_tick' = 0
  BY DEF Expire, owned, callback
<1>2. o \in Linked /\ o \in allocated /\ o \in Objects /\ o # Null
  <2>1. 1 \in DOMAIN rt_soft_timer_list /\ o = rt_soft_timer_list[1]
    BY <1>1 DEF TimerTypeOK
  <2> QED  BY <2>1, SoftTimerAssumption DEF Linked, ToSet, TimerTypeOK
<1>3. t = Null /\ cb_op = "idle" /\ \A x \in Objects : x # t
  BY <1>1, SoftTimerAssumption DEF ThreadWorksOn
<1>4. rt_soft_timer_list' \in Seq(Objects) /\ Linked' = Linked \ {o} /\ ListSorted'
  BY <1>1, RemovesOne
<1> HIDE DEF o
<1>5. TimerTypeOK'
  <2>1. 0 \in Ticks
    BY Widths DEF Ticks
  <2> QED  BY <1>1, <1>2, <1>4, <2>1 DEF TimerTypeOK, Flags
<1>6. AllInTime'
  BY <1>1, <1>4, TimesKept DEF AllInTime
<1>7. ThreadWorksOn'
  BY <1>1, <1>2, <1>3, <1>4 DEF TimerTypeOK, ThreadWorksOn
<1>8. FlagsHeld' /\ HandlesHeld'
  BY <1>1, <1>2, <1>3 DEF TimerTypeOK, FlagsHeld, HandlesHeld
<1>9. CallsHeld'
  BY <1>1, <1>2, <1>3, <1>4 DEF TimerTypeOK, CallsHeld, Changing, MayBeOvertaken
<1>10. ActiveHeld'
  BY <1>1, <1>2, <1>3, <1>4 DEF TimerTypeOK, ActiveHeld, FlagsHeld, Keeps
<1> QED  BY <1>1, <1>2, <1>4, <1>5, <1>6, <1>7, <1>8, <1>9, <1>10

\* What holds when the function has returned: no owner is in a call on the
\* timer.
LEMMA ReturnedIs ==
  ASSUME TimerInv, TimerThreadRuns, entry_pc = "returned"
  PROVE  /\ t \in Objects /\ t \in allocated /\ t # Null /\ Null \notin Linked
         /\ cb_op = "idle" /\ user_timer[t] \in Owners
         /\ \A v \in Owners : op[v] \in Changing => op_timer[v] # t
         /\ \A x \in Objects : ("RUNNING" \in flag[x] \/ "FREE_PENDING" \in flag[x]) => x = t
BY SoftTimerAssumption DEF TimerInv, Pointers, ThreadWorksOn, FlagsHeld, CallsHeld, Changing, MayBeOvertaken, HandlesHeld,
     TimerThreadRuns, TimerTypeOK

LEMMA DeletePendingKeeps ==
  ASSUME TimerInv, UNCHANGED high, DeletePending
  PROVE  TimerInv'
<1> DEFINE u == user_timer[t]
<1> USE DEF TimerInv, Pointers
<1>1. /\ TimerThreadRuns /\ entry_pc = "returned" /\ "FREE_PENDING" \in flag[t]
      /\ allocated' = allocated \ {t}
      /\ flag' = [flag EXCEPT ![t] = {}]
      /\ timeout_tick' = [timeout_tick EXCEPT ![t] = 0]
      /\ entry_pc' = "clear"
      /\ UNCHANGED <<high, rt_tick, rt_soft_timer_list, init_tick, user_timer, handle, op,
                     op_timer, stopped, cb_op, cb_timer, next_timeout, current_tick, t,
                     overlooked>>
      /\ Linked' = Linked
  BY DEF DeletePending, Free, owned, callback, Linked
<1>2. /\ t \in Objects /\ t \in allocated /\ t # Null /\ Null \notin Linked
      /\ cb_op = "idle" /\ u \in Owners
      /\ \A v \in Owners : op[v] \in Changing => op_timer[v] # t
      /\ \A x \in Objects : ("RUNNING" \in flag[x] \/ "FREE_PENDING" \in flag[x]) => x = t
  BY <1>1, ReturnedIs
<1>3. t \notin Linked /\ \A v \in Owners : handle[v] # t
  BY <1>1, <1>2 DEF ActiveHeld, HandlesHeld
<1>4. u \notin high => handle[u] = Null
  BY <1>1, <1>2, <1>3 DEF HandlesHeld
<1>5. 0 \in Ticks
  BY Widths DEF Ticks
<1> HIDE DEF u
<1>6. TimerTypeOK'
  BY <1>1, <1>2, <1>5 DEF TimerTypeOK
<1>7. AllInTime'
  <2>1. \A x \in Linked' : InTime(timeout_tick'[x])
    <3>1. \A x \in Linked : x \in Objects /\ x # t /\ InTime(timeout_tick[x])
      BY <1>3 DEF AllInTime, TimerTypeOK
    <3> QED  BY <1>1, <3>1 DEF TimerTypeOK
  <2>2. \A v \in Owners : op'[v] = "start_insert" => InTime(timeout_tick'[op_timer'[v]])
    BY <1>1, <1>2 DEF AllInTime, TimerTypeOK, CallsHeld, Changing, MayBeOvertaken
  <2>3. cb_op' = "start_insert" => InTime(timeout_tick'[cb_timer'])
    BY <1>1, <1>2
  <2> QED  BY <1>1, <2>1, <2>2, <2>3, TimesKept
<1>8. ListSorted'
  <2>1. \A i \in DOMAIN rt_soft_timer_list : rt_soft_timer_list[i] \in Objects \ {t}
    BY <1>3 DEF Linked, ToSet, TimerTypeOK
  <2>2. \A i \in DOMAIN rt_soft_timer_list :
          timeout_tick'[rt_soft_timer_list[i]] = timeout_tick[rt_soft_timer_list[i]]
    BY <1>1, <2>1 DEF TimerTypeOK
  <2> QED  BY <1>1, <2>2 DEF ListSorted, Reached, Diff
<1>9. ThreadWorksOn'
  BY <1>1, <1>2, <1>4 DEF u, TimerTypeOK, ThreadWorksOn
<1>10. FlagsHeld'
  BY <1>1, <1>2 DEF TimerTypeOK, FlagsHeld
<1>11. HandlesHeld'
  BY <1>1, <1>2, <1>3, <1>4 DEF u, TimerTypeOK, HandlesHeld
<1>12. CallsHeld'
  BY <1>1, <1>2, <1>3 DEF TimerTypeOK, CallsHeld, Changing, MayBeOvertaken
<1>13. ActiveHeld'
  BY <1>1, <1>2, <1>3 DEF TimerTypeOK, ActiveHeld, Keeps
<1> QED  BY <1>1, <1>3, <1>6, <1>7, <1>8, <1>9, <1>10, <1>11, <1>12, <1>13

LEMMA ClearOwnerKeeps ==
  ASSUME TimerInv, UNCHANGED high, ClearOwner
  PROVE  TimerInv'
<1> DEFINE u == user_timer[t]
<1> USE DEF TimerInv, Pointers
<1>1. /\ TimerThreadRuns /\ entry_pc = "clear"
      /\ handle' = [handle EXCEPT ![u] = Null]
      /\ user_timer' = [user_timer EXCEPT ![t] = Null]
      /\ t' = Null /\ entry_pc' = "locked"
      /\ UNCHANGED <<high, rt_tick, rt_soft_timer_list, allocated, flag, timeout_tick,
                     init_tick, op, op_timer, stopped, cb_op, cb_timer, next_timeout,
                     current_tick, overlooked>>
      /\ Linked' = Linked
  BY DEF ClearOwner, Unowned, Forget, callback, Linked
<1>2. /\ t \in Objects /\ t \notin allocated /\ t \notin Linked /\ Null \notin Linked
      /\ cb_op = "idle" /\ cb_timer = Null /\ u \in Owners
      /\ u \notin high => handle[u] = Null
      /\ u \in high => op[u] = "idle"
  BY <1>1, SoftTimerAssumption DEF ThreadWorksOn, TimerTypeOK, TimerThreadRuns
<1>3. \A x \in Objects : "RUNNING" \notin flag[x] /\ "FREE_PENDING" \notin flag[x]
  BY <1>2 DEF FlagsHeld
<1> HIDE DEF u
<1>4. TimerTypeOK'
  BY <1>1, <1>2 DEF TimerTypeOK
<1>5. AllInTime'
  BY <1>1, TimesKept DEF AllInTime
<1>6. ListSorted'
  BY <1>1 DEF ListSorted, Reached, Diff
<1>7. ThreadWorksOn'
  BY <1>1, <1>2 DEF ThreadWorksOn
<1>8. FlagsHeld'
  BY <1>1, <1>3 DEF FlagsHeld
<1>9. HandlesHeld'
  BY <1>1, <1>2 DEF TimerTypeOK, HandlesHeld
<1>10. CallsHeld'
  <2>1. ASSUME NEW v \in Owners  PROVE v = u \/ handle'[v] = handle[v]
    BY <1>1 DEF TimerTypeOK
  <2>2. handle'[u] = Null
    BY <1>1, <1>2 DEF TimerTypeOK
  <2>3. op[u] \notin Changing
    BY <1>2 DEF CallsHeld, Changing
  <2>4. \A v \in Owners : op[v] \in Changing => op_timer[v] # Null
    BY DEF CallsHeld, Changing, MayBeOvertaken
  <2> QED  BY <1>1, <1>2, <2>1, <2>2, <2>3, <2>4 DEF CallsHeld, Changing, MayBeOvertaken
<1>11. ActiveHeld'
  BY <1>1, <1>2 DEF TimerTypeOK, ActiveHeld, Keeps
<1> QED  BY <1>1, <1>4, <1>5, <1>6, <1>7, <1>8, <1>9, <1>10, <1>11

LEMMA RestartKeeps ==
  ASSUME TimerInv, UNCHANGED high, AfterFunction, Restart
  PROVE  TimerInv'
<1> USE DEF TimerInv, Pointers
<1>1. /\ TimerThreadRuns /\ entry_pc = "returned" /\ "FREE_PENDING" \notin flag[t]
      /\ "ACTIVATED" \in flag[t]
      /\ timeout_tick' = [timeout_tick EXCEPT ![t] = Later(init_tick[t])]
      /\ rt_soft_timer_list' = Inserted(Removed(rt_soft_timer_list, t), t, timeout_tick')
      /\ flag' = [flag EXCEPT ![t] = (@ \ {"RUNNING"}) \cup {"ACTIVATED"}]
      /\ t' = Null /\ entry_pc' = "locked"
      /\ UNCHANGED <<high, rt_tick, allocated, init_tick, user_timer, handle, op, op_timer,
                     stopped, cb_op, cb_timer, next_timeout, current_tick, overlooked>>
  BY DEF AfterFunction, Restart, owned, callback
<1>2. /\ t \in Objects /\ t \in allocated /\ t # Null /\ Null \notin Linked /\ cb_op = "idle"
      /\ \A v \in Owners : op[v] \in Changing => op_timer[v] # t
      /\ \A x \in Objects : ("RUNNING" \in flag[x] \/ "FREE_PENDING" \in flag[x]) => x = t
  BY <1>1, ReturnedIs
<1>3. /\ Later(init_tick[t]) \in Ticks /\ InTime(Later(init_tick[t]))
      /\ timeout_tick' \in [Objects -> Ticks] /\ InTime(timeout_tick'[t])
      /\ \A x \in Objects \ {t} : timeout_tick'[x] = timeout_tick[x]
  <2>1. Later(init_tick[t]) \in Ticks /\ InTime(Later(init_tick[t]))
    BY <1>2, StartedInTime DEF TimerTypeOK
  <2> QED  BY <2>1, <1>1, <1>2 DEF TimerTypeOK
<1>4. \A x \in Linked : x \in Objects /\ InTime(timeout_tick[x])
  BY DEF AllInTime, TimerTypeOK
<1>5. rt_soft_timer_list' \in Seq(Objects) /\ Linked' = Linked \cup {t} /\ ListSorted'
  BY <1>1, <1>2, <1>3, <1>4, InsertsOne
<1>6. TimerTypeOK'
  BY <1>1, <1>2, <1>3, <1>5 DEF TimerTypeOK, Flags
<1>7. AllInTime'
  <2>1. \A x \in Linked' : InTime(timeout_tick'[x])
    BY <1>3, <1>4, <1>5
  <2>2. \A v \in Owners : op'[v] = "start_insert" => InTime(timeout_tick'[op_timer'[v]])
    BY <1>1, <1>2, <1>3 DEF AllInTime, TimerTypeOK, CallsHeld, Changing, MayBeOvertaken
  <2>3. cb_op' = "start_insert" => InTime(timeout_tick'[cb_timer'])
    BY <1>1, <1>2
  <2> QED  BY <1>1, <2>1, <2>2, <2>3, TimesKept
<1>8. ThreadWorksOn'
  BY <1>1, <1>2 DEF ThreadWorksOn
<1>9. FlagsHeld'
  BY <1>1, <1>2 DEF TimerTypeOK, FlagsHeld
<1>10. HandlesHeld'
  BY <1>1, <1>2 DEF TimerTypeOK, HandlesHeld
<1>11. CallsHeld'
  BY <1>1, <1>2, <1>5 DEF TimerTypeOK, CallsHeld, Changing, MayBeOvertaken
<1>12. ActiveHeld'
  BY <1>1, <1>2, <1>5 DEF TimerTypeOK, ActiveHeld, Keeps
<1> QED  BY <1>1, <1>2, <1>5, <1>6, <1>7, <1>8, <1>9, <1>10, <1>11, <1>12

LEMMA MarkStoppedKeeps ==
  ASSUME TimerInv, UNCHANGED high, AfterFunction, MarkStopped
  PROVE  TimerInv'
<1> USE DEF TimerInv, Pointers
<1>1. /\ TimerThreadRuns /\ entry_pc = "returned" /\ "FREE_PENDING" \notin flag[t]
      /\ ~(user_timer[t] \in Periodic /\ "ACTIVATED" \in flag[t])
      /\ flag' = [flag EXCEPT ![t] = @ \ {"RUNNING", "ACTIVATED"}]
      /\ t' = Null /\ entry_pc' = "locked"
      /\ UNCHANGED <<high, rt_tick, rt_soft_timer_list, allocated, timeout_tick, init_tick,
                     user_timer, handle, op, op_timer, stopped, cb_op, cb_timer, next_timeout,
                     current_tick, overlooked>>
      /\ Linked' = Linked
  BY DEF AfterFunction, MarkStopped, owned, callback, Linked
<1>2. /\ t \in Objects /\ t \in allocated /\ t # Null /\ Null \notin Linked /\ cb_op = "idle"
      /\ \A v \in Owners : op[v] \in Changing => op_timer[v] # t
      /\ \A x \in Objects : ("RUNNING" \in flag[x] \/ "FREE_PENDING" \in flag[x]) => x = t
  BY <1>1, ReturnedIs
<1>3. t \in Linked => ~Keeps(user_timer[t])
  BY <1>1, <1>2 DEF ActiveHeld, Keeps
<1>4. TimerTypeOK'
  BY <1>1, <1>2 DEF TimerTypeOK
<1>5. AllInTime'
  BY <1>1, TimesKept DEF AllInTime
<1>6. ListSorted'
  BY <1>1 DEF ListSorted, Reached, Diff
<1>7. ThreadWorksOn'
  BY <1>1, <1>2 DEF ThreadWorksOn
<1>8. FlagsHeld'
  BY <1>1, <1>2 DEF TimerTypeOK, FlagsHeld
<1>9. HandlesHeld'
  BY <1>1, <1>2 DEF TimerTypeOK, HandlesHeld
<1>10. CallsHeld'
  BY <1>1, <1>2 DEF TimerTypeOK, CallsHeld, Changing, MayBeOvertaken
<1>11. ActiveHeld'
  <2>1. ASSUME NEW x \in Linked', x = t' \/ Keeps(user_timer[x])
        PROVE  "ACTIVATED" \in flag'[x]
    <3>1. x \in Linked /\ x \in Objects /\ Keeps(user_timer[x]) /\ x # t
      BY <2>1, <1>1, <1>2, <1>3 DEF TimerTypeOK
    <3> QED  BY <3>1, <1>1, <1>2 DEF ActiveHeld, TimerTypeOK
  <2> QED  BY <2>1, <1>1 DEF ActiveHeld, Keeps
<1> QED  BY <1>1, <1>4, <1>5, <1>6, <1>7, <1>8, <1>9, <1>10, <1>11

-----------------------------------------------------------------------------
(* The clock *)

LEMMA TickKeeps ==
  ASSUME TimerInv, UNCHANGED high, Tick
  PROVE  TimerInv'
<1> USE DEF TimerInv, Pointers
<1>1. /\ \A o \in Linked \cup Starting :
           Reached(rt_tick, timeout_tick[o]) => Diff(rt_tick, timeout_tick[o]) < MaxLate
      /\ rt_tick' = Later(1)
      /\ entry_pc' = IF entry_pc = "sleeping" /\ Reached(rt_tick', next_timeout)
                     THEN "check" ELSE entry_pc
      /\ UNCHANGED <<high, rt_soft_timer_list, allocated, flag, timeout_tick, init_tick,
                     user_timer, handle, op, op_timer, stopped, cb_op, cb_timer, next_timeout,
                     current_tick, t, overlooked>>
      /\ Linked' = Linked
  BY DEF Tick, fields, owned, callback, Linked
<1>2. rt_tick \in Ticks /\ rt_tick' \in Ticks
  BY <1>1, Widths, LaterIs DEF TimerTypeOK
<1> DEFINE NowInTime(b) == Diff(rt_tick', b) <= MaxLate \/ Diff(b, rt_tick') + MaxLate < Half
<1>3. ASSUME NEW o \in Linked \cup Starting, o \in Objects, InTime(timeout_tick[o])
      PROVE  NowInTime(timeout_tick[o])
  <2>1. timeout_tick[o] \in Ticks
    BY <1>3 DEF TimerTypeOK
  <2> QED  BY <2>1, <1>1, <1>2, <1>3, ClockKeepsInTime
<1>4. AllInTime'
  <2> HIDE DEF NowInTime
  <2>1. ASSUME NEW o \in Linked  PROVE NowInTime(timeout_tick[o])
    BY <1>3 DEF AllInTime, TimerTypeOK
  <2>2. ASSUME NEW u \in Owners, op[u] = "start_insert"
        PROVE  NowInTime(timeout_tick[op_timer[u]])
    <3>1. op_timer[u] \in Starting /\ op_timer[u] \in Objects
      BY <2>2 DEF Starting, CallsHeld, Changing, MayBeOvertaken, TimerTypeOK
    <3> QED  BY <3>1, <2>2, <1>3 DEF AllInTime
  <2>3. ASSUME cb_op = "start_insert"  PROVE NowInTime(timeout_tick[cb_timer])
    <3>1. cb_timer \in Starting /\ cb_timer \in Objects
      BY <2>3 DEF Starting, ThreadWorksOn, TimerTypeOK
    <3> QED  BY <3>1, <2>3, <1>3 DEF AllInTime
  <2> QED  BY <2>1, <2>2, <2>3, <1>1 DEF NowInTime, AllInTime, InTime, Diff
<1>5. TimerTypeOK'
  BY <1>1, <1>2 DEF TimerTypeOK
<1>6. ListSorted'
  BY <1>1 DEF ListSorted, Reached, Diff
<1>7. ThreadWorksOn'
  BY <1>1 DEF ThreadWorksOn
<1>8. FlagsHeld' /\ HandlesHeld'
  BY <1>1 DEF FlagsHeld, HandlesHeld
<1>9. CallsHeld' /\ ActiveHeld'
  BY <1>1 DEF CallsHeld, Changing, MayBeOvertaken, ActiveHeld, Keeps
<1> QED  BY <1>1, <1>4, <1>5, <1>6, <1>7, <1>8, <1>9


-----------------------------------------------------------------------------
(* The theorems *)

LEMMA InitTimers == Init => TimerInv
<1> SUFFICES ASSUME Init  PROVE TimerInv
  OBVIOUS
<1> USE DEF Init
<1>1. Linked = {}
  BY DEF Linked, ToSet
<1>2. TimerTypeOK
  <2>1. 0 \in Ticks /\ (CHOOSE d \in Delays : TRUE) \in Delays
    BY SoftTimerAssumption DEF Ticks
  <2>2. rt_soft_timer_list \in Seq(Objects) /\ init_tick \in [Objects -> Delays]
    BY <2>1
  <2> QED  BY <2>1, <2>2 DEF TimerTypeOK
<1>3. AllInTime /\ ListSorted
  BY <1>1 DEF AllInTime, ListSorted
<1>4. ThreadWorksOn /\ FlagsHeld /\ HandlesHeld
  BY SoftTimerAssumption DEF ThreadWorksOn, FlagsHeld, HandlesHeld
<1>5. CallsHeld /\ ActiveHeld
  BY <1>1 DEF CallsHeld, Changing, MayBeOvertaken, ActiveHeld
<1> QED  BY <1>1, <1>2, <1>3, <1>4, <1>5 DEF TimerInv, Pointers

LEMMA StandingStillKeeps ==
  ASSUME TimerInv, UNCHANGED <<high, vars>>
  PROVE  TimerInv'
<1>1. TimerTypeOK /\ rt_tick' = rt_tick
  BY DEF TimerInv, Pointers, vars
<1> QED  BY <1>1, ThreadMovesKeeps DEF vars, fields, owned, callback, thread, TimerTypeOK

LEMMA TimerStep == TimerInv /\ [Next]_<<high, vars>> => TimerInv'
<1> SUFFICES ASSUME TimerInv, [Next]_<<high, vars>>
             PROVE  TimerInv'
  OBVIOUS
<1>1. CASE UNCHANGED <<high, vars>>
  BY <1>1, StandingStillKeeps
<1>2. CASE UNCHANGED high /\ Tick
  BY <1>2, TickKeeps
<1>3. CASE UNCHANGED high /\ TimerThread
  <2>1. CASE \/ ReadNextTimeout \/ SuspendSelf \/ Delay \/ NoDelay
             \/ ReadCurrentTick \/ CheckDone \/ FunctionReturns
    BY <1>3, <2>1, SleepKeeps
  <2>2. CASE Expire
    BY <1>3, <2>2, ExpireKeeps
  <2>3. CASE AfterFunction
    <3>1. Restart \/ MarkStopped
      BY <2>3 DEF AfterFunction
    <3> QED  BY <1>3, <2>3, <3>1, RestartKeeps, MarkStoppedKeeps
  <2>4. CASE CallbackStart
    BY <1>3, <2>4, CallbackStartKeeps
  <2>5. CASE CallbackStartInsert
    BY <1>3, <2>5, CallbackStartInsertKeeps
  <2>6. CASE CallbackStopRefused
    BY <1>3, <2>6, CallbackStopRefusedKeeps
  <2>7. CASE CallbackStop
    BY <1>3, <2>7, CallbackStopKeeps
  <2>8. CASE CallbackStopClear
    BY <1>3, <2>8, CallbackStopClearKeeps
  <2>9. CASE CallbackDeinit
    BY <1>3, <2>9, CallbackDeinitKeeps
  <2>10. CASE DeletePending
    BY <1>3, <2>10, DeletePendingKeeps
  <2>11. CASE ClearOwner
    BY <1>3, <2>11, ClearOwnerKeeps
  <2> QED  BY <1>3, <2>1, <2>2, <2>3, <2>4, <2>5, <2>6, <2>7, <2>8, <2>9, <2>10, <2>11
              DEF TimerThread
<1>4. ASSUME UNCHANGED high, NEW u \in Owners, OwnerStep(u) \/ OwnerCalls(u)
      PROVE  TimerInv'
  <2>1. CASE InitTimer(u)
    BY <1>4, <2>1, InitTimerKeeps
  <2>2. CASE \E d \in Delays : StartTimer(u, d)
    BY <1>4, <2>2, StartTimerKeeps
  <2>3. CASE StartTimerRemove(u)
    BY <1>4, <2>3, StartTimerRemoveKeeps
  <2>4. CASE StartTimerInsert(u)
    BY <1>4, <2>4, StartTimerInsertKeeps
  <2>5. CASE StartTimerLook(u)
    BY <1>4, <2>5, StartTimerLookKeeps
  <2>6. CASE StartTimerResume(u)
    BY <1>4, <2>6, StartTimerResumeKeeps
  <2>7. CASE StopTimer(u)
    BY <1>4, <2>7, StopTimerKeeps
  <2>8. CASE StopRefused(u)
    BY <1>4, <2>8, StopRefusedKeeps
  <2>9. CASE StopActive(u)
    BY <1>4, <2>9, StopActiveKeeps
  <2>10. CASE StopTimerRemove(u)
    BY <1>4, <2>10, StopTimerRemoveKeeps
  <2>11. CASE StopTimerClear(u)
    BY <1>4, <2>11, StopTimerClearKeeps
  <2>12. CASE UseFreed(u)
    BY <1>4, <2>12, UseFreedKeeps
  <2>13. CASE DeinitOneshotTimer(u)
    BY <1>4, <2>13, DeinitPendingKeeps, DeinitFreeKeeps
  <2>14. CASE DeinitTimer(u)
    BY <1>4, <2>14, DeinitTimerKeeps
  <2>15. CASE DeinitTimerFree(u)
    BY <1>4, <2>15, DeinitTimerFreeKeeps
  <2> QED
    BY <1>4, <2>1, <2>2, <2>3, <2>4, <2>5, <2>6, <2>7, <2>8,
       <2>9, <2>10, <2>11, <2>12, <2>13, <2>14, <2>15
       DEF OwnerStep, OwnerCalls
<1> QED  BY <1>1, <1>2, <1>3, <1>4 DEF Next

\* What is kept by every step of owners, timer functions, the timer thread and
\* the clock.
THEOREM TimerInvariance == Spec => []TimerInv
BY InitTimers, TimerStep, PTL DEF Spec

\* The variables of rt_thread_timer_entry, the fields of the kernel timers and
\* the handles stay in their types; the ticks stay below RT_TICK_MAX.
THEOREM TimerTypes == Spec => []TimerTypeOK
<1>1. TimerInv => TimerTypeOK
  BY DEF TimerInv, Pointers
<1> QED  BY <1>1, TimerInvariance, PTL

\* rt_timer_start keeps rt_soft_timer_list in the order in which the timers are
\* due, across the turn of the tick counter, whatever the width of rt_tick_t.
THEOREM StaysSorted == Spec => []ListSorted
<1>1. TimerInv => ListSorted
  BY DEF TimerInv
<1> QED  BY <1>1, TimerInvariance, PTL

\* A timer that rtos_stop_oneshot_timer or rtos_stop_timer has stopped is not in
\* the list, also if the timer thread was about to start it again.
THEOREM StopIsFinal == Spec => []StopStops
<1>1. ASSUME TimerInv  PROVE StopStops
  <2>1. SUFFICES ASSUME NEW u \in Owners, u \in stopped, Keeps(u), handle[u] \in Linked
                 PROVE  FALSE
    BY <1>1 DEF StopStops, Keeps, TimerInv, Pointers, TimerTypeOK
  <2>2. handle[u] \in Objects /\ handle[u] # Null
    BY <1>1, <2>1, SoftTimerAssumption DEF TimerInv, Pointers, TimerTypeOK
  <2>3. user_timer[handle[u]] = u /\ "ACTIVATED" \notin flag[handle[u]]
    BY <1>1, <2>1, <2>2 DEF TimerInv, Pointers, HandlesHeld, CallsHeld, Changing, MayBeOvertaken
  <2> QED  BY <1>1, <2>1, <2>3 DEF TimerInv, Pointers, ActiveHeld
<1> QED  BY <1>1, TimerInvariance, PTL

\* rt_object_delete frees no kernel timer that is in the list, that an owner
\* has or is changing, or whose function the timer thread runs.  A call on a
\* timer tests, starts or stops no freed memory either, unless a function that
\* deinitialises its own timer overtakes that call.
THEOREM NothingFreedIsUsed == Spec => []NoneFreed
<1>1. ASSUME TimerInv  PROVE NoneFreed
  <2> USE DEF TimerInv, Pointers
  <2>1. Linked \subseteq allocated /\ (t # Null => (t \in allocated <=> entry_pc # "clear"))
    BY <1>1 DEF ThreadWorksOn
  <2>2. ASSUME NEW u \in Owners
        PROVE  /\ handle[u] # Null => handle[u] \in allocated
               /\ op[u] \in Changing => op_timer[u] \in allocated
    BY <1>1 DEF HandlesHeld, CallsHeld
  <2>3. ASSUME NEW u \in Owners, u \in Periodic \cup high \/ "deinit" \notin CallbackOps
        PROVE  /\ op[u] # "lost"
               /\ op[u] \notin {"idle", "start_resume"} => op_timer[u] \in allocated
    <3>1. ~MayBeOvertaken(u)
      BY <2>3 DEF MayBeOvertaken
    <3>2. op[u] # "lost"
      BY <1>1, <3>1 DEF CallsHeld
    <3>3. ASSUME op[u] \notin Changing \cup {"idle", "start_resume", "lost"}
          PROVE  op_timer[u] \in allocated
      <4>1. op_timer[u] = handle[u] /\ op_timer[u] \in Objects
        BY <1>1, <3>1, <3>3 DEF CallsHeld
      <4> QED  BY <4>1, <2>2, SoftTimerAssumption
    <3> QED  BY <2>2, <3>2, <3>3
  <2> QED  BY <2>1, <2>2, <2>3 DEF NoneFreed
<1> QED  BY <1>1, TimerInvariance, PTL

\* Deinitialising a timer whose function runs leaves it to the timer thread, and
\* nobody else's timer is lost by that.
THEOREM NoTimerLeaks == Spec => []NoneLeaked
<1>1. ASSUME TimerInv  PROVE NoneLeaked
  <2>1. SUFFICES ASSUME NEW o \in allocated, user_timer[o] \notin high
                 PROVE  (\E u \in Owners : handle[u] = o) \/ (t = o /\ "FREE_PENDING" \in flag[o])
    BY DEF NoneLeaked
  <2>2. o \in Objects /\ user_timer[o] \in Owners
        /\ (handle[user_timer[o]] = o \/ "FREE_PENDING" \in flag[o])
    BY <1>1, <2>1 DEF TimerInv, Pointers, HandlesHeld, TimerTypeOK
  <2> QED  BY <1>1, <2>2 DEF TimerInv, Pointers, FlagsHeld
<1> QED  BY <1>1, TimerInvariance, PTL


-----------------------------------------------------------------------------
(* The timer thread does not sleep past a timer *)

\* An owner is about to resume the timer thread for a timer it still has.
Resuming ==
  \E u \in Owners : op[u] = "start_resume" \/ (op[u] = "start_look" /\ ~Overtaken(u))

\* The timer thread decides and sleeps on the time it has read last: no timer of
\* the list is due before, unless the code overlooks it or the owner that put it
\* there is about to resume the thread.
AwakeInv ==
  ~overlooked =>
    /\ entry_pc = "decide" =>
         \A o \in Linked : next_timeout # TickMax /\ Reached(timeout_tick[o], next_timeout)
    /\ Asleep /\ ~Resuming =>
         \A o \in Linked : entry_pc = "sleeping" /\ Reached(timeout_tick[o], next_timeout)

\* The first timer is due first.
LEMMA HeadIsFirst ==
  ASSUME TimerInv, rt_soft_timer_list # <<>>
  PROVE  /\ Head(rt_soft_timer_list) \in Linked
         /\ \A o \in Linked : Reached(timeout_tick[o], timeout_tick[Head(rt_soft_timer_list)])
<1> DEFINE first == Head(rt_soft_timer_list)
<1>1. rt_soft_timer_list \in Seq(Objects) /\ rt_tick \in Ticks /\ timeout_tick \in [Objects -> Ticks]
  BY DEF TimerInv, Pointers, TimerTypeOK
<1>2. 1 \in DOMAIN rt_soft_timer_list /\ first = rt_soft_timer_list[1]
  BY <1>1
<1> HIDE DEF first
<1>3. first \in Linked /\ first \in Objects
  BY <1>1, <1>2 DEF Linked, ToSet
<1>4. ASSUME NEW o \in Linked  PROVE Reached(timeout_tick[o], timeout_tick[first])
  <2>1. PICK j \in DOMAIN rt_soft_timer_list : rt_soft_timer_list[j] = o
    BY DEF Linked, ToSet
  <2>2. CASE j = 1
    <3>1. timeout_tick[first] \in Ticks /\ InTime(timeout_tick[first])
      BY <1>1, <1>3 DEF TimerInv, AllInTime
    <3> QED  BY <3>1, <2>1, <2>2, <1>1, <1>2, AheadOrders
  <2>3. CASE j # 1
    <3>1. 1 < j
      BY <2>1, <2>3, <1>1
    <3> QED  BY <3>1, <2>1, <1>2 DEF TimerInv, ListSorted
  <2> QED  BY <2>2, <2>3
<1> QED  BY <1>3, <1>4 DEF first

\* Nothing is said of a timer thread that is awake.
LEMMA AwakeIsAwake ==
  ASSUME entry_pc' \notin {"decide", "suspended", "sleeping"}
  PROVE  AwakeInv'
BY DEF AwakeInv, Asleep

\* Owners that take timers off the list, or none, do not disturb its sleep.
LEMMA SleepsOn ==
  ASSUME AwakeInv, UNCHANGED <<entry_pc, next_timeout, overlooked>>, Resuming => Resuming',
         Linked' \subseteq Linked, \A o \in Linked' : timeout_tick'[o] = timeout_tick[o]
  PROVE  AwakeInv'
BY DEF AwakeInv, Asleep, Reached, Diff

\* A call of one owner, except where it resumes the timer thread, leaves that to
\* the others that are about to.
LEMMA OthersResume ==
  ASSUME TimerTypeOK, NEW u \in Owners, op[u] \notin {"start_look", "start_resume"},
         \A v \in Owners \ {u} : /\ op'[v] = op[v]
                                 /\ op_timer'[v] = op_timer[v]
                                 /\ handle'[v] = handle[v]
  PROVE  Resuming => Resuming'
BY DEF Resuming, Overtaken

LEMMA OwnerKeepsAwake ==
  ASSUME TimerInv, AwakeInv, NEW u \in Owners, OwnerStep(u) \/ OwnerCalls(u)
  PROVE  AwakeInv'
<1> USE DEF TimerInv, Pointers
<1>1. \A x \in Linked : x \in Objects
  BY DEF TimerTypeOK
<1>2. CASE InitTimer(u)
  <2>1. PICK o \in Objects : handle' = [handle EXCEPT ![u] = o]
    BY <1>2 DEF InitTimer
  <2>2. Resuming => Resuming'
    BY <1>2, <2>1, OthersResume DEF InitTimer, TimerTypeOK
  <2> QED  BY <1>2, <2>2, SleepsOn DEF InitTimer, thread, Linked
<1>3. CASE \/ \E d \in Delays : StartTimer(u, d)
           \/ StopTimer(u) \/ StopRefused(u) \/ StopActive(u) \/ UseFreed(u)
  <2>1. /\ op[u] \notin {"start_look", "start_resume"}
        /\ \E pc, o : op' = [op EXCEPT ![u] = pc] /\ op_timer' = [op_timer EXCEPT ![u] = o]
        /\ UNCHANGED <<handle, rt_soft_timer_list, timeout_tick, entry_pc, next_timeout,
                       overlooked>>
    <3>1. op_timer' = op_timer => op_timer' = [op_timer EXCEPT ![u] = op_timer[u]]
      BY DEF TimerTypeOK
    <3> QED
      BY <1>3, <3>1 DEF StartTimer, StopTimer, StopRefused, StopActive, UseFreed, fields, thread
  <2>2. Resuming => Resuming'
    BY <2>1, OthersResume DEF TimerTypeOK
  <2> QED  BY <2>1, <2>2, SleepsOn DEF Linked
<1>4. CASE StartTimerLook(u)
  <2>1. /\ op[u] = "start_look"
        /\ UNCHANGED <<handle, rt_soft_timer_list, timeout_tick, entry_pc, next_timeout,
                       overlooked>>
        /\ \/ op' = [op EXCEPT ![u] = "start_resume"] /\ op_timer' = op_timer
           \/ /\ Overtaken(u)
              /\ op' = [op EXCEPT ![u] = "idle"]
              /\ op_timer' = [op_timer EXCEPT ![u] = Null]
    BY <1>4 DEF StartTimerLook, fields, thread
  <2>2. Resuming => Resuming'
    <3>1. CASE op' = [op EXCEPT ![u] = "start_resume"]
      BY <3>1 DEF Resuming, TimerTypeOK
    <3>2. CASE /\ Overtaken(u)
               /\ op' = [op EXCEPT ![u] = "idle"]
               /\ op_timer' = [op_timer EXCEPT ![u] = Null]
      BY <2>1, <3>2 DEF Resuming, Overtaken, TimerTypeOK
    <3> QED  BY <2>1, <3>1, <3>2
  <2> QED  BY <2>1, <2>2, SleepsOn DEF Linked
<1>5. CASE StartTimerRemove(u)
  <2>1. /\ op' = [op EXCEPT ![u] = "start_insert"] /\ op[u] = "start_test"
        /\ rt_soft_timer_list' = Removed(rt_soft_timer_list, op_timer[u])
        /\ timeout_tick' = [timeout_tick EXCEPT ![op_timer[u]] = Later(init_tick[op_timer[u]])]
        /\ UNCHANGED <<rt_tick, handle, op_timer, entry_pc, next_timeout, overlooked>>
    BY <1>5 DEF StartTimerRemove, StartRemove, thread
  <2>2. Resuming => Resuming'
    BY <2>1, OthersResume DEF TimerTypeOK
  <2>3. \A x \in Linked \ {op_timer[u]} : timeout_tick'[x] = timeout_tick[x]
    BY <2>1, <1>1 DEF TimerTypeOK
  <2>4. Linked' = Linked \ {op_timer[u]}
    BY <2>1, <2>3, RemovesOne
  <2> QED  BY <2>1, <2>2, <2>3, <2>4, SleepsOn
<1>6. CASE StartTimerInsert(u)
  <2>1. /\ op'[u] = "start_look" /\ op_timer'[u] = handle'[u]
        /\ overlooked' = (overlooked \/ entry_pc = "decide")
        /\ UNCHANGED entry_pc
    BY <1>6 DEF StartTimerInsert, CallsHeld, Changing, thread, TimerTypeOK
  <2>2. Resuming'
    BY <2>1 DEF Resuming, Overtaken
  <2> QED  BY <2>1, <2>2 DEF AwakeInv
<1>7. CASE StartTimerResume(u)
  <2>1. CASE Asleep
    BY <1>7, <2>1, AwakeIsAwake DEF StartTimerResume, ResumeTimerThread
  <2>2. CASE ~Asleep
    BY <1>7, <2>2 DEF StartTimerResume, ResumeTimerThread, fields, AwakeInv, Asleep, Linked,
                      Reached, Diff
  <2> QED  BY <2>1, <2>2
<1>8. CASE StopTimerRemove(u) \/ DeinitTimer(u)
  <2>1. /\ op[u] \notin {"start_look", "start_resume"}
        /\ \E pc : op' = [op EXCEPT ![u] = pc]
        /\ \E o : op_timer' = [op_timer EXCEPT ![u] = o]
                  /\ rt_soft_timer_list' = Removed(rt_soft_timer_list, o)
        /\ UNCHANGED <<rt_tick, handle, timeout_tick, entry_pc, next_timeout, overlooked>>
    <3>1. op_timer' = op_timer => op_timer' = [op_timer EXCEPT ![u] = op_timer[u]]
      BY DEF TimerTypeOK
    <3> QED  BY <1>8, <3>1 DEF StopTimerRemove, DeinitTimer, MayDeinit, fields, thread
  <2>2. Resuming => Resuming'
    BY <2>1, OthersResume DEF TimerTypeOK
  <2>3. PICK o : rt_soft_timer_list' = Removed(rt_soft_timer_list, o)
    BY <2>1
  <2>4. Linked' = Linked \ {o}
    BY <2>1, <2>3, RemovesOne
  <2> QED  BY <2>1, <2>2, <2>4, SleepsOn
<1>9. CASE StopTimerClear(u)
  <2>1. /\ op[u] = "stop_clear"
        /\ op' = [op EXCEPT ![u] = "idle"] /\ op_timer' = [op_timer EXCEPT ![u] = Null]
        /\ UNCHANGED <<handle, rt_soft_timer_list, timeout_tick, entry_pc, next_timeout,
                       overlooked>>
    BY <1>9 DEF StopTimerClear, thread
  <2>2. Resuming => Resuming'
    BY <2>1, OthersResume DEF TimerTypeOK
  <2> QED  BY <2>1, <2>2, SleepsOn DEF Linked
<1>10. CASE DeinitOneshotTimer(u)
  <2>1. /\ op[u] = "idle" /\ handle' = [handle EXCEPT ![u] = Null]
        /\ UNCHANGED <<rt_tick, op, op_timer, entry_pc, next_timeout, overlooked>>
        /\ \/ UNCHANGED <<rt_soft_timer_list, timeout_tick>>
           \/ /\ rt_soft_timer_list' = Removed(rt_soft_timer_list, handle[u])
              /\ timeout_tick' = [timeout_tick EXCEPT ![handle[u]] = 0]
    BY <1>10 DEF DeinitOneshotTimer, MayDeinit, DeinitOneshot, Forget, Free, thread
  <2>2. Resuming => Resuming'
    BY <2>1, OthersResume DEF TimerTypeOK
  <2>3. CASE UNCHANGED <<rt_soft_timer_list, timeout_tick>>
    BY <2>1, <2>2, <2>3, SleepsOn DEF Linked
  <2>4. CASE /\ rt_soft_timer_list' = Removed(rt_soft_timer_list, handle[u])
             /\ timeout_tick' = [timeout_tick EXCEPT ![handle[u]] = 0]
    <3>1. \A x \in Linked \ {handle[u]} : timeout_tick'[x] = timeout_tick[x]
      BY <2>4, <1>1 DEF TimerTypeOK
    <3>2. Linked' = Linked \ {handle[u]}
      BY <2>1, <2>4, <3>1, RemovesOne
    <3> QED  BY <2>1, <2>2, <3>1, <3>2, SleepsOn
  <2> QED  BY <2>1, <2>3, <2>4
<1>11. CASE DeinitTimerFree(u)
  <2>1. /\ op[u] = "delete_free" /\ op_timer[u] \notin Linked
        /\ op' = [op EXCEPT ![u] = "idle"] /\ op_timer' = [op_timer EXCEPT ![u] = Null]
        /\ handle' = [handle EXCEPT ![u] = Null]
        /\ timeout_tick' = [timeout_tick EXCEPT ![op_timer[u]] = 0]
        /\ UNCHANGED <<rt_soft_timer_list, entry_pc, next_timeout, overlooked>>
    BY <1>11 DEF DeinitTimerFree, Forget, Free, CallsHeld, Changing, thread
  <2>2. Resuming => Resuming'
    BY <2>1, OthersResume DEF TimerTypeOK
  <2>3. Linked' = Linked /\ \A x \in Linked : timeout_tick'[x] = timeout_tick[x]
    BY <2>1, <1>1 DEF Linked, TimerTypeOK
  <2> QED  BY <2>1, <2>2, <2>3, SleepsOn
<1> QED
  BY <1>2, <1>3, <1>4, <1>5, <1>6, <1>7, <1>8, <1>9, <1>10, <1>11 DEF OwnerStep, OwnerCalls

LEMMA ThreadKeepsAwake ==
  ASSUME TimerInv, AwakeInv, TimerThread
  PROVE  AwakeInv'
<1>1. ThreadWorksOn
  BY DEF TimerInv, Pointers
<1>2. CASE ReadNextTimeout
  <2>1. /\ entry_pc' = "decide" /\ next_timeout' = NextTimeout
        /\ overlooked' = (rt_soft_timer_list # <<>> /\ NextTimeout = TickMax)
        /\ UNCHANGED <<rt_soft_timer_list, timeout_tick>>
    BY <1>2 DEF ReadNextTimeout, fields
  <2>2. CASE rt_soft_timer_list = <<>>
    <3>1. Linked' = {}
      BY <2>1, <2>2 DEF Linked, ToSet
    <3> QED  BY <2>1, <3>1 DEF AwakeInv, Asleep
  <2>3. CASE rt_soft_timer_list # <<>>
    <3>1. \A o \in Linked : Reached(timeout_tick[o], NextTimeout)
      BY <2>3, HeadIsFirst DEF NextTimeout
    <3> QED  BY <2>1, <2>3, <3>1 DEF AwakeInv, Asleep, Linked, Reached, Diff
  <2> QED  BY <2>2, <2>3
<1>3. CASE SuspendSelf \/ Delay
  <2>1. /\ entry_pc = "decide" /\ entry_pc' \in {"suspended", "sleeping"}
        /\ entry_pc' = "suspended" => next_timeout = TickMax
        /\ UNCHANGED <<rt_soft_timer_list, timeout_tick, next_timeout, overlooked>>
    BY <1>3 DEF SuspendSelf, Delay, fields
  <2> QED  BY <2>1 DEF AwakeInv, Linked, Reached, Diff
<1>4. CASE \/ NoDelay \/ ReadCurrentTick \/ Expire \/ CheckDone \/ FunctionReturns
           \/ AfterFunction \/ DeletePending \/ ClearOwner
  BY <1>4, AwakeIsAwake DEF NoDelay, ReadCurrentTick, Expire, CheckDone, FunctionReturns,
                            AfterFunction, DeletePending, ClearOwner
<1>5. CASE \/ CallbackStart \/ CallbackStartInsert
           \/ CallbackStopRefused \/ CallbackStop \/ CallbackStopClear \/ CallbackDeinit
  <2>1. entry_pc = "function" /\ entry_pc' = entry_pc
    BY <1>1, <1>5 DEF ThreadWorksOn, CallbackRuns, CallbackStart, CallbackStartInsert,
                      CallbackStopRefused, CallbackStop, CallbackStopClear, CallbackDeinit, thread
  <2> QED  BY <2>1, AwakeIsAwake
<1> QED  BY <1>2, <1>3, <1>4, <1>5 DEF TimerThread

LEMMA TickKeepsAwake ==
  ASSUME AwakeInv, Tick
  PROVE  AwakeInv'
<1>1. /\ entry_pc' = entry_pc \/ entry_pc' = "check"
      /\ UNCHANGED <<rt_soft_timer_list, timeout_tick, handle, op, op_timer, next_timeout,
                     overlooked>>
  BY DEF Tick, fields, owned
<1>2. CASE entry_pc' = "check"
  BY <1>2, AwakeIsAwake
<1>3. CASE entry_pc' = entry_pc
  BY <1>1, <1>3, SleepsOn DEF Linked, Resuming, Overtaken
<1> QED  BY <1>1, <1>2, <1>3

\* The timer thread, whatever owners preempt it, does not sleep past a timer:
\* rt_timer_start resumes it, or it sleeps until a tick no later than that
\* timer's.  That is so in every state but those in which it took the first
\* timer's tick RT_TICK_MAX for an empty list, or a timer was started after it
\* had looked.
THEOREM SleepsNotPastTimer == Spec => []TimerThreadAwake
<1>1. Init => AwakeInv
  BY DEF Init, AwakeInv, Asleep
<1>2. TimerInv /\ AwakeInv /\ [Next]_<<high, vars>> => AwakeInv'
  <2> SUFFICES ASSUME TimerInv, AwakeInv, [Next]_<<high, vars>>
               PROVE  AwakeInv'
    OBVIOUS
  <2>1. CASE UNCHANGED <<high, vars>>
    BY <2>1, SleepsOn DEF vars, fields, owned, thread, Linked, Resuming, Overtaken
  <2>2. CASE Tick
    BY <2>2, TickKeepsAwake
  <2>3. CASE TimerThread
    BY <2>3, ThreadKeepsAwake
  <2>4. CASE \E u \in Owners : OwnerStep(u) \/ OwnerCalls(u)
    BY <2>4, OwnerKeepsAwake
  <2> QED  BY <2>1, <2>2, <2>3, <2>4 DEF Next
<1>3. ASSUME TimerInv, AwakeInv  PROVE TimerThreadAwake
  <2>1. Resuming => ResumeUnderWay
    BY DEF Resuming, ResumeUnderWay
  <2> QED  BY <1>3, <2>1, HeadIsFirst DEF AwakeInv, TimerThreadAwake
<1> QED  BY <1>1, <1>2, <1>3, TimerInvariance, PTL DEF Spec

=============================================================================
