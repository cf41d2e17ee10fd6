----------------------------- MODULE KernelWait -----------------------------
(***************************************************************************)
(* How a thread of the RT-Thread kernel waits for a resource: the list it   *)
(* is suspended on and the time it is ready to spend there.                 *)
(*                                                                          *)
(* A wait list is a sequence of threads, first to be resumed first.  Time   *)
(* is abstract: a wait has no time ("no_wait", 0 ticks), some time          *)
(* ("ticks", a positive count) or no limit ("forever", a negative count),   *)
(* the three cases rt_tick_from_millisecond tells apart.                    *)
(***************************************************************************)
EXTENDS Naturals, Sequences, FiniteSets

CONSTANT Threads    \* the threads, interrupt handlers included, of the system

ASSUME ThreadsAssumption == IsFiniteSet(Threads)

Timeouts == {"no_wait", "ticks", "forever"}

\* What may be left of a waiting time when the thread runs again after
\* being resumed: the code subtracts the ticks spent waiting and stops at 0.
Remaining(time) == IF time = "ticks" THEN {"ticks", "no_wait"} ELSE {time}

\* The threads on a wait list.
Waiting(list) == {list[i] : i \in DOMAIN list}

\* No thread is on a list twice.
Distinct(list) == \A i, j \in DOMAIN list : list[i] = list[j] => i = j

\* rt_list_insert_before(list, t): t is resumed after everyone on the list.
EnqueueLast(list, t) == Append(list, t)

\* rt_list_insert_before(list[k], t): t is resumed before that thread.
EnqueueAt(list, k, t) ==
  [i \in 1 .. Len(list) + 1 |->
     IF i < k THEN list[i] ELSE IF i = k THEN t ELSE list[i - 1]]

\* rt_list_insert_after(list, t): t is resumed before everyone on the list.
EnqueueFirst(list, t) ==
  [i \in 1 .. Len(list) + 1 |-> IF i = 1 THEN t ELSE list[i - 1]]

\* rt_list_remove(&t->tlist), for a thread t that is on the list.
Unlink(list, t) ==
  LET k == CHOOSE i \in DOMAIN list : list[i] = t
  IN  [i \in 1 .. Len(list) - 1 |-> IF i < k THEN list[i] ELSE list[i + 1]]

=============================================================================
