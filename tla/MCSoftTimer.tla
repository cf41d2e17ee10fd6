---------------------------- MODULE MCSoftTimer -----------------------------
(* TLC instances of SoftTimer: see the MCSoftTimer*.cfg files. *)
EXTENDS SoftTimer, TLC

\* Kernel timers are only told apart by what is done with them.
Permuted == Permutations(Objects)

\* The state without the values that are written before they are read again,
\* or that no property looks at: the times of timers that are not started, the
\* timer an owner is in a call on if it is not its own any more, calls other
\* than stops, and variables of the timer thread.
LiveState ==
  LET started == Linked \cup Starting
      used(set, f, none) == [o \in Objects |-> IF o \in set THEN f[o] ELSE none]
  IN  <<high, rt_tick, rt_soft_timer_list, allocated,
        flag, used(started, timeout_tick, 0), used(allocated, init_tick, 0),
        user_timer, handle, op,
        [u \in Owners |-> IF op[u] \in Changing THEN op_timer[u]
                          ELSE op[u] # "idle" /\ Overtaken(u)],
        {u \in stopped : u \in Periodic \/ u \notin high},
        callback, entry_pc, t, overlooked, current_tick,
        IF entry_pc \in {"decide", "sleeping"} THEN next_timeout ELSE 0>>

=============================================================================
