---------------------------- MODULE MCRtosQueue -----------------------------
(* TLC instances of RtosQueue: see MCRtosQueue.cfg and MCRtosQueueLive.cfg. *)
EXTENDS RtosQueue, TLC

\* Threads, but for the servers, are only told apart by what they do, and so
\* are blocks and messages.
Permuted ==
  Permutations(Threads \ Servers) \cup Permutations(Blocks) \cup Permutations(Messages)

\* The state without the values that are written again before they are read:
\* results, the buffers of threads that neither push nor have popped, the
\* content of free blocks and empty slots of the ring.
LiveState ==
  <<mpVars, mb_state, in_offset, out_offset, entry,
    suspend_recv_thread, suspend_sender_thread, mb_call, mb_timeout, mb_value,
    [i \in 0 .. Size - 1 |-> IF Occupied(i) THEN msg_pool[i] ELSE NoMail],
    pc, timeout_ms,
    [t \in Threads |-> IF pc[t] \in {"idle", "pop_recv"} THEN NoMail ELSE message[t]],
    [b \in Blocks |-> IF b \in block_list THEN NoMail ELSE content[b]]>>

=============================================================================
