------------------------------- MODULE Event --------------------------------
(***************************************************************************)
(* The event of rt-thread/src/ipc.c: a set of flags.  A thread waits until  *)
(* all of the flags it asks for are set (RT_EVENT_FLAG_AND), or one of them *)
(* (RT_EVENT_FLAG_OR), and may clear them as it receives them               *)
(* (RT_EVENT_FLAG_CLEAR).  rt_event_send serves the threads that wait, in   *)
(* the order of the list, in one critical section.                          *)
(*                                                                          *)
(* A step is a critical section; see MemPool.  Wait lists are FIFO.         *)
(***************************************************************************)
EXTENDS KernelWait

CONSTANT Flags    \* the bits of event->set; 32 in the code

VARIABLES
  ev_state,     \* "live", "deleting", "resuming", "freed" or "lost": see MemPool
  ev_set,
  ev_waiting,   \* event->parent.suspend_thread
  ev_call,      \* where a thread is in rt_event_recv
  ev_want,      \* the flags it asks for
  ev_option,    \* thread->event_info
  ev_got        \* the flags it receives

evVars == <<ev_state, ev_set, ev_waiting, ev_call, ev_want, ev_option, ev_got>>

Options == [and : BOOLEAN, clear : BOOLEAN]

\* The locals of a thread that is not in rt_event_recv.
NoOption == [and |-> FALSE, clear |-> FALSE]

EvTypeOK ==
  /\ ev_state \in {"live", "deleting", "resuming", "lost", "freed"}
  /\ ev_set \in SUBSET Flags
  /\ ev_waiting \in Seq(Threads)
  /\ ev_call \in [Threads -> {"out", "ev_wait", "received", "ev_error"}]
  /\ ev_want \in [Threads -> SUBSET Flags]
  /\ ev_option \in [Threads -> Options]
  /\ ev_got \in [Threads -> SUBSET Flags]

\* rt_event_create, rt_event_init
EvInit ==
  /\ ev_state = "live"
  /\ ev_set = {}
  /\ ev_waiting = <<>>
  /\ ev_call = [t \in Threads |-> "out"]
  /\ ev_want = [t \in Threads |-> {}]
  /\ ev_option = [t \in Threads |-> NoOption]
  /\ ev_got = [t \in Threads |-> {}]

\* The flags that are set satisfy a thread that wants some with an option.
Satisfied(want, option, set) ==
  IF option.and THEN want \subseteq set ELSE want \cap set # {}

-----------------------------------------------------------------------------
(* rt_event_recv *)

EvRecvCall(t, want, option) ==
  /\ ev_state = "live"
  /\ ev_call[t] = "out"
  /\ ev_want' = [ev_want EXCEPT ![t] = want]
  /\ ev_option' = [ev_option EXCEPT ![t] = option]

\* The flags are there: "received event".
EvRecvNow(t, want, option) ==
  /\ EvRecvCall(t, want, option)
  /\ Satisfied(want, option, ev_set)
  /\ ev_got' = [ev_got EXCEPT ![t] = ev_set \cap want]
  /\ ev_set' = IF option.clear THEN ev_set \ want ELSE ev_set
  /\ ev_call' = [ev_call EXCEPT ![t] = "received"]
  /\ UNCHANGED <<ev_state, ev_waiting>>

\* "no waiting"
EvRecvRefused(t, want, option) ==
  /\ ev_state = "live"
  /\ ev_call[t] = "out"
  /\ ~Satisfied(want, option, ev_set)
  /\ ev_call' = [ev_call EXCEPT ![t] = "ev_error"]
  /\ UNCHANGED <<ev_state, ev_set, ev_waiting, ev_want, ev_option, ev_got>>

\* "put thread to suspended thread list".  A wait without a limit is a wait
\* whose EvTimeout never comes.
EvRecvSuspend(t, want, option) ==
  /\ EvRecvCall(t, want, option)
  /\ ~Satisfied(want, option, ev_set)
  /\ ev_waiting' = EnqueueLast(ev_waiting, t)
  /\ ev_call' = [ev_call EXCEPT ![t] = "ev_wait"]
  /\ UNCHANGED <<ev_state, ev_set, ev_got>>

\* rt_thread_timeout for a thread that waits for flags.
EvTimeout(t) ==
  /\ ev_call[t] = "ev_wait"
  /\ ev_waiting' = Unlink(ev_waiting, t)
  /\ ev_call' = [ev_call EXCEPT ![t] = "ev_error"]
  /\ UNCHANGED <<ev_state, ev_set, ev_want, ev_option, ev_got>>

\* The caller of rt_event_recv takes up its result; the locals of the call go.
EvReturn(t) ==
  /\ ev_call[t] \in {"received", "ev_error"}
  /\ ev_call' = [ev_call EXCEPT ![t] = "out"]
  /\ ev_want' = [ev_want EXCEPT ![t] = {}]
  /\ ev_option' = [ev_option EXCEPT ![t] = NoOption]
  /\ ev_got' = [ev_got EXCEPT ![t] = {}]
  /\ UNCHANGED <<ev_state, ev_set, ev_waiting>>

-----------------------------------------------------------------------------
(* rt_event_send *)

\* Thread t is satisfied by a set of flags.
Content(t, set) == Satisfied(ev_want[t], ev_option[t], set)

\* MUTANT of SendLoop: flags are cleared once every thread was looked at.
MutSendLoopClearLast(set) ==
  LET told == {u \in Waiting(ev_waiting) : Content(u, set)}
  IN  [i \in 0 .. Len(ev_waiting) |->
         [set  |-> IF i < Len(ev_waiting) THEN set
                   ELSE set \ UNION {ev_want[t] : t \in {u \in told : ev_option[u].clear}},
          left |-> SelectSeq(SubSeq(ev_waiting, 1, i), LAMBDA t : t \notin told)]]

\* What the loop of rt_event_send leaves of a set of flags, and of the list,
\* when it has looked at the first i threads: a thread that is satisfied is
\* taken off the list, and if it clears what it receives, that is taken away
\* before the next thread is looked at.
SendLoop(set) ==
  LET after[i \in 0 .. Len(ev_waiting)] ==
        IF i = 0 THEN [set |-> set, left |-> <<>>]
        ELSE LET t == ev_waiting[i]
                 now == after[i - 1]
             IN  [set  |-> IF Content(t, now.set) /\ ev_option[t].clear
                           THEN now.set \ ev_want[t] ELSE now.set,
                  left |-> IF Content(t, now.set)
                           THEN now.left ELSE Append(now.left, t)]
  IN  after

\* MUTANT of EvSend: it stops after the first thread it resumed.
MutEvSendFirst(set) ==
  /\ ev_state = "live"
  /\ LET after == SendLoop(ev_set \cup set)
         told == {i \in DOMAIN ev_waiting :
                    /\ Content(ev_waiting[i], after[i - 1].set)
                    /\ \A j \in 1 .. i - 1 : ~Content(ev_waiting[j], after[j - 1].set)}
         threads == {ev_waiting[i] : i \in told}
     IN  /\ ev_set' = IF told = {} THEN after[0].set ELSE after[CHOOSE i \in told : TRUE].set
         /\ ev_waiting' = SelectSeq(ev_waiting, LAMBDA t : t \notin threads)
         /\ ev_call' = [t \in Threads |-> IF t \in threads THEN "received" ELSE ev_call[t]]
         /\ ev_got' = [t \in Threads |-> IF t \in threads THEN ev_want[t] \cap after[0].set
                                                         ELSE ev_got[t]]
  /\ UNCHANGED <<ev_state, ev_want, ev_option>>

\* By a thread or an interrupt handler, for a set that is not empty: the
\* flags are set, and every thread that is satisfied when the loop reaches
\* it is resumed with what it receives.
EvSend(set) ==
  /\ ev_state = "live"
  /\ LET after == SendLoop(ev_set \cup set)
         told == {i \in DOMAIN ev_waiting : Content(ev_waiting[i], after[i - 1].set)}
         threads == {ev_waiting[i] : i \in told}
         place(t) == CHOOSE i \in told : ev_waiting[i] = t
     IN  /\ ev_set' = after[Len(ev_waiting)].set
         /\ ev_waiting' = after[Len(ev_waiting)].left
         /\ ev_call' = [t \in Threads |-> IF t \in threads THEN "received" ELSE ev_call[t]]
         /\ ev_got' = [t \in Threads |->
                         IF t \in threads THEN ev_want[t] \cap after[place(t) - 1].set
                                          ELSE ev_got[t]]
  /\ UNCHANGED <<ev_state, ev_want, ev_option>>

-----------------------------------------------------------------------------
(* rt_event_control, rt_event_delete (rt_event_detach for static memory) *)

\* RT_IPC_CMD_RESET: everyone waiting is resumed with an error and no flag
\* is set, in one critical section.
EvReset ==
  /\ ev_state = "live"
  /\ ev_waiting' = <<>>
  /\ ev_call' = [t \in Threads |-> IF ev_call[t] = "ev_wait" THEN "ev_error" ELSE ev_call[t]]
  /\ ev_set' = {}
  /\ UNCHANGED <<ev_state, ev_want, ev_option, ev_got>>

EvDeleteCall ==
  /\ ev_state = "live"
  /\ ev_state' = "deleting"
  /\ UNCHANGED <<ev_set, ev_waiting, ev_call, ev_want, ev_option, ev_got>>

\* The condition of the loop of rt_ipc_list_resume_all, tested with
\* interrupts enabled.
EvDeleteTest ==
  /\ ev_state = "deleting"
  /\ ev_waiting # <<>>
  /\ ev_state' = "resuming"
  /\ UNCHANGED <<ev_set, ev_waiting, ev_call, ev_want, ev_option, ev_got>>

\* One round of the loop: a thread is resumed with an error.
EvDeleteResume ==
  /\ ev_state = "resuming"
  /\ ev_waiting # <<>>
  /\ ev_state' = "deleting"
  /\ ev_waiting' = Tail(ev_waiting)
  /\ ev_call' = [ev_call EXCEPT ![Head(ev_waiting)] = "ev_error"]
  /\ UNCHANGED <<ev_set, ev_want, ev_option, ev_got>>

\* The last thread on the list has timed out since the test: see MemPool.
EvDeleteHead ==
  /\ ev_state = "resuming"
  /\ ev_waiting = <<>>
  /\ ev_state' \in {"deleting", "lost"}
  /\ UNCHANGED <<ev_set, ev_waiting, ev_call, ev_want, ev_option, ev_got>>

\* The event object is freed.
EvDeleteFree ==
  /\ ev_state = "deleting"
  /\ ev_waiting = <<>>
  /\ ev_state' = "freed"
  /\ UNCHANGED <<ev_set, ev_waiting, ev_call, ev_want, ev_option, ev_got>>

-----------------------------------------------------------------------------
EvNext ==
  /\ ev_state # "lost"
  /\ \/ \E t \in Threads :
          \/ \E want \in (SUBSET Flags) \ {{}}, option \in Options :
               \/ EvRecvNow(t, want, option)
               \/ EvRecvRefused(t, want, option)
               \/ EvRecvSuspend(t, want, option)
          \/ EvTimeout(t) \/ EvReturn(t)
     \/ \E set \in (SUBSET Flags) \ {{}} : EvSend(set)
     \/ EvReset
     \/ EvDeleteCall \/ EvDeleteTest \/ EvDeleteResume \/ EvDeleteHead \/ EvDeleteFree

EvSpec == EvInit /\ [][EvNext]_evVars

-----------------------------------------------------------------------------
(* Properties *)

\* No thread sleeps while the flags it waits for are set, although a send
\* takes flags away from the threads behind the one that clears them, and
\* looks at each thread once.
NoneOversleeps == \A t \in Waiting(ev_waiting) : ~Content(t, ev_set)

\* The threads that a step gives flags to.
Told == {t \in Threads : ev_call[t] # "received" /\ ev_call'[t] = "received"}

\* A thread is told flags that satisfy what it asked for; and flags that a
\* thread clears as it receives them are neither set afterwards nor given to
\* a second thread that clears them by the same send.
ClearedOnce ==
  [][ \A t \in Told :
        /\ ev_got'[t] \subseteq ev_want'[t]
        /\ Satisfied(ev_want'[t], ev_option'[t], ev_got'[t])
        /\ ev_option'[t].clear =>
             /\ ev_got'[t] \cap ev_set' = {}
             /\ \A u \in Told \ {t} :
                  ev_option'[u].clear => ev_got'[t] \cap ev_got'[u] = {} ]_evVars

\* The threads on the list are those that wait, each once.
EvListExact ==
  /\ Distinct(ev_waiting)
  /\ Waiting(ev_waiting) = {t \in Threads : ev_call[t] = "ev_wait"}

=============================================================================
