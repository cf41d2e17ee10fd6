------------------------------ MODULE Mailbox -------------------------------
(***************************************************************************)
(* The mailbox of rt-thread/src/ipc.c: a ring of Size mails with a list of  *)
(* threads that wait for a mail and a list of threads that wait for room.   *)
(*                                                                          *)
(* A step is a critical section; see MemPool.  Wait lists are FIFO: the     *)
(* mailboxes of this system are created with RT_IPC_FLAG_FIFO.              *)
(***************************************************************************)
EXTENDS KernelWait

CONSTANTS Mails,     \* what may be sent
          Size,      \* mb->size
          NoMail     \* an uninitialised slot or local variable

ASSUME MailboxAssumption ==
  /\ Size \in Nat \ {0}
  /\ NoMail \notin Mails

VARIABLES
  mb_state,               \* "live"; rt_mb_delete is about to test a list
                          \* ("deleting"), found that of the receivers
                          \* ("resume_recv") or of the senders ("resume_send")
                          \* not empty, is done ("freed"); "lost": see MemPool
  msg_pool, in_offset, out_offset, entry,
  suspend_recv_thread,    \* mb->parent.suspend_thread
  suspend_sender_thread,
  mb_call,                \* where a thread is in rt_mb_send_wait or rt_mb_recv
  mb_timeout,             \* what is left of its waiting time
  mb_value                \* the mail it sends, or the one it received

mbVars == <<mb_state, msg_pool, in_offset, out_offset, entry,
            suspend_recv_thread, suspend_sender_thread,
            mb_call, mb_timeout, mb_value>>

SendPoints == {"send", "send_wait", "sent", "send_error"}
RecvPoints == {"recv", "recv_wait", "recvd", "recv_error"}

MbTypeOK ==
  /\ mb_state \in {"live", "deleting", "resume_recv", "resume_send", "lost", "freed"}
  /\ msg_pool \in [0 .. Size - 1 -> Mails \cup {NoMail}]
  /\ in_offset \in 0 .. Size - 1
  /\ out_offset \in 0 .. Size - 1
  /\ entry \in 0 .. Size
  /\ suspend_recv_thread \in Seq(Threads)
  /\ suspend_sender_thread \in Seq(Threads)
  /\ mb_call \in [Threads -> {"out"} \cup SendPoints \cup RecvPoints]
  /\ mb_timeout \in [Threads -> Timeouts]
  /\ mb_value \in [Threads -> Mails \cup {NoMail}]

\* rt_mb_create, rt_mb_init
MbInit ==
  /\ mb_state = "live"
  /\ msg_pool = [i \in 0 .. Size - 1 |-> NoMail]
  /\ in_offset = 0
  /\ out_offset = 0
  /\ entry = 0
  /\ suspend_recv_thread = <<>>
  /\ suspend_sender_thread = <<>>
  /\ mb_call = [t \in Threads |-> "out"]
  /\ mb_timeout = [t \in Threads |-> "no_wait"]
  /\ mb_value = [t \in Threads |-> NoMail]

\* MUTANT of NextOffset: off by one at the end of the ring.
MutNextOffset(i) == IF i + 1 > Size THEN 0 ELSE i + 1

\* The offset after i, back to 0 at the end of the ring.
NextOffset(i) == IF i + 1 >= Size THEN 0 ELSE i + 1

\* The points of the threads after t moved to `to' and the first thread of
\* a wait list, if there is one, was resumed to `again'.
Moved(t, to, list, again) ==
  IF list = <<>> THEN [mb_call EXCEPT ![t] = to]
                 ELSE [mb_call EXCEPT ![t] = to, ![Head(list)] = again]

\* rt_ipc_list_resume, if the list is not empty.
Resumed(list) == IF list = <<>> THEN <<>> ELSE Tail(list)

\* The waiting times after the first thread of a list, if there is one, was
\* resumed: it will find how much of its own is left.
TimeLeft(list) ==
  IF list = <<>> THEN {mb_timeout}
  ELSE {[mb_timeout EXCEPT ![Head(list)] = left] : left \in Remaining(mb_timeout[Head(list)])}

-----------------------------------------------------------------------------
(* rt_mb_send_wait (rt_mb_send is the same with no waiting time) *)

MbSendCall(t, value, timeout) ==
  /\ mb_state = "live"
  /\ mb_call[t] = "out"
  /\ mb_call' = [mb_call EXCEPT ![t] = "send"]
  /\ mb_timeout' = [mb_timeout EXCEPT ![t] = timeout]
  /\ mb_value' = [mb_value EXCEPT ![t] = value]
  /\ UNCHANGED <<mb_state, msg_pool, in_offset, out_offset, entry,
                 suspend_recv_thread, suspend_sender_thread>>

\* MUTANT of MbSendFull: one slot is kept free.
MutSendFullEarly(t) ==
  /\ mb_call[t] = "send"
  /\ entry + 1 >= Size
  /\ mb_timeout[t] = "no_wait"
  /\ mb_call' = [mb_call EXCEPT ![t] = "send_error"]
  /\ UNCHANGED <<mb_state, msg_pool, in_offset, out_offset, entry,
                 suspend_recv_thread, suspend_sender_thread, mb_timeout, mb_value>>

\* The mailbox is full and there is no time left: -RT_EFULL.
MbSendFull(t) ==
  /\ mb_call[t] = "send"
  /\ entry = Size
  /\ mb_timeout[t] = "no_wait"
  /\ mb_call' = [mb_call EXCEPT ![t] = "send_error"]
  /\ UNCHANGED <<mb_state, msg_pool, in_offset, out_offset, entry,
                 suspend_recv_thread, suspend_sender_thread, mb_timeout, mb_value>>

\* The mailbox is full: the thread waits for room.
MbSendSuspend(t) ==
  /\ mb_call[t] = "send"
  /\ entry = Size
  /\ mb_timeout[t] # "no_wait"
  /\ mb_call' = [mb_call EXCEPT ![t] = "send_wait"]
  /\ suspend_sender_thread' = EnqueueLast(suspend_sender_thread, t)
  /\ UNCHANGED <<mb_state, msg_pool, in_offset, out_offset, entry,
                 suspend_recv_thread, mb_timeout, mb_value>>

\* MUTANT of MbSendPut: a receiver is only resumed if the mailbox was empty.
MutSendPutIfEmpty(t) ==
  /\ mb_call[t] = "send"
  /\ entry # Size
  /\ msg_pool' = [msg_pool EXCEPT ![in_offset] = mb_value[t]]
  /\ in_offset' = NextOffset(in_offset)
  /\ entry' = entry + 1
  /\ IF entry = 0
     THEN /\ mb_call' = Moved(t, "sent", suspend_recv_thread, "recv")
          /\ suspend_recv_thread' = Resumed(suspend_recv_thread)
     ELSE /\ mb_call' = [mb_call EXCEPT ![t] = "sent"]
          /\ UNCHANGED suspend_recv_thread
  /\ UNCHANGED <<mb_state, out_offset, suspend_sender_thread, mb_timeout, mb_value>>

\* MUTANT of MbSendPut: no receiver is resumed.
MutSendPutSilent(t) ==
  /\ mb_call[t] = "send"
  /\ entry # Size
  /\ msg_pool' = [msg_pool EXCEPT ![in_offset] = mb_value[t]]
  /\ in_offset' = NextOffset(in_offset)
  /\ entry' = entry + 1
  /\ mb_call' = [mb_call EXCEPT ![t] = "sent"]
  /\ UNCHANGED <<mb_state, out_offset, suspend_recv_thread,
                 suspend_sender_thread, mb_timeout, mb_value>>

\* There is room: the mail is put in and the first receiver resumed.
MbSendPut(t) ==
  /\ mb_call[t] = "send"
  /\ entry # Size
  /\ msg_pool' = [msg_pool EXCEPT ![in_offset] = mb_value[t]]
  /\ in_offset' = NextOffset(in_offset)
  /\ entry' = entry + 1
  /\ mb_call' = Moved(t, "sent", suspend_recv_thread, "recv")
  /\ mb_timeout' \in TimeLeft(suspend_recv_thread)
  /\ suspend_recv_thread' = Resumed(suspend_recv_thread)
  /\ UNCHANGED <<mb_state, out_offset, suspend_sender_thread, mb_value>>

\* rt_thread_timeout for a thread that waits for room.
MbSendTimeout(t) ==
  /\ mb_call[t] = "send_wait"
  /\ mb_timeout[t] = "ticks"
  /\ mb_call' = [mb_call EXCEPT ![t] = "send_error"]
  /\ suspend_sender_thread' = Unlink(suspend_sender_thread, t)
  /\ UNCHANGED <<mb_state, msg_pool, in_offset, out_offset, entry,
                 suspend_recv_thread, mb_timeout, mb_value>>

-----------------------------------------------------------------------------
(* rt_mb_recv *)

MbRecvCall(t, timeout) ==
  /\ mb_state = "live"
  /\ mb_call[t] = "out"
  /\ mb_call' = [mb_call EXCEPT ![t] = "recv"]
  /\ mb_timeout' = [mb_timeout EXCEPT ![t] = timeout]
  /\ UNCHANGED <<mb_state, msg_pool, in_offset, out_offset, entry,
                 suspend_recv_thread, suspend_sender_thread, mb_value>>

\* The mailbox is empty and there is no time left: -RT_ETIMEOUT.
MbRecvEmpty(t) ==
  /\ mb_call[t] = "recv"
  /\ entry = 0
  /\ mb_timeout[t] = "no_wait"
  /\ mb_call' = [mb_call EXCEPT ![t] = "recv_error"]
  /\ UNCHANGED <<mb_state, msg_pool, in_offset, out_offset, entry,
                 suspend_recv_thread, suspend_sender_thread, mb_timeout, mb_value>>

\* The mailbox is empty: the thread waits for a mail.
MbRecvSuspend(t) ==
  /\ mb_call[t] = "recv"
  /\ entry = 0
  /\ mb_timeout[t] # "no_wait"
  /\ mb_call' = [mb_call EXCEPT ![t] = "recv_wait"]
  /\ suspend_recv_thread' = EnqueueLast(suspend_recv_thread, t)
  /\ UNCHANGED <<mb_state, msg_pool, in_offset, out_offset, entry,
                 suspend_sender_thread, mb_timeout, mb_value>>

\* There is a mail: it is taken out and the first sender resumed.
MbRecvTake(t) ==
  /\ mb_call[t] = "recv"
  /\ entry # 0
  /\ mb_value' = [mb_value EXCEPT ![t] = msg_pool[out_offset]]
  /\ out_offset' = NextOffset(out_offset)
  /\ entry' = entry - 1
  /\ mb_call' = Moved(t, "recvd", suspend_sender_thread, "send")
  /\ mb_timeout' \in TimeLeft(suspend_sender_thread)
  /\ suspend_sender_thread' = Resumed(suspend_sender_thread)
  /\ UNCHANGED <<mb_state, msg_pool, in_offset, suspend_recv_thread>>

\* rt_thread_timeout for a thread that waits for a mail.
MbRecvTimeout(t) ==
  /\ mb_call[t] = "recv_wait"
  /\ mb_timeout[t] = "ticks"
  /\ mb_call' = [mb_call EXCEPT ![t] = "recv_error"]
  /\ suspend_recv_thread' = Unlink(suspend_recv_thread, t)
  /\ UNCHANGED <<mb_state, msg_pool, in_offset, out_offset, entry,
                 suspend_sender_thread, mb_timeout, mb_value>>

\* The caller of rt_mb_send_wait or rt_mb_recv takes up its result; the
\* locals of the call go.
MbReturn(t) ==
  /\ mb_call[t] \in {"sent", "send_error", "recvd", "recv_error"}
  /\ mb_call' = [mb_call EXCEPT ![t] = "out"]
  /\ mb_timeout' = [mb_timeout EXCEPT ![t] = "no_wait"]
  /\ mb_value' = [mb_value EXCEPT ![t] = NoMail]
  /\ UNCHANGED <<mb_state, msg_pool, in_offset, out_offset, entry,
                 suspend_recv_thread, suspend_sender_thread>>

-----------------------------------------------------------------------------
(* rt_mb_delete (rt_mb_detach is the same for static memory), rt_mb_control *)

MbDeleteCall ==
  /\ mb_state = "live"
  /\ mb_state' = "deleting"
  /\ UNCHANGED <<msg_pool, in_offset, out_offset, entry, suspend_recv_thread,
                 suspend_sender_thread, mb_call, mb_timeout, mb_value>>

\* The condition of the loop of rt_ipc_list_resume_all for the receivers,
\* tested with interrupts enabled.
MbDeleteTestRecv ==
  /\ mb_state = "deleting"
  /\ suspend_recv_thread # <<>>
  /\ mb_state' = "resume_recv"
  /\ UNCHANGED <<msg_pool, in_offset, out_offset, entry, suspend_recv_thread,
                 suspend_sender_thread, mb_call, mb_timeout, mb_value>>

\* The same for the senders, once the receivers are gone.
MbDeleteTestSender ==
  /\ mb_state = "deleting"
  /\ suspend_recv_thread = <<>>
  /\ suspend_sender_thread # <<>>
  /\ mb_state' = "resume_send"
  /\ UNCHANGED <<msg_pool, in_offset, out_offset, entry, suspend_recv_thread,
                 suspend_sender_thread, mb_call, mb_timeout, mb_value>>

\* MUTANT of MbDeleteResumeRecv: the thread is resumed without an error.
MutDeleteResumeRecvNoError ==
  /\ mb_state = "resume_recv"
  /\ suspend_recv_thread # <<>>
  /\ mb_state' = "deleting"
  /\ mb_call' = [mb_call EXCEPT ![Head(suspend_recv_thread)] = "recv"]
  /\ suspend_recv_thread' = Tail(suspend_recv_thread)
  /\ UNCHANGED <<msg_pool, in_offset, out_offset, entry,
                 suspend_sender_thread, mb_timeout, mb_value>>

\* One round on the receivers: the thread is resumed with an error and does
\* not look at the mailbox again.
MbDeleteResumeRecv ==
  /\ mb_state = "resume_recv"
  /\ suspend_recv_thread # <<>>
  /\ mb_state' = "deleting"
  /\ mb_call' = [mb_call EXCEPT ![Head(suspend_recv_thread)] = "recv_error"]
  /\ suspend_recv_thread' = Tail(suspend_recv_thread)
  /\ UNCHANGED <<msg_pool, in_offset, out_offset, entry,
                 suspend_sender_thread, mb_timeout, mb_value>>

\* One round on the senders.
MbDeleteResumeSender ==
  /\ mb_state = "resume_send"
  /\ suspend_sender_thread # <<>>
  /\ mb_state' = "deleting"
  /\ mb_call' = [mb_call EXCEPT ![Head(suspend_sender_thread)] = "send_error"]
  /\ suspend_sender_thread' = Tail(suspend_sender_thread)
  /\ UNCHANGED <<msg_pool, in_offset, out_offset, entry,
                 suspend_recv_thread, mb_timeout, mb_value>>

\* The last thread on the list has timed out since the test, and the list
\* head is taken for a thread: what is written to its "error" is beyond the
\* fields a deletion still reads, and the resume is refused or puts the head
\* into the ready table.
MbDeleteHead ==
  /\ \/ mb_state = "resume_recv" /\ suspend_recv_thread = <<>>
     \/ mb_state = "resume_send" /\ suspend_sender_thread = <<>>
  /\ mb_state' \in {"deleting", "lost"}
  /\ UNCHANGED <<msg_pool, in_offset, out_offset, entry, suspend_recv_thread,
                 suspend_sender_thread, mb_call, mb_timeout, mb_value>>

\* The ring and the mailbox object are freed.
MbDeleteFree ==
  /\ mb_state = "deleting"
  /\ suspend_recv_thread = <<>>
  /\ suspend_sender_thread = <<>>
  /\ mb_state' = "freed"
  /\ UNCHANGED <<msg_pool, in_offset, out_offset, entry, suspend_recv_thread,
                 suspend_sender_thread, mb_call, mb_timeout, mb_value>>

MbDeleteStep ==
  \/ MbDeleteTestRecv \/ MbDeleteResumeRecv
  \/ MbDeleteTestSender \/ MbDeleteResumeSender
  \/ MbDeleteHead \/ MbDeleteFree

\* RT_IPC_CMD_RESET: everyone waiting is resumed with an error and the mails
\* are forgotten, in one critical section.
MbReset ==
  /\ mb_state = "live"
  /\ mb_call' = [t \in Threads |-> CASE mb_call[t] = "recv_wait" -> "recv_error"
                                    [] mb_call[t] = "send_wait" -> "send_error"
                                    [] OTHER -> mb_call[t]]
  /\ suspend_recv_thread' = <<>>
  /\ suspend_sender_thread' = <<>>
  /\ entry' = 0
  /\ in_offset' = 0
  /\ out_offset' = 0
  /\ UNCHANGED <<mb_state, msg_pool, mb_timeout, mb_value>>

-----------------------------------------------------------------------------
\* What a thread does inside rt_mb_send_wait or rt_mb_recv, its timer included.
MbSendStep(t) ==
  MbSendFull(t) \/ MbSendSuspend(t) \/ MbSendPut(t) \/ MbSendTimeout(t)

MbRecvStep(t) ==
  MbRecvEmpty(t) \/ MbRecvSuspend(t) \/ MbRecvTake(t) \/ MbRecvTimeout(t)

\* rt_mb_delete may only be called once every thread that uses the mailbox
\* is waiting in it: one about to look at it would use freed memory.
MbQuiet == \A t \in Threads : mb_call[t] \in {"out", "send_wait", "recv_wait"}

\* A mailbox used directly.
MbNext ==
  /\ mb_state # "lost"
  /\ \/ \E t \in Threads :
          \/ \E m \in Mails, timeout \in Timeouts : MbSendCall(t, m, timeout)
          \/ \E timeout \in Timeouts : MbRecvCall(t, timeout)
          \/ MbSendStep(t)
          \/ MbRecvStep(t)
          \/ MbReturn(t)
     \/ MbReset
     \/ MbQuiet /\ MbDeleteCall
     \/ MbDeleteStep

MbSpec == MbInit /\ [][MbNext]_mbVars

-----------------------------------------------------------------------------
(* Properties *)

\* A receiver never sleeps while there are mails for it: whenever one waits,
\* every mail has a thread on its way to take it.
MbNoLostMail ==
  suspend_recv_thread # <<>> =>
    entry <= Cardinality({t \in Threads : mb_call[t] = "recv"})

\* A sender never sleeps while there is room for it: whenever one waits,
\* every free slot has a thread on its way to fill it.
MbNoLostRoom ==
  suspend_sender_thread # <<>> =>
    Size - entry <= Cardinality({t \in Threads : mb_call[t] = "send"})

\* Neither side sleeps while the other has done its part.
MbNoLostWakeup == MbNoLostMail /\ MbNoLostRoom

\* A thread waits in rt_mb_recv or rt_mb_send_wait exactly while it is on
\* the list that resumes that wait, and it is there once: a timeout, a
\* resume and a reset leave no thread asleep off the lists.
MbListsExact ==
  /\ Waiting(suspend_recv_thread) = {t \in Threads : mb_call[t] = "recv_wait"}
  /\ Waiting(suspend_sender_thread) = {t \in Threads : mb_call[t] = "send_wait"}
  /\ Cardinality(Waiting(suspend_recv_thread)) = Len(suspend_recv_thread)
  /\ Cardinality(Waiting(suspend_sender_thread)) = Len(suspend_sender_thread)

\* Once rt_mb_delete has freed the mailbox no thread sleeps on its lists or
\* is about to look into it.
MbFreedUntouched ==
  mb_state = "freed" =>
    \A t \in Threads : mb_call[t] \notin {"send", "send_wait", "recv", "recv_wait"}

=============================================================================
