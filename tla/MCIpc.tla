------------------------------- MODULE MCIpc --------------------------------
(***************************************************************************)
(* TLC instance of the kernel objects, see MCIpc.cfg: which one is used is  *)
(* chosen in the initial state and the others stay as they were created.    *)
(***************************************************************************)
EXTENDS MemPool, Mailbox, MsgQueue, Event, DataQueue, Workqueue, TLC

VARIABLE subject

ipcVars == <<mpVars, mbVars, semVars, wqVars, mqVars, evVars, dqVars, subject>>

\* There is no work queue, nor a thread that is its thread.
NoWorkqueue ==
  /\ work_thread = NoWork /\ work_list = NoWork /\ work_current = NoWork
  /\ wq_at = NoWork /\ wq_call = NoWork /\ wq_work = NoWork /\ wq_wild = NoWork

Init ==
  /\ subject \in {"pool", "mailbox", "semaphore", "workqueue", "message queue",
                  "event", "data queue"}
  /\ MpInit /\ MbInit /\ MqInit /\ EvInit /\ DqInit
  /\ \E v \in IF subject = "semaphore" THEN 0 .. SemModulus - 1 ELSE {0} : SemInit(v)
  /\ IF subject = "workqueue" THEN WqInit ELSE NoWorkqueue

OfPool == UNCHANGED mpVars
OfMailbox == UNCHANGED mbVars
OfSemaphore == UNCHANGED semVars
OfWorkqueue == UNCHANGED wqVars
OfMsgQueue == UNCHANGED mqVars
OfEvent == UNCHANGED evVars
OfDataQueue == UNCHANGED dqVars

Next ==
  /\ UNCHANGED subject
  /\ CASE subject = "pool" ->
            /\ MpNext
            /\ OfMailbox /\ OfSemaphore /\ OfWorkqueue /\ OfMsgQueue /\ OfEvent /\ OfDataQueue
       [] subject = "mailbox" ->
            /\ MbNext
            /\ OfPool /\ OfSemaphore /\ OfWorkqueue /\ OfMsgQueue /\ OfEvent /\ OfDataQueue
       [] subject = "semaphore" ->
            /\ SemNext
            /\ OfPool /\ OfMailbox /\ OfWorkqueue /\ OfMsgQueue /\ OfEvent /\ OfDataQueue
       [] subject = "workqueue" ->
            /\ WqNext
            /\ OfPool /\ OfMailbox /\ OfMsgQueue /\ OfEvent /\ OfDataQueue
       [] subject = "message queue" ->
            /\ MqNext
            /\ OfPool /\ OfMailbox /\ OfSemaphore /\ OfWorkqueue /\ OfEvent /\ OfDataQueue
       [] subject = "event" ->
            /\ EvNext
            /\ OfPool /\ OfMailbox /\ OfSemaphore /\ OfWorkqueue /\ OfMsgQueue /\ OfDataQueue
       [] subject = "data queue" ->
            /\ DqNext
            /\ OfPool /\ OfMailbox /\ OfSemaphore /\ OfWorkqueue /\ OfMsgQueue /\ OfEvent

Spec == Init /\ [][Next]_ipcVars

\* Threads are only told apart by what they do, and so are the blocks, slots,
\* works and flags, for which the instance uses the same names, and messages.
Permuted == Permutations(Threads) \cup Permutations(Slots) \cup Permutations(Messages)

\* The state without the values that are written again before they are read:
\* how the last call ended, the buffers of threads that neither send nor have
\* just received, and what free places hold.
Call(call) == [t \in Threads |-> IF call[t] \in MqIdle THEN "none" ELSE call[t]]
Kept(f, used) == [x \in DOMAIN f |-> IF x \in used THEN f[x] ELSE NoSlot]

LiveState ==
  LET mqUsed == {t \in Threads : mq_call[t] \in
                   {"send", "send_copy", "urgent", "urgent_copy", "recvd"}}
      mqFull == Waiting(mq_list) \cup {mq_slot[t] : t \in Threads}
      dqUsed == {t \in Threads : dq_call[t] \in {"push", "push_wait", "popped"}}
      dqFull == {Slot(n) : n \in dq_gets .. dq_puts - 1}
  IN  <<subject, mpVars, mbVars, semVars, wqVars, evVars,
        mq_state, mq_free, mq_list, mq_entry, mq_waiting, mq_time, mq_slot, Call(mq_call),
        Kept(mq_buffer, mqUsed), Kept(mq_content, mqFull),
        dq_puts, dq_gets, dq_pushers, dq_poppers, dq_time, dq_reset, dq_overrun, Call(dq_call),
        Kept(dq_buffer, dqUsed), Kept(dq_item, dqFull)>>

-----------------------------------------------------------------------------
(* Properties of the objects together *)

\* The state variables hold what the source declares them to hold.
IpcTypeOK ==
  /\ MpTypeOK /\ MbTypeOK /\ SemTypeOK /\ MqTypeOK /\ EvTypeOK /\ DqTypeOK
  /\ subject = "workqueue" => WqTypeOK

\* For every object: a thread sleeps in a call exactly while it is on the
\* list that resumes that call, and it is there once, whatever the order of
\* timeouts, resumes, resets and deletions; the same for the works of a work
\* queue.
ListsExact ==
  /\ MbListsExact
  /\ SemListExact
  /\ subject = "workqueue" => WorkInOnePlace
  /\ MqListExact
  /\ EvListExact
  /\ DqListsExact

\* Nobody sleeps in or is about to look into an object that has been freed.
FreedUntouched ==
  /\ MpFreedUntouched
  /\ MbFreedUntouched
  /\ sem_state = "freed" => sem_waiting = <<>>
  /\ mq_state = "freed" => \A t \in Threads : mq_call[t] \in MqIdle \cup {"recv_error"}
  /\ ev_state = "freed" => ev_waiting = <<>>

\* Of the semaphore as the work queue uses it: see SyncAnswered.
WorkqueueAnswers == subject = "workqueue" => SyncAnswered

=============================================================================
