---------------------------- MODULE BoundedFifo -----------------------------
(***************************************************************************)
(* What a message queue promises to the threads that call it: a first-in    *)
(* first-out queue of at most Capacity messages.                            *)
(*                                                                          *)
(* A push takes effect at one moment between call and return, at the end    *)
(* of the queue; so does a pop, at its front.  A call that waits without a  *)
(* limit fails only because the queue is reset or being deleted.            *)
(***************************************************************************)
EXTENDS Naturals, Sequences

CONSTANTS Callers, Messages, Capacity,
          Services   \* what else the queue offers: "urgent" (a push that
                     \* goes to the front), "reset", "expel" (a reset that
                     \* keeps the messages)

VARIABLES queue,     \* the messages, oldest first
          call,      \* what a caller is doing
          patience,  \* how long its call may wait
          letter,    \* the message it pushes or has popped
          result,    \* what its call returned
          closed     \* the queue is being deleted

fifoVars == <<queue, call, patience, letter, result, closed>>

FifoInit ==
  /\ queue = <<>>
  /\ call = [c \in Callers |-> "idle"]
  /\ patience = [c \in Callers |-> "limited"]
  /\ letter \in [Callers -> Messages]
  /\ result = [c \in Callers |-> "none"]
  /\ closed = FALSE

FifoCallPush(c) ==
  /\ ~closed
  /\ call[c] = "idle"
  /\ \E kind \in {"push"} \cup ({"urgent"} \cap Services) :
       call' = [call EXCEPT ![c] = kind]
  /\ \E w \in {"limited", "forever"} : patience' = [patience EXCEPT ![c] = w]
  /\ \E m \in Messages : letter' = [letter EXCEPT ![c] = m]
  /\ result' = [result EXCEPT ![c] = "none"]
  /\ UNCHANGED <<queue, closed>>

FifoCallPop(c) ==
  /\ ~closed
  /\ call[c] = "idle"
  /\ call' = [call EXCEPT ![c] = "pop"]
  /\ \E w \in {"limited", "forever"} : patience' = [patience EXCEPT ![c] = w]
  /\ result' = [result EXCEPT ![c] = "none"]
  /\ UNCHANGED <<queue, letter, closed>>

FifoEnqueue(c) ==
  /\ call[c] = "push"
  /\ Len(queue) < Capacity
  /\ queue' = Append(queue, letter[c])
  /\ call' = [call EXCEPT ![c] = "pushed"]
  /\ UNCHANGED <<patience, letter, result, closed>>

FifoEnqueueFirst(c) ==
  /\ call[c] = "urgent"
  /\ Len(queue) < Capacity
  /\ queue' = <<letter[c]>> \o queue
  /\ call' = [call EXCEPT ![c] = "pushed"]
  /\ UNCHANGED <<patience, letter, result, closed>>

FifoDequeue(c) ==
  /\ call[c] = "pop"
  /\ queue # <<>>
  /\ letter' = [letter EXCEPT ![c] = Head(queue)]
  /\ queue' = Tail(queue)
  /\ call' = [call EXCEPT ![c] = "popped"]
  /\ UNCHANGED <<patience, result, closed>>

FifoReturn(c) ==
  /\ call[c] \in {"pushed", "popped"}
  /\ call' = [call EXCEPT ![c] = "idle"]
  /\ patience' = [patience EXCEPT ![c] = "limited"]
  /\ result' = [result EXCEPT ![c] = "ok"]
  /\ UNCHANGED <<queue, letter, closed>>

Pending == {c \in Callers : call[c] \in {"push", "urgent", "pop"}}

\* Its time is up, or the queue is being deleted.
MayGiveUp(c) == c \in Pending /\ (patience[c] # "forever" \/ closed)

FifoRefuse(c) ==
  /\ MayGiveUp(c)
  /\ call' = [call EXCEPT ![c] = "refused"]
  /\ UNCHANGED <<queue, patience, letter, result, closed>>

FifoFail(c) ==
  /\ MayGiveUp(c) \/ call[c] = "refused"
  /\ call' = [call EXCEPT ![c] = "idle"]
  /\ patience' = [patience EXCEPT ![c] = "limited"]
  /\ result' = [result EXCEPT ![c] = "error"]
  /\ UNCHANGED <<queue, letter, closed>>

\* A reset drops the messages unless it only expels callers; any calls under
\* way may fail with it.
FifoReset ==
  /\ Services \cap {"reset", "expel"} # {}
  /\ queue' = IF "expel" \in Services THEN queue ELSE <<>>
  /\ \E expelled \in SUBSET Pending :
       call' = [c \in Callers |-> IF c \in expelled THEN "refused" ELSE call[c]]
  /\ UNCHANGED <<patience, letter, result, closed>>

FifoClose ==
  /\ closed' = TRUE
  /\ UNCHANGED <<queue, call, patience, letter, result>>

FifoNext ==
  \/ FifoClose
  \/ FifoReset
  \/ \E c \in Callers :
       \/ FifoCallPush(c) \/ FifoCallPop(c)
       \/ FifoEnqueue(c) \/ FifoEnqueueFirst(c) \/ FifoDequeue(c)
       \/ FifoReturn(c) \/ FifoRefuse(c) \/ FifoFail(c)

FifoSpec == FifoInit /\ [][FifoNext]_fifoVars

=============================================================================
