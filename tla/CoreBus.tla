------------------------------ MODULE CoreBus -------------------------------
(***************************************************************************)
(* The message bus of the Wi-Fi core, beken378/app/app.c: threads and       *)
(* interrupt handlers push messages to g_wifi_core.io_queue, core_thread    *)
(* pops and handles them one at a time and lets the kernel of the MAC run   *)
(* after each of them.                                                      *)
(*                                                                          *)
(* The queue is the one BoundedFifo specifies and RtosQueue is shown to     *)
(* implement; it may refuse a push that does not wait for ever, also when   *)
(* it seems to have room, since a block may be on its way.  Messages that   *)
(* carry nothing and do nothing but let the kernel run are one type,        *)
(* "null".  The kernel of the MAC is a library: see MsgConfirm.             *)
(***************************************************************************)
EXTENDS Naturals, Sequences, FiniteSets

CONSTANTS
  core_thread,
  RxSenders,   \* contexts that call bmsg_rx_sender
  TxSenders,   \* threads of the IP stack that call bmsg_tx_sender
  Requesters,  \* threads that call rw_msg_send
  Pbufs,       \* the packets of the IP stack
  Ids,         \* what is asked of the MAC, named by the id of the answer
  None,
  CORE_QITEM_COUNT

Callers == {core_thread} \cup RxSenders \cup TxSenders \cup Requesters

\* A thread that calls several of the senders has a name for each of them.
ASSUME CoreBusAssumption ==
  /\ IsFiniteSet(Callers)
  /\ core_thread \notin RxSenders \cup TxSenders \cup Requesters
  /\ RxSenders \cap TxSenders = {}
  /\ (RxSenders \cup TxSenders) \cap Requesters = {}

BusMessages ==
  [type : {"rx", "null"}, arg : {None}] \cup [type : {"tx"}, arg : Pbufs]
    \cup [type : {"ioctl"}, arg : Ids]

NullMessage == [type |-> "null", arg |-> None]

VARIABLES io_queue, bus_call, bus_patience, bus_msg, bus_ret, bus_closed,
          bmsg_rx_count,
          rx_refused,  \* history: how many of the messages it counts the bus refused
          pbuf_ref,    \* p->ref; 0: not allocated
          core_at,     \* where core_thread is in its loop
          msg          \* the message it handles

busVars == <<io_queue, bus_call, bus_patience, bus_msg, bus_ret, bus_closed>>
coreVars == <<core_at, msg>>
cbVars == <<busVars, bmsg_rx_count, rx_refused, pbuf_ref, coreVars>>

Bus == INSTANCE BoundedFifo WITH
  Messages <- BusMessages, Capacity <- CORE_QITEM_COUNT, Services <- {},
  queue <- io_queue, call <- bus_call, patience <- bus_patience,
  letter <- bus_msg, result <- bus_ret, closed <- bus_closed

CbTypeOK ==
  /\ io_queue \in Seq(BusMessages)
  /\ bus_call \in [Callers -> {"idle", "push", "pushed", "pop", "popped"}]
  /\ bus_patience \in [Callers -> {"limited", "forever"}]
  /\ bus_msg \in [Callers -> BusMessages]
  /\ bus_ret \in [Callers -> {"none", "ok", "error"}]
  /\ ~bus_closed
  /\ bmsg_rx_count \in 0 .. 2
  /\ rx_refused \in 0 .. 2
  /\ pbuf_ref \in [Pbufs -> 0 .. 2]
  /\ core_at \in {"pop", "handle", "wake", "transfer", "schedule", "forward"}
  /\ msg \in BusMessages

\* core_thread_init.  What message buffers hold at first does not matter.
CbInit ==
  /\ bus_msg = [c \in Callers |-> NullMessage]
  /\ Bus!FifoInit
  /\ bmsg_rx_count = 0
  /\ rx_refused = 0
  /\ pbuf_ref = [p \in Pbufs |-> 0]
  /\ core_at = "pop"
  /\ msg = NullMessage

\* c calls rtos_push_to_queue with the message m.  Its result, which it has
\* not looked at as long as it is not "none", must have been taken up.
Push(c, m) ==
  /\ bus_ret[c] = "none"
  /\ Bus!FifoCallPush(c)
  /\ bus_patience'[c] = "limited"
  /\ bus_msg'[c] = m

\* c takes up the result r; the message on its stack is gone.
Result(c, r) ==
  /\ bus_ret[c] = r
  /\ bus_ret' = [bus_ret EXCEPT ![c] = "none"]
  /\ bus_msg' = [bus_msg EXCEPT ![c] = NullMessage]
  /\ UNCHANGED <<io_queue, bus_call, bus_patience, bus_closed>>

\* What goes on inside the queue.
BusStep ==
  /\ \E c \in Callers : \/ Bus!FifoEnqueue(c) \/ Bus!FifoDequeue(c)
                        \/ c # core_thread /\ Bus!FifoReturn(c)
                        \/ Bus!FifoFail(c)
  /\ UNCHANGED <<bmsg_rx_count, rx_refused, pbuf_ref, coreVars>>

-----------------------------------------------------------------------------
(* Received frames *)

\* MUTANT of RxSend: the limit is off by one.
MutRxSendOneMore(c) ==
  /\ bmsg_rx_count <= 2
  /\ bmsg_rx_count' = bmsg_rx_count + 1
  /\ Push(c, [type |-> "rx", arg |-> None])
  /\ UNCHANGED <<rx_refused, pbuf_ref, coreVars>>

\* bmsg_rx_sender, which does nothing while two of its messages are about.
RxSend(c) ==
  /\ bmsg_rx_count < 2
  /\ bmsg_rx_count' = bmsg_rx_count + 1
  /\ Push(c, [type |-> "rx", arg |-> None])
  /\ UNCHANGED <<rx_refused, pbuf_ref, coreVars>>

RxSent(c) ==
  /\ Result(c, "ok")
  /\ UNCHANGED <<bmsg_rx_count, rx_refused, pbuf_ref, coreVars>>

\* "bmsg_rx_sender_failed": the message stays counted.
RxRefused(c) ==
  /\ Result(c, "error")
  /\ rx_refused' = rx_refused + 1
  /\ UNCHANGED <<bmsg_rx_count, pbuf_ref, coreVars>>

-----------------------------------------------------------------------------
(* Packets to be sent *)

\* MUTANT of TxSend: the reference is taken by whoever handles the message.
MutTxSendNoRef(c, p) ==
  /\ pbuf_ref[p] = 0
  /\ pbuf_ref' = [pbuf_ref EXCEPT ![p] = 1]
  /\ Push(c, [type |-> "tx", arg |-> p])
  /\ UNCHANGED <<bmsg_rx_count, rx_refused, coreVars>>

\* The stack hands a new packet, which it holds itself until
\* low_level_output returns, to bmsg_tx_sender: pbuf_ref, then the push.
TxSend(c, p) ==
  /\ pbuf_ref[p] = 0
  /\ pbuf_ref' = [pbuf_ref EXCEPT ![p] = 2]
  /\ Push(c, [type |-> "tx", arg |-> p])
  /\ UNCHANGED <<bmsg_rx_count, rx_refused, coreVars>>

\* The stack frees the packet after that.
TxSent(c) ==
  /\ Result(c, "ok")
  /\ pbuf_ref' = [pbuf_ref EXCEPT ![bus_msg[c].arg] = @ - 1]
  /\ UNCHANGED <<bmsg_rx_count, rx_refused, coreVars>>

\* "bmsg_tx_sender failed": pbuf_free, and the stack frees it too.
TxRefused(c) ==
  /\ Result(c, "error")
  /\ pbuf_ref' = [pbuf_ref EXCEPT ![bus_msg[c].arg] = @ - 2]
  /\ UNCHANGED <<bmsg_rx_count, rx_refused, coreVars>>

-----------------------------------------------------------------------------
(* core_thread_main *)

CorePop ==
  /\ core_at = "pop"
  /\ bus_ret[core_thread] = "none"
  /\ Bus!FifoCallPop(core_thread)
  /\ bus_patience'[core_thread] = "forever"
  /\ UNCHANGED <<bmsg_rx_count, rx_refused, pbuf_ref, coreVars>>

\* rtos_pop_from_queue returns.
CorePopped ==
  /\ core_at = "pop"
  /\ bus_call[core_thread] = "popped"
  /\ bus_call' = [bus_call EXCEPT ![core_thread] = "idle"]
  /\ bus_patience' = [bus_patience EXCEPT ![core_thread] = "limited"]
  /\ core_at' = "handle"
  /\ msg' = bus_msg[core_thread]
  /\ bus_msg' = [bus_msg EXCEPT ![core_thread] = NullMessage]
  /\ UNCHANGED <<io_queue, bus_ret, bus_closed, bmsg_rx_count, rx_refused, pbuf_ref>>

Handle(type, next) ==
  /\ core_at = "handle"
  /\ msg.type = type
  /\ core_at' = next
  /\ UNCHANGED msg

\* MUTANT of CoreHandleRx: the count starts again at 0.
MutCoreHandleRxReset ==
  /\ Handle("rx", "schedule")
  /\ bmsg_rx_count' = 0
  /\ UNCHANGED <<busVars, rx_refused, pbuf_ref>>

\* bmsg_rx_handler
CoreHandleRx ==
  /\ Handle("rx", "schedule")
  /\ bmsg_rx_count' = IF bmsg_rx_count > 0 THEN bmsg_rx_count - 1 ELSE bmsg_rx_count
  /\ UNCHANGED <<busVars, rx_refused, pbuf_ref>>

\* bmsg_tx_handler: power_save_rf_dtim_manual_do_wakeup has something to wake
\* or not.  A packet in pieces that pbuf_coalesce cannot join is freed without
\* rwm_transfer; what happens to its references is the same.
CoreHandleTx ==
  /\ \E next \in {"wake", "transfer"} : Handle("tx", next)
  /\ UNCHANGED <<busVars, bmsg_rx_count, rx_refused, pbuf_ref>>

\* bmsg_null_sender, unless the queue holds a message.
CoreWake ==
  /\ core_at = "wake"
  /\ core_at' = "transfer"
  /\ IF io_queue = <<>> THEN Push(core_thread, NullMessage) ELSE UNCHANGED busVars
  /\ UNCHANGED <<bmsg_rx_count, rx_refused, pbuf_ref, msg>>

\* rtos_push_to_queue returns to core_thread; how does not matter to it.
CoreWoken ==
  /\ core_at = "transfer"
  /\ \/ Bus!FifoReturn(core_thread) /\ UNCHANGED <<core_at, msg>>
     \/ \E r \in {"ok", "error"} : Result(core_thread, r) /\ UNCHANGED <<core_at, msg>>
  /\ UNCHANGED <<bmsg_rx_count, rx_refused, pbuf_ref>>

\* rwm_transfer and pbuf_free.
CoreTransfer ==
  /\ core_at = "transfer"
  /\ bus_call[core_thread] = "idle"
  /\ bus_ret[core_thread] = "none"
  /\ pbuf_ref' = [pbuf_ref EXCEPT ![msg.arg] = @ - 1]
  /\ core_at' = "schedule"
  /\ UNCHANGED <<busVars, bmsg_rx_count, rx_refused, msg>>

CoreHandleNull ==
  /\ Handle("null", "schedule")
  /\ UNCHANGED <<busVars, bmsg_rx_count, rx_refused, pbuf_ref>>

\* ke_evt_core_scheduler returns.
CoreScheduled ==
  /\ core_at = "schedule"
  /\ core_at' = "pop"
  /\ msg' = NullMessage
  /\ UNCHANGED <<busVars, bmsg_rx_count, rx_refused, pbuf_ref>>

-----------------------------------------------------------------------------
CbStep ==
  \/ BusStep
  \/ \E c \in RxSenders : RxSend(c) \/ RxSent(c) \/ RxRefused(c)
  \/ \E c \in TxSenders : \/ \E p \in Pbufs : TxSend(c, p)
                          \/ TxSent(c) \/ TxRefused(c)
  \/ CorePop \/ CorePopped \/ CoreHandleRx \/ CoreHandleTx \/ CoreWake
  \/ CoreWoken \/ CoreTransfer \/ CoreHandleNull \/ CoreScheduled

-----------------------------------------------------------------------------
(* Properties *)

\* The messages m satisfying P that are between a sender and the end of
\* their handler, counted: on their way into the queue, in it, on their way
\* out of it, being handled.
Underway(P(_)) ==
  LET pushing == {c \in Callers : /\ P(bus_msg[c])
                                  /\ \/ bus_call[c] = "push"
                                     \/ c = core_thread /\ bus_call[c] = "popped"}
      queued  == {i \in DOMAIN io_queue : P(io_queue[i])}
      handled == IF core_at \in {"handle", "wake", "transfer"} /\ P(msg) THEN 1 ELSE 0
  IN  Cardinality(pushing) + Cardinality(queued) + handled

IsRx(m) == m.type = "rx"

\* Refused, and its sender does not know it yet.
Unsent(P(_)) == Cardinality({c \in Callers : bus_ret[c] = "error" /\ P(bus_msg[c])})

\* bmsg_rx_count counts the messages of received frames that are about, and
\* every one the bus has refused for ever: two refusals in the lifetime of
\* the system and bmsg_rx_sender does nothing any more.
RxCounted == bmsg_rx_count = Underway(IsRx) + Unsent(IsRx) + rx_refused

\* A packet is held by the bus from the call of bmsg_tx_sender until it is
\* handled or the sender has been refused, whatever their order, and by the
\* stack while it sends it: it is freed once, and not before the last of them
\* has let go of it.
PbufHeld ==
  \A p \in Pbufs :
    LET carries(m) == m.type = "tx" /\ m.arg = p
        sending == {c \in TxSenders : /\ carries(bus_msg[c])
                                      /\ bus_call[c] # "idle" \/ bus_ret[c] # "none"}
    IN  pbuf_ref[p] = Underway(carries) + Unsent(carries) + Cardinality(sending)

=============================================================================
