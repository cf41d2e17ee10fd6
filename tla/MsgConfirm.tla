----------------------------- MODULE MsgConfirm -----------------------------
(***************************************************************************)
(* Requests to the MAC: rw_msg_send in beken378/func/rwnx_intf/rw_msg_tx.c  *)
(* links a node to rw_msg_tx_head, sends the request over the core bus and  *)
(* waits up to five seconds on the semaphore of the node; rwnx_recv_msg in  *)
(* rw_msg_rx.c, run by the thread kmsgbk of app.c, gives the answer to the  *)
(* first node that waits for its id.                                        *)
(*                                                                          *)
(* The kernel of the MAC is a library.  Of it the code sees that it takes   *)
(* requests (ke_msg_send) and, when core_thread lets it run, answers some   *)
(* with mr_kmsg_fwd.  co_list_push_back, co_list_pop_front and              *)
(* co_list_extract belong to the same library and are steps here.           *)
(***************************************************************************)
EXTENDS CoreBus

CONSTANTS
  Nodes,       \* memory for MSG_SND_NODE_ST
  Urgent,      \* requesters with a higher priority than kmsgbk
  BusHasRoom,  \* the bus refuses no request whose answer is waited for
  MaxSema,     \* bound on the count of app_sema
  MaxPending   \* bound on the requests the MAC has not answered

ASSUME MsgConfirmAssumption == None \notin Nodes /\ MaxSema \in Nat /\ MaxPending \in Nat

VARIABLES
  rw_msg_tx_head, \* nodes of requests, oldest first
  rw_msg_rx_head, \* ids of answers, oldest first
  app_sema,
  mac,            \* for each id, the requests the MAC has not answered
  node,           \* the node of a requester
  reqid,          \* of a node
  signalled,      \* nodes whose semaphore has been released
  req_at,         \* where a requester is in rw_msg_send
  recv_at,        \* where kmsgbk is
  rx_msg,
  tx_msg

cfVars == <<rw_msg_tx_head, rw_msg_rx_head, app_sema, mac, node, reqid,
            signalled, req_at, recv_at, rx_msg, tx_msg>>

\* Nodes that are allocated.
Live == {node[r] : r \in Requesters} \ {None}

\* The elements of a list.
On(list) == {list[i] : i \in DOMAIN list}

\* co_list_extract, for an element that is on the list at most once.
Extract(list, n) ==
  IF n \notin On(list) THEN list
  ELSE LET k == CHOOSE i \in DOMAIN list : list[i] = n
       IN  [i \in 1 .. Len(list) - 1 |-> IF i < k THEN list[i] ELSE list[i + 1]]

CfTypeOK ==
  /\ rw_msg_tx_head \in Seq(Nodes)
  /\ rw_msg_rx_head \in Seq(Ids)
  /\ app_sema \in 0 .. MaxSema
  /\ mac \in [Ids -> 0 .. MaxPending]
  /\ node \in [Requesters -> Nodes \cup {None}]
  /\ reqid \in [Nodes -> Ids \cup {None}]
  /\ signalled \subseteq Nodes
  /\ req_at \in [Requesters -> {"out", "push", "get", "sleep", "woken", "timeout", "free"}]
  /\ recv_at \in {"wait", "pop", "pop_last", "pop_more", "pick", "match", "handle",
                 "extract", "set"}
  /\ rx_msg \in Ids \cup {None}
  /\ tx_msg \in Nodes \cup {None}

\* mr_kmsg_init and app_pre_start.
CfInit ==
  /\ rw_msg_tx_head = <<>>
  /\ rw_msg_rx_head = <<>>
  /\ app_sema = 0
  /\ mac = [i \in Ids |-> 0]
  /\ node = [r \in Requesters |-> None]
  /\ reqid = [n \in Nodes |-> None]
  /\ signalled = {}
  /\ req_at = [r \in Requesters |-> "out"]
  /\ recv_at = "wait"
  /\ rx_msg = None
  /\ tx_msg = None

-----------------------------------------------------------------------------
(* rw_msg_send *)

\* MUTANT of Scheduled: requesters run whatever kmsgbk does.
MutScheduledAlways(r) == TRUE

\* A requester runs when kmsgbk, which does not block before it has dealt
\* with all answers, waits for the next, or has a lower priority.
Scheduled(r) == r \in Urgent \/ (recv_at = "wait" /\ app_sema = 0)

\* The code after from and up to to is run by r.
Req(r, from, to) ==
  /\ Scheduled(r)
  /\ req_at[r] = from
  /\ req_at' = [req_at EXCEPT ![r] = to]

\* One more request is within the bound.
Room ==
  Underway(LAMBDA m : m.type = "ioctl")
    + Cardinality({p \in Ids \X (1 .. MaxPending) : p[2] <= mac[p[1]]}) < MaxPending

\* os_malloc, rtos_init_semaphore and co_list_push_back; then the call of
\* bmsg_ioctl_sender.  Memory that is linked although it is free is not
\* allocated here: what that does to the list is undefined.
ReqSend(r, id) ==
  /\ Room
  /\ Req(r, "out", "push")
  /\ \E n \in Nodes \ (Live \cup On(rw_msg_tx_head)) :
       /\ node' = [node EXCEPT ![r] = n]
       /\ reqid' = [reqid EXCEPT ![n] = id]
       /\ rw_msg_tx_head' = Append(rw_msg_tx_head, n)
  /\ Push(r, [type |-> "ioctl", arg |-> id])
  /\ UNCHANGED <<rw_msg_rx_head, app_sema, mac, signalled, recv_at, rx_msg, tx_msg>>
  /\ UNCHANGED <<bmsg_rx_count, rx_refused, pbuf_ref, coreVars>>

\* cfm is NULL: nobody waits for the answer.
ReqSendOnly(r, id) ==
  /\ Room
  /\ Req(r, "out", "push")
  /\ Push(r, [type |-> "ioctl", arg |-> id])
  /\ UNCHANGED <<rw_msg_tx_head, rw_msg_rx_head, app_sema, mac, node, reqid,
                 signalled, recv_at, rx_msg, tx_msg>>
  /\ UNCHANGED <<bmsg_rx_count, rx_refused, pbuf_ref, coreVars>>

\* bmsg_ioctl_sender has succeeded.
ReqSent(r) ==
  /\ Req(r, "push", IF node[r] = None THEN "out" ELSE "get")
  /\ Result(r, "ok")
  /\ UNCHANGED <<rw_msg_tx_head, rw_msg_rx_head, app_sema, mac, node, reqid,
                 signalled, recv_at, rx_msg, tx_msg>>
  /\ UNCHANGED <<bmsg_rx_count, rx_refused, pbuf_ref, coreVars>>

\* rtos_deinit_semaphore and os_free: the node of r is gone.
Free(r) ==
  /\ node' = [node EXCEPT ![r] = None]
  /\ reqid' = [n \in Nodes |-> IF n = node[r] /\ n \notin On(rw_msg_tx_head')
                               THEN None ELSE reqid[n]]
  /\ signalled' = signalled \ {node[r]}

\* "failed send": the node is freed where it is.
ReqRefused(r) ==
  /\ BusHasRoom => node[r] = None
  /\ Req(r, "push", "out")
  /\ Result(r, "error")
  /\ UNCHANGED <<rw_msg_tx_head, rw_msg_rx_head, app_sema, mac, recv_at, rx_msg, tx_msg>>
  /\ Free(r)
  /\ UNCHANGED <<bmsg_rx_count, rx_refused, pbuf_ref, coreVars>>

\* rtos_get_semaphore
ReqGet(r) ==
  /\ Req(r, "get", IF node[r] \in signalled THEN "woken" ELSE "sleep")
  /\ UNCHANGED <<cbVars, rw_msg_tx_head, rw_msg_rx_head, app_sema, mac, node, reqid,
                 signalled, recv_at, rx_msg, tx_msg>>

\* The tick interrupt ends the wait, also while kmsgbk runs.
ReqTimeout(r) ==
  /\ req_at[r] = "sleep"
  /\ req_at' = [req_at EXCEPT ![r] = "timeout"]
  /\ UNCHANGED <<cbVars, rw_msg_tx_head, rw_msg_rx_head, app_sema, mac, node, reqid,
                 signalled, recv_at, rx_msg, tx_msg>>

\* "timeout for"
ReqExtract(r) ==
  /\ Req(r, "timeout", "free")
  /\ rw_msg_tx_head' = Extract(rw_msg_tx_head, node[r])
  /\ UNCHANGED <<cbVars, rw_msg_rx_head, app_sema, mac, node, reqid,
                 signalled, recv_at, rx_msg, tx_msg>>

\* rw_msg_send returns, with the answer or without.
ReqReturn(r) ==
  /\ \E from \in {"woken", "free"} : Req(r, from, "out")
  /\ UNCHANGED <<cbVars, rw_msg_tx_head, rw_msg_rx_head, app_sema, mac, recv_at, rx_msg, tx_msg>>
  /\ Free(r)

-----------------------------------------------------------------------------
(* The MAC, in core_thread *)

\* bmsg_ioctl_handler: ke_msg_send.
CoreHandleIoctl ==
  /\ Handle("ioctl", "schedule")
  /\ mac' = [mac EXCEPT ![msg.arg] = @ + 1]
  /\ UNCHANGED <<busVars, bmsg_rx_count, rx_refused, pbuf_ref>>
  /\ UNCHANGED <<rw_msg_tx_head, rw_msg_rx_head, app_sema, node, reqid, signalled,
                 req_at, recv_at, rx_msg, tx_msg>>

\* The MAC answers: the first half of mr_kmsg_fwd.
Forward(id) ==
  /\ core_at = "schedule"
  /\ app_sema < MaxSema
  /\ mac[id] > 0
  /\ mac' = [mac EXCEPT ![id] = @ - 1]
  /\ core_at' = "forward"
  /\ rw_msg_rx_head' = Append(rw_msg_rx_head, id)
  /\ UNCHANGED <<busVars, bmsg_rx_count, rx_refused, pbuf_ref, msg>>
  /\ UNCHANGED <<rw_msg_tx_head, app_sema, node, reqid, signalled, req_at,
                 recv_at, rx_msg, tx_msg>>

\* app_set_sema
Forwarded ==
  /\ core_at = "forward"
  /\ core_at' = "schedule"
  /\ app_sema' = app_sema + 1
  /\ UNCHANGED <<busVars, bmsg_rx_count, rx_refused, pbuf_ref, msg>>
  /\ UNCHANGED <<rw_msg_tx_head, rw_msg_rx_head, mac, node, reqid, signalled,
                 req_at, recv_at, rx_msg, tx_msg>>

-----------------------------------------------------------------------------
(* kmsg_bk_thread_main and rwnx_recv_msg *)

Recv(from, to) ==
  /\ recv_at = from
  /\ recv_at' = to
  /\ UNCHANGED <<cbVars, mac, node, reqid>>

RecvWake ==
  /\ Recv("wait", "pop")
  /\ app_sema > 0
  /\ app_sema' = app_sema - 1
  /\ UNCHANGED <<rw_msg_tx_head, rw_msg_rx_head, signalled, req_at, rx_msg, tx_msg>>

\* co_list_pop_front, which is called without GLOBAL_INT_DISABLE here: the
\* first answer and whether there is one after it are read ...
RecvPop ==
  /\ Recv("pop", CASE rw_msg_rx_head = <<>> -> "wait"
                   [] Len(rw_msg_rx_head) = 1 -> "pop_last"
                   [] OTHER -> "pop_more")
  /\ rx_msg' = IF rw_msg_rx_head = <<>> THEN None ELSE Head(rw_msg_rx_head)
  /\ UNCHANGED <<app_sema, rw_msg_tx_head, rw_msg_rx_head, signalled, req_at, tx_msg>>

\* ... and the list set to what comes after it.  What core_thread has linked
\* to the last answer in between goes with it: it is lost.
RecvPopped ==
  /\ \/ Recv("pop_last", "pick") /\ rw_msg_rx_head' = <<>>
     \/ Recv("pop_more", "pick") /\ rw_msg_rx_head' = Tail(rw_msg_rx_head)
  /\ UNCHANGED <<app_sema, rw_msg_tx_head, signalled, req_at, rx_msg, tx_msg>>

\* co_list_pick: the walk along rw_msg_tx_head begins.
RecvPick ==
  /\ IF rw_msg_tx_head = <<>>
     THEN Recv("pick", "handle") /\ tx_msg' = None
     ELSE Recv("pick", "match") /\ tx_msg' = Head(rw_msg_tx_head)
  /\ UNCHANGED <<rw_msg_tx_head, rw_msg_rx_head, app_sema, signalled, req_at, rx_msg>>

\* The node of the walk waits for the answer.
RecvMatch ==
  /\ Recv("match", "extract")
  /\ reqid[tx_msg] = rx_msg
  /\ UNCHANGED <<rw_msg_tx_head, rw_msg_rx_head, app_sema, signalled, req_at, rx_msg, tx_msg>>

\* co_list_next of the node of the walk.  One that has been taken off the
\* list leads anywhere.
Following ==
  IF tx_msg \notin On(rw_msg_tx_head) THEN Nodes \cup {None}
  ELSE {IF i = Len(rw_msg_tx_head) THEN None ELSE rw_msg_tx_head[i + 1] :
          i \in {k \in DOMAIN rw_msg_tx_head : rw_msg_tx_head[k] = tx_msg}}

\* It waits for another one.
RecvNext ==
  /\ recv_at = "match"
  /\ reqid[tx_msg] # rx_msg
  /\ tx_msg' \in Following
  /\ Recv("match", IF tx_msg' = None THEN "handle" ELSE "match")
  /\ UNCHANGED <<rw_msg_tx_head, rw_msg_rx_head, app_sema, signalled, req_at, rx_msg>>

\* None waits for it: rwnx_handle_recv_msg and ke_msg_free.
RecvHandle ==
  /\ Recv("handle", "pop")
  /\ rx_msg' = None
  /\ UNCHANGED <<rw_msg_tx_head, rw_msg_rx_head, app_sema, signalled, req_at, tx_msg>>

\* co_list_extract
RecvExtract ==
  /\ Recv("extract", "set")
  /\ rw_msg_tx_head' = Extract(rw_msg_tx_head, tx_msg)
  /\ UNCHANGED <<rw_msg_rx_head, app_sema, signalled, req_at, rx_msg, tx_msg>>

\* The answer, already off rw_msg_rx_head, is copied to tx_msg->cfm, the
\* semaphore released and the answer freed.
RecvSet ==
  /\ Recv("set", "pop")
  /\ signalled' = signalled \cup {tx_msg}
  /\ req_at' = [r \in Requesters |->
                  IF node[r] = tx_msg /\ req_at[r] = "sleep" THEN "woken" ELSE req_at[r]]
  /\ rx_msg' = None
  /\ tx_msg' = None
  /\ UNCHANGED <<rw_msg_tx_head, rw_msg_rx_head, app_sema>>

RecvStep ==
  \/ RecvWake \/ RecvPop \/ RecvPopped \/ RecvPick \/ RecvMatch \/ RecvNext
  \/ RecvHandle \/ RecvExtract \/ RecvSet

-----------------------------------------------------------------------------
CfInitAll == CbInit /\ CfInit

CfNext ==
  \/ /\ CbStep
     /\ BusHasRoom => \A r \in Requesters : node[r] # None => bus_ret'[r] # "error"
     /\ UNCHANGED cfVars
  \/ \E r \in Requesters :
       \/ \E id \in Ids : ReqSend(r, id) \/ ReqSendOnly(r, id)
       \/ ReqSent(r) \/ ReqRefused(r) \/ ReqGet(r) \/ ReqTimeout(r)
       \/ ReqExtract(r) \/ ReqReturn(r)
  \/ CoreHandleIoctl \/ Forwarded \/ \E id \in Ids : Forward(id)
  \/ RecvStep

CfSpec == CfInitAll /\ [][CfNext]_<<cbVars, cfVars>>

-----------------------------------------------------------------------------
(* Properties *)

\* The state variables hold what the source declares them to hold, and the
\* bounds hold: bmsg_rx_count of at most two, a packet held at most twice.
BusTypeOK == CbTypeOK /\ CfTypeOK

\* "ret = rtos_set_semaphore(&tx_msg->semaphore); ASSERT(0 == ret);": the
\* node kmsgbk has found is that of a request that still waits for it.
SemaphoreExists == recv_at \in {"extract", "set"} => tx_msg \in Live

\* The list, with the node kmsgbk has taken off it, holds the nodes of the
\* requests that nobody has answered or given up, each once, and the node of
\* the walk is on it: kmsgbk walks over no freed memory although requesters
\* free their nodes after a timeout, and nobody sleeps who is not on the list
\* to be answered.
NodesLive ==
  LET taken == IF recv_at \in {"extract", "set"} THEN {tx_msg} ELSE {}
  IN  /\ On(rw_msg_tx_head) \cup taken \subseteq Live
      /\ Len(rw_msg_tx_head) = Cardinality(On(rw_msg_tx_head))
      /\ recv_at = "match" => tx_msg \in On(rw_msg_tx_head)
      /\ \A r \in Requesters :
           req_at[r] = "sleep" => node[r] \in On(rw_msg_tx_head) \cup taken

=============================================================================
