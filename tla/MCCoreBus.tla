----------------------------- MODULE MCCoreBus ------------------------------
(* TLC instances of MsgConfirm: see MCCoreBus.cfg and MCConfirmRefused.cfg. *)
EXTENDS MsgConfirm, TLC

\* Who uses the bus: senders of frames or those who ask the MAC.  The others
\* show as refused pushes, which the bus may answer at any time.
VARIABLE users

Idle(them) ==
  CASE them = "frames" -> bmsg_rx_count = 0 /\ \A p \in Pbufs : pbuf_ref[p] = 0
    [] them = "requests" -> \A r \in Requesters : req_at[r] = "out"

Init == CfInitAll /\ users \in {"frames", "requests"}

Next ==
  /\ CfNext
  /\ UNCHANGED users
  /\ Idle(IF users = "frames" THEN "requests" ELSE "frames")'

Spec == Init /\ [][Next]_<<cbVars, cfVars, users>>

\* Nothing but what they do tells them apart.
Permuted ==
  Permutations(Requesters) \cup Permutations(Nodes) \cup Permutations(Ids)
    \cup Permutations(TxSenders) \cup Permutations(Pbufs)

=============================================================================
