--------------------------- MODULE CoreBusProofs ----------------------------
(***************************************************************************)
(* Proofs about CoreBus and MsgConfirm, for any number of senders,          *)
(* requesters, packets, nodes and messages in the bus.                      *)
(*                                                                          *)
(* The inductive invariant CountInv counts, for any set S of messages, how  *)
(* many are on the way into the bus, in it, out of it, refused and being    *)
(* handled.  Every step moves at most one message, so it is enough to say   *)
(* what it does to the caller that takes it; RxCounted and PbufHeld are the *)
(* instances for frames and for the messages that carry one packet.         *)
(*                                                                          *)
(* ReqInv, inductive by itself, says where the node of a request is while   *)
(* its requester and kmsgbk are at each point of their code.                *)
(*                                                                          *)
(* TypeInv adds what the types need: LimitInv, the limits of the senders;   *)
(* ListInv, the lists and their users; AskedInv, which counts the requests  *)
(* that are about against MaxPending and those the bus has refused.         *)
(***************************************************************************)
EXTENDS MsgConfirm, FiniteSetTheorems, TLAPS

-----------------------------------------------------------------------------
(* Counting *)

One(p) == IF p THEN 1 ELSE 0

\* A set that at most gains or loses c.
LEMMA CountMoves ==
  ASSUME NEW T, NEW U, IsFiniteSet(T), IsFiniteSet(U), NEW c, T \ {c} = U \ {c}
  PROVE  /\ Cardinality(T) \in Nat /\ Cardinality(U) \in Nat
         /\ Cardinality(U) + One(c \in T) = Cardinality(T) + One(c \in U)
<1>1. Cardinality(T) \in Nat /\ Cardinality(U) \in Nat
  BY FS_CardinalityType
<1>2. Cardinality(T \ {c}) = IF c \in T THEN Cardinality(T) - 1 ELSE Cardinality(T)
  BY FS_RemoveElement
<1>3. Cardinality(U \ {c}) = IF c \in U THEN Cardinality(U) - 1 ELSE Cardinality(U)
  BY FS_RemoveElement
<1> QED  BY <1>1, <1>2, <1>3 DEF One

\* Where messages of a kind are in a queue.
Places(q, S) == {i \in DOMAIN q : q[i] \in S}

LEMMA PlacesFinite ==
  ASSUME NEW M, NEW q \in Seq(M), NEW S
  PROVE  IsFiniteSet(Places(q, S)) /\ Cardinality(Places(q, S)) \in Nat
<1>1. Places(q, S) \in SUBSET (1 .. Len(q)) /\ Len(q) \in Nat
  BY DEF Places
<1>2. IsFiniteSet(1 .. Len(q))
  BY <1>1, FS_Interval
<1>3. IsFiniteSet(Places(q, S))
  BY <1>1, <1>2, FS_Subset
<1> QED  BY <1>3, FS_CardinalityType

LEMMA PlacesAppend ==
  ASSUME NEW M, NEW q \in Seq(M), NEW m \in M, NEW S
  PROVE  Cardinality(Places(Append(q, m), S)) = Cardinality(Places(q, S)) + One(m \in S)
<1> DEFINE r == Append(q, m)
<1>1. /\ r \in Seq(M) /\ Len(q) \in Nat
      /\ DOMAIN q = 1 .. Len(q) /\ DOMAIN r = 1 .. Len(q) + 1
      /\ \A i \in 1 .. Len(q) : r[i] = q[i]
      /\ r[Len(q) + 1] = m
  OBVIOUS
<1> HIDE DEF r
<1>2. /\ Places(q, S) \ {Len(q) + 1} = Places(r, S) \ {Len(q) + 1}
      /\ Len(q) + 1 \notin Places(q, S)
      /\ Len(q) + 1 \in Places(r, S) <=> m \in S
  BY <1>1 DEF Places
<1>3. /\ IsFiniteSet(Places(q, S)) /\ Cardinality(Places(q, S)) \in Nat
      /\ IsFiniteSet(Places(r, S)) /\ Cardinality(Places(r, S)) \in Nat
  BY <1>1, PlacesFinite
<1>4. Cardinality(Places(r, S)) + One(Len(q) + 1 \in Places(q, S))
        = Cardinality(Places(q, S)) + One(Len(q) + 1 \in Places(r, S))
  BY <1>2, <1>3, CountMoves
<1> QED  BY <1>2, <1>3, <1>4 DEF r, One

LEMMA PlacesTail ==
  ASSUME NEW M, NEW q \in Seq(M), q # <<>>, NEW S
  PROVE  Cardinality(Places(q, S)) = Cardinality(Places(Tail(q), S)) + One(Head(q) \in S)
<1> DEFINE r == Tail(q)
           f == [i \in Places(r, S) |-> i + 1]
<1>1. /\ r \in Seq(M) /\ Len(q) \in Nat \ {0}
      /\ DOMAIN q = 1 .. Len(q) /\ DOMAIN r = 1 .. Len(q) - 1
      /\ \A i \in 1 .. Len(q) - 1 : r[i] = q[i + 1]
      /\ q[1] = Head(q)
  OBVIOUS
<1> HIDE DEF r
<1>2. f \in Bijection(Places(r, S), Places(q, S) \ {1})
  <2>1. f \in [Places(r, S) -> Places(q, S) \ {1}]
    BY <1>1 DEF Places
  <2>2. \A i, j \in Places(r, S) : f[i] = f[j] => i = j
    BY <1>1 DEF Places
  <2>3. ASSUME NEW j \in Places(q, S) \ {1}
        PROVE  \E i \in Places(r, S) : f[i] = j
    <3>1. j - 1 \in Places(r, S) /\ (j - 1) + 1 = j
      BY <1>1 DEF Places
    <3> QED  BY <3>1
  <2> HIDE DEF f
  <2> QED  BY <2>1, <2>2, <2>3 DEF Bijection, Injection, Surjection, IsInjective
<1>3. /\ IsFiniteSet(Places(q, S)) /\ Cardinality(Places(q, S)) \in Nat
      /\ IsFiniteSet(Places(r, S)) /\ Cardinality(Places(r, S)) \in Nat
  BY <1>1, PlacesFinite
<1>4. Cardinality(Places(q, S) \ {1}) = Cardinality(Places(r, S))
  <2>1. ExistsBijection(Places(r, S), Places(q, S) \ {1})
    BY <1>2 DEF ExistsBijection
  <2> QED  BY <2>1, <1>3, FS_Bijection
<1>5. Cardinality(Places(q, S) \ {1})
        = IF 1 \in Places(q, S) THEN Cardinality(Places(q, S)) - 1 ELSE Cardinality(Places(q, S))
  BY <1>3, FS_RemoveElement
<1>6. 1 \in Places(q, S) <=> Head(q) \in S
  BY <1>1 DEF Places
<1> QED  BY <1>3, <1>4, <1>5, <1>6 DEF r, One

-----------------------------------------------------------------------------
(* Messages of a kind S on their way *)

Sends(c, S) ==
  /\ bus_msg[c] \in S
  /\ bus_call[c] = "push" \/ (c = core_thread /\ bus_call[c] = "popped")

Lost(c, S) == bus_ret[c] = "error" /\ bus_msg[c] \in S

Sending(c, S) == bus_msg[c] \in S /\ (bus_call[c] # "idle" \/ bus_ret[c] # "none")

OnTheWay(S) ==
  Cardinality({c \in Callers : Sends(c, S)}) + Cardinality(Places(io_queue, S))
    + Cardinality({c \in Callers : Lost(c, S)})

Handled(S) == One(core_at \in {"handle", "wake", "transfer"} /\ msg \in S)

Senders(S) == Cardinality({c \in TxSenders : Sending(c, S)})

Frames == {m \in BusMessages : m.type = "rx"}
Packets(p) == {m \in BusMessages : m.type = "tx" /\ m.arg = p}

BusTypes ==
  /\ io_queue \in Seq(BusMessages)
  /\ bus_call \in [Callers -> {"idle", "push", "pushed", "pop", "popped"}]
  /\ bus_patience \in [Callers -> {"limited", "forever"}]
  /\ bus_msg \in [Callers -> BusMessages]
  /\ bus_ret \in [Callers -> {"none", "ok", "error"}]
  /\ ~bus_closed
  /\ core_at \in {"pop", "handle", "wake", "transfer", "schedule", "forward"}
  /\ msg \in BusMessages

\* The senders of messages of a kind are finitely many.
LEMMA SendersFinite ==
  ASSUME NEW P
  PROVE  IsFiniteSet(Callers \cap P) /\ Cardinality(Callers \cap P) \in Nat
BY CoreBusAssumption, FS_Subset, FS_CardinalityType

LEMMA CountsAreNumbers ==
  ASSUME BusTypes, NEW S
  PROVE  /\ Cardinality({c \in Callers : Sends(c, S)}) \in Nat
         /\ Cardinality(Places(io_queue, S)) \in Nat
         /\ Cardinality({c \in Callers : Lost(c, S)}) \in Nat
         /\ OnTheWay(S) \in Nat
         /\ Handled(S) \in Nat
         /\ Senders(S) \in Nat
<1> DEFINE T == {c \in Callers : Sends(c, S)}
           U == {c \in Callers : Lost(c, S)}
           V == {c \in TxSenders : Sending(c, S)}
<1>1. T = Callers \cap T /\ U = Callers \cap U /\ V = Callers \cap V
  BY DEF Callers
<1>2. Cardinality(T) \in Nat /\ Cardinality(U) \in Nat /\ Cardinality(V) \in Nat
  <2> HIDE DEF T, U, V
  <2> QED  BY <1>1, SendersFinite
<1>3. Cardinality(Places(io_queue, S)) \in Nat
  BY PlacesFinite DEF BusTypes
<1>4. OnTheWay(S) \in Nat
  BY <1>2, <1>3 DEF OnTheWay
<1>5. Handled(S) \in Nat
  BY DEF Handled, One
<1> QED  BY <1>2, <1>3, <1>4, <1>5 DEF Senders

\* What RxCounted counts.
LEMMA FramesCounted ==
  ASSUME BusTypes
  PROVE  Underway(IsRx) + Unsent(IsRx) = OnTheWay(Frames) + Handled(Frames)
<1>1. /\ \A c \in Callers : bus_msg[c] \in Frames <=> IsRx(bus_msg[c])
      /\ msg \in Frames <=> IsRx(msg)
      /\ \A i \in DOMAIN io_queue : io_queue[i] \in Frames <=> IsRx(io_queue[i])
  BY DEF BusTypes, Frames, IsRx
<1>2. {c \in Callers : /\ IsRx(bus_msg[c])
                       /\ \/ bus_call[c] = "push"
                          \/ c = core_thread /\ bus_call[c] = "popped"}
        = {c \in Callers : Sends(c, Frames)}
  BY <1>1 DEF Sends
<1>3. {i \in DOMAIN io_queue : IsRx(io_queue[i])} = Places(io_queue, Frames)
  BY <1>1 DEF Places
<1>4. {c \in Callers : bus_ret[c] = "error" /\ IsRx(bus_msg[c])}
        = {c \in Callers : Lost(c, Frames)}
  BY <1>1 DEF Lost
<1>5. Unsent(IsRx) = Cardinality({c \in Callers : Lost(c, Frames)})
  BY <1>4 DEF Unsent
<1>6. Underway(IsRx) = Cardinality({c \in Callers : Sends(c, Frames)})
                         + Cardinality(Places(io_queue, Frames)) + Handled(Frames)
  BY <1>1, <1>2, <1>3 DEF Underway, Handled, One
<1> QED  BY <1>5, <1>6, CountsAreNumbers DEF OnTheWay

\* What PbufHeld counts.
LEMMA PacketsCounted ==
  ASSUME BusTypes,
         \A p \in Pbufs : pbuf_ref[p] = OnTheWay(Packets(p)) + Handled(Packets(p))
                                          + Senders(Packets(p))
  PROVE  PbufHeld
<1> SUFFICES ASSUME NEW p \in Pbufs
             PROVE  LET carries(m) == m.type = "tx" /\ m.arg = p
                        sending == {c \in TxSenders :
                                      /\ carries(bus_msg[c])
                                      /\ bus_call[c] # "idle" \/ bus_ret[c] # "none"}
                    IN  pbuf_ref[p] = Underway(carries) + Unsent(carries) + Cardinality(sending)
  BY DEF PbufHeld
<1> DEFINE carries(m) == m.type = "tx" /\ m.arg = p
           sending == {c \in TxSenders : /\ carries(bus_msg[c])
                                         /\ bus_call[c] # "idle" \/ bus_ret[c] # "none"}
<1>1. /\ \A c \in Callers : bus_msg[c] \in Packets(p) <=> carries(bus_msg[c])
      /\ msg \in Packets(p) <=> carries(msg)
      /\ \A i \in DOMAIN io_queue : io_queue[i] \in Packets(p) <=> carries(io_queue[i])
  BY DEF BusTypes, Packets
<1>2. {c \in Callers : /\ carries(bus_msg[c])
                       /\ \/ bus_call[c] = "push"
                          \/ c = core_thread /\ bus_call[c] = "popped"}
        = {c \in Callers : Sends(c, Packets(p))}
  BY <1>1 DEF Sends
<1>3. {i \in DOMAIN io_queue : carries(io_queue[i])} = Places(io_queue, Packets(p))
  BY <1>1 DEF Places
<1>4. {c \in Callers : bus_ret[c] = "error" /\ carries(bus_msg[c])}
        = {c \in Callers : Lost(c, Packets(p))}
  BY <1>1 DEF Lost
<1>5. Unsent(carries) = Cardinality({c \in Callers : Lost(c, Packets(p))})
  BY <1>4 DEF Unsent
<1>6. Underway(carries) = Cardinality({c \in Callers : Sends(c, Packets(p))})
                            + Cardinality(Places(io_queue, Packets(p))) + Handled(Packets(p))
  BY <1>1, <1>2, <1>3 DEF Underway, Handled, One
<1>7. sending = {c \in TxSenders : Sending(c, Packets(p))}
  BY <1>1 DEF Sending, Callers
<1>8. pbuf_ref[p] = Underway(carries) + Unsent(carries) + Cardinality(sending)
  BY <1>5, <1>6, <1>7, CountsAreNumbers DEF OnTheWay, Senders
<1> QED  BY <1>8

-----------------------------------------------------------------------------
(* The bus and its callers *)

Busy(c) == bus_call[c] # "idle" \/ bus_ret[c] # "none"

\* What a caller pushes.
Pushes(c) == IF c \in RxSenders THEN "rx" ELSE IF c \in TxSenders THEN "tx" ELSE "ioctl"

\* A caller other than core_thread only pushes, and what it pushes stays on
\* its stack until it has seen the result.
CallerAt(c) ==
  /\ bus_call[c] \in {"idle", "push", "pushed"}
  /\ bus_call[c] # "idle" => bus_ret[c] = "none"
  /\ Busy(c) => bus_msg[c].type = Pushes(c)

\* core_thread pops in one place and pushes in another.
CoreAt ==
  /\ bus_call[core_thread] # "idle" => bus_ret[core_thread] = "none"
  /\ core_at = "pop" => bus_call[core_thread] \in {"idle", "pop", "popped"}
  /\ core_at # "pop" => bus_call[core_thread] \notin {"pop", "popped"}
  /\ core_at # "transfer" =>
       bus_ret[core_thread] = "none" /\ bus_call[core_thread] \notin {"push", "pushed"}
  /\ bus_call[core_thread] = "pop" => bus_patience[core_thread] = "forever"
  /\ bus_call[core_thread] \in {"push", "pushed"} \/ bus_ret[core_thread] # "none" =>
       bus_msg[core_thread] = NullMessage
  /\ core_at \in {"wake", "transfer"} => msg.type = "tx"

BusInv ==
  /\ BusTypes
  /\ \A c \in Callers \ {core_thread} : CallerAt(c)
  /\ CoreAt

\* Only the call of c goes on.
Only(c) ==
  \A d \in Callers \ {c} :
    /\ bus_call'[d] = bus_call[d]
    /\ bus_patience'[d] = bus_patience[d]
    /\ bus_msg'[d] = bus_msg[d]
    /\ bus_ret'[d] = bus_ret[d]

LEMMA BusInit ==
  ASSUME CbInit
  PROVE  BusInv
<1>1. NullMessage \in BusMessages
  BY DEF NullMessage, BusMessages
<1>2. core_thread \in Callers
  BY DEF Callers
<1> QED  BY <1>1, <1>2 DEF CbInit, Bus!FifoInit, BusInv, BusTypes, CallerAt, CoreAt, Busy

Numbers ==
  \A S : /\ Cardinality(Places(io_queue, S)) \in Nat
         /\ OnTheWay(S) \in Nat /\ Handled(S) \in Nat /\ Senders(S) \in Nat

LEMMA NumbersNow == BusTypes => Numbers
BY CountsAreNumbers DEF Numbers

LEMMA NumbersNext == BusTypes' => Numbers'
BY NumbersNow, PTL

\* What a step of c does to the counts.
LEMMA OnlyCounts ==
  ASSUME BusTypes, BusTypes', NEW c \in Callers, Only(c), NEW S
  PROVE  /\ OnTheWay(S)' + One(Sends(c, S)) + One(Lost(c, S)) + Cardinality(Places(io_queue, S))
              = OnTheWay(S) + One(Sends(c, S)') + One(Lost(c, S)')
                  + Cardinality(Places(io_queue, S)')
         /\ Senders(S)' + One(c \in TxSenders /\ Sending(c, S))
              = Senders(S) + One(c \in TxSenders /\ Sending(c, S)')
<1> DEFINE T == {d \in Callers : Sends(d, S)}
           U == {d \in Callers : Lost(d, S)}
           V == {d \in TxSenders : Sending(d, S)}
<1>1. /\ T = Callers \cap T /\ U = Callers \cap U /\ V = Callers \cap V
      /\ T' = Callers \cap T' /\ U' = Callers \cap U' /\ V' = Callers \cap V'
  BY DEF Callers
<1>2. /\ T \ {c} = T' \ {c} /\ U \ {c} = U' \ {c} /\ V \ {c} = V' \ {c}
      /\ c \in T <=> Sends(c, S)
      /\ c \in T' <=> Sends(c, S)'
      /\ c \in U <=> Lost(c, S)
      /\ c \in U' <=> Lost(c, S)'
      /\ c \in V <=> c \in TxSenders /\ Sending(c, S)
      /\ c \in V' <=> c \in TxSenders /\ Sending(c, S)'
  BY DEF Only, Sends, Lost, Sending, Callers
<1>3. /\ OnTheWay(S) = Cardinality(T) + Cardinality(Places(io_queue, S)) + Cardinality(U)
      /\ OnTheWay(S)' = Cardinality(T') + Cardinality(Places(io_queue, S)') + Cardinality(U')
      /\ Senders(S) = Cardinality(V) /\ Senders(S)' = Cardinality(V')
  BY DEF OnTheWay, Senders
<1>4. /\ Cardinality(Places(io_queue, S)) \in Nat
      /\ Cardinality(Places(io_queue, S)') \in Nat
  <2>1. Places(io_queue, S)' = Places(io_queue', S)
    BY DEF Places
  <2> QED  BY <2>1, PlacesFinite DEF BusTypes
<1> HIDE DEF T, U, V
<1>5. /\ IsFiniteSet(T) /\ IsFiniteSet(T') /\ IsFiniteSet(U) /\ IsFiniteSet(U')
      /\ IsFiniteSet(V) /\ IsFiniteSet(V')
  BY <1>1, SendersFinite
<1>6. /\ Cardinality(T) \in Nat /\ Cardinality(T') \in Nat
      /\ Cardinality(T') + One(c \in T) = Cardinality(T) + One(c \in T')
  BY <1>2, <1>5, CountMoves
<1>7. /\ Cardinality(U) \in Nat /\ Cardinality(U') \in Nat
      /\ Cardinality(U') + One(c \in U) = Cardinality(U) + One(c \in U')
  BY <1>2, <1>5, CountMoves
<1>8. Cardinality(V') + One(c \in V) = Cardinality(V) + One(c \in V')
  BY <1>2, <1>5, CountMoves
<1>9. /\ One(c \in T) = One(Sends(c, S)) /\ One(c \in T') = One(Sends(c, S)')
      /\ One(c \in U) = One(Lost(c, S)) /\ One(c \in U') = One(Lost(c, S)')
      /\ One(c \in V) = One(c \in TxSenders /\ Sending(c, S))
      /\ One(c \in V') = One(c \in TxSenders /\ Sending(c, S)')
  BY <1>2 DEF One
<1>10. /\ One(c \in T) \in Nat /\ One(c \in T') \in Nat
       /\ One(c \in U) \in Nat /\ One(c \in U') \in Nat
  BY DEF One
<1> QED  BY <1>3, <1>4, <1>6, <1>7, <1>8, <1>9, <1>10

\* The other callers are where they were.
LEMMA OnlyKeeps ==
  ASSUME BusInv, BusTypes', NEW c \in Callers, Only(c), UNCHANGED coreVars,
         IF c = core_thread THEN CoreAt' ELSE CallerAt(c)'
  PROVE  BusInv'
<1>1. ASSUME NEW d \in Callers \ {core_thread}, d # c
      PROVE  CallerAt(d)'
  BY <1>1 DEF BusInv, Only, CallerAt, Busy
<1>2. CASE c = core_thread
  BY <1>1, <1>2 DEF BusInv
<1>3. CASE c # core_thread
  <2>1. core_thread \in Callers \ {c}
    BY <1>3 DEF Callers
  <2>2. CoreAt'
    BY <2>1 DEF BusInv, Only, CoreAt, coreVars
  <2> QED  BY <1>1, <1>3, <2>2 DEF BusInv
<1> QED  BY <1>2, <1>3

\* c calls rtos_push_to_queue.
LEMMA PushCounts ==
  ASSUME BusInv, NEW c \in Callers \ {core_thread}, NEW m, Push(c, m), UNCHANGED coreVars,
         m.type = Pushes(c)
  PROVE  /\ BusInv'
         /\ \A S : /\ OnTheWay(S)' = OnTheWay(S) + One(m \in S)
                   /\ Handled(S)' = Handled(S)
                   /\ Senders(S)' = Senders(S) + One(c \in TxSenders /\ m \in S)
<1>1. /\ bus_call[c] = "idle" /\ bus_ret[c] = "none" /\ bus_msg'[c] = m
      /\ bus_call' = [bus_call EXCEPT ![c] = "push"]
      /\ \E w \in {"limited", "forever"} : bus_patience' = [bus_patience EXCEPT ![c] = w]
      /\ \E l \in BusMessages : bus_msg' = [bus_msg EXCEPT ![c] = l]
      /\ bus_ret' = [bus_ret EXCEPT ![c] = "none"]
      /\ UNCHANGED <<io_queue, bus_closed>>
  BY DEF Push, Bus!FifoCallPush
<1>2. BusTypes' /\ Only(c)
  BY <1>1 DEF BusInv, BusTypes, Only, coreVars
<1>3. bus_call'[c] = "push" /\ bus_ret'[c] = "none"
  BY <1>1 DEF BusInv, BusTypes
<1>4. CallerAt(c)'
  BY <1>1, <1>3 DEF CallerAt, Pushes
<1>5. BusInv'
  BY <1>2, <1>4, OnlyKeeps
<1>6. ASSUME NEW S
      PROVE  /\ OnTheWay(S)' = OnTheWay(S) + One(m \in S)
             /\ Handled(S)' = Handled(S)
             /\ Senders(S)' = Senders(S) + One(c \in TxSenders /\ m \in S)
  <2>1. /\ OnTheWay(S)' + One(Sends(c, S)) + One(Lost(c, S)) + Cardinality(Places(io_queue, S))
              = OnTheWay(S) + One(Sends(c, S)') + One(Lost(c, S)')
                  + Cardinality(Places(io_queue, S)')
        /\ Senders(S)' + One(c \in TxSenders /\ Sending(c, S))
              = Senders(S) + One(c \in TxSenders /\ Sending(c, S)')
    BY <1>2, OnlyCounts DEF BusInv
  <2>2. /\ One(Sends(c, S)) = 0 /\ One(Lost(c, S)) = 0
        /\ One(Sends(c, S)') = One(m \in S) /\ One(Lost(c, S)') = 0
        /\ One(c \in TxSenders /\ Sending(c, S)) = 0
        /\ One(c \in TxSenders /\ Sending(c, S)') = One(c \in TxSenders /\ m \in S)
    BY <1>1, <1>3 DEF Sends, Lost, Sending, One
  <2>3. Places(io_queue, S)' = Places(io_queue, S)
    BY <1>1 DEF Places
  <2>4. Handled(S)' = Handled(S)
    BY DEF Handled, One, coreVars
  <2>5. One(m \in S) \in Nat
    BY DEF One
  <2>6. /\ OnTheWay(S) \in Nat /\ Senders(S) \in Nat /\ OnTheWay(S)' \in Nat /\ Senders(S)' \in Nat
        /\ Cardinality(Places(io_queue, S)) \in Nat
    BY <1>2, NumbersNow, NumbersNext DEF BusInv, Numbers
  <2> QED  BY <2>1, <2>2, <2>3, <2>4, <2>5, <2>6
<1> QED  BY <1>5, <1>6

\* Its result is taken up.
LEMMA ResultCounts ==
  ASSUME BusInv, NEW c \in Callers \ {core_thread}, NEW r \in {"ok", "error"}, Result(c, r),
         UNCHANGED coreVars
  PROVE  /\ BusInv'
         /\ bus_msg[c].type = Pushes(c)
         /\ \A S : NullMessage \notin S =>
              /\ OnTheWay(S) = OnTheWay(S)' + One(r = "error" /\ bus_msg[c] \in S)
              /\ Handled(S)' = Handled(S)
              /\ Senders(S) = Senders(S)' + One(c \in TxSenders /\ bus_msg[c] \in S)
<1>1. /\ bus_ret[c] = r
      /\ bus_ret' = [bus_ret EXCEPT ![c] = "none"]
      /\ bus_msg' = [bus_msg EXCEPT ![c] = NullMessage]
      /\ UNCHANGED <<io_queue, bus_call, bus_patience, bus_closed>>
  BY DEF Result
<1>2. BusTypes' /\ Only(c)
  <2>1. NullMessage \in BusMessages
    BY DEF NullMessage, BusMessages
  <2> QED  BY <1>1, <2>1 DEF BusInv, BusTypes, Only, coreVars
<1>3. /\ bus_call[c] = "idle" /\ bus_call'[c] = "idle" /\ bus_ret'[c] = "none"
      /\ bus_msg'[c] = NullMessage /\ bus_msg[c].type = Pushes(c)
  BY <1>1 DEF BusInv, BusTypes, CallerAt, Busy
<1>4. CallerAt(c)'
  BY <1>3 DEF CallerAt, Busy
<1>5. BusInv'
  BY <1>2, <1>4, OnlyKeeps
<1>6. ASSUME NEW S, NullMessage \notin S
      PROVE  /\ OnTheWay(S) = OnTheWay(S)' + One(r = "error" /\ bus_msg[c] \in S)
             /\ Handled(S)' = Handled(S)
             /\ Senders(S) = Senders(S)' + One(c \in TxSenders /\ bus_msg[c] \in S)
  <2>1. /\ OnTheWay(S)' + One(Sends(c, S)) + One(Lost(c, S)) + Cardinality(Places(io_queue, S))
              = OnTheWay(S) + One(Sends(c, S)') + One(Lost(c, S)')
                  + Cardinality(Places(io_queue, S)')
        /\ Senders(S)' + One(c \in TxSenders /\ Sending(c, S))
              = Senders(S) + One(c \in TxSenders /\ Sending(c, S)')
    BY <1>2, OnlyCounts DEF BusInv
  <2>2. /\ One(Sends(c, S)) = 0 /\ One(Lost(c, S)) = One(r = "error" /\ bus_msg[c] \in S)
        /\ One(Sends(c, S)') = 0 /\ One(Lost(c, S)') = 0
        /\ One(c \in TxSenders /\ Sending(c, S)) = One(c \in TxSenders /\ bus_msg[c] \in S)
        /\ One(c \in TxSenders /\ Sending(c, S)') = 0
    BY <1>1, <1>3, <1>6 DEF Sends, Lost, Sending, One
  <2>3. Places(io_queue, S)' = Places(io_queue, S)
    BY <1>1 DEF Places
  <2>4. Handled(S)' = Handled(S)
    BY DEF Handled, One, coreVars
  <2>5. One(r = "error" /\ bus_msg[c] \in S) \in Nat
    BY DEF One
  <2>6. /\ OnTheWay(S) \in Nat /\ Senders(S) \in Nat /\ OnTheWay(S)' \in Nat /\ Senders(S)' \in Nat
        /\ Cardinality(Places(io_queue, S)) \in Nat
    BY <1>2, NumbersNow, NumbersNext DEF BusInv, Numbers
  <2> QED  BY <2>1, <2>2, <2>3, <2>4, <2>5, <2>6
<1> QED  BY <1>3, <1>5, <1>6

\* No message is lost or doubled inside the queue.
SameCounts ==
  \A S : NullMessage \notin S =>
    OnTheWay(S)' = OnTheWay(S) /\ Handled(S)' = Handled(S) /\ Senders(S)' = Senders(S)

LEMMA EnqueueCounts ==
  ASSUME BusInv, NEW c \in Callers, Bus!FifoEnqueue(c), UNCHANGED coreVars
  PROVE  BusInv' /\ SameCounts
<1>1. /\ bus_call[c] = "push"
      /\ io_queue' = Append(io_queue, bus_msg[c])
      /\ bus_call' = [bus_call EXCEPT ![c] = "pushed"]
      /\ UNCHANGED <<bus_patience, bus_msg, bus_ret, bus_closed>>
  BY DEF Bus!FifoEnqueue
<1>2. BusTypes' /\ Only(c)
  BY <1>1 DEF BusInv, BusTypes, Only, coreVars
<1>3. bus_call'[c] = "pushed" /\ bus_msg'[c] = bus_msg[c] /\ bus_ret'[c] = bus_ret[c]
  BY <1>1 DEF BusInv, BusTypes
<1>4. IF c = core_thread THEN CoreAt' ELSE CallerAt(c)'
  BY <1>1, <1>3 DEF BusInv, CoreAt, CallerAt, Pushes, Busy, coreVars
<1>5. BusInv'
  BY <1>2, <1>4, OnlyKeeps
<1>6. ASSUME NEW S
      PROVE  /\ OnTheWay(S)' = OnTheWay(S)
             /\ Handled(S)' = Handled(S)
             /\ Senders(S)' = Senders(S)
  <2>1. /\ OnTheWay(S)' + One(Sends(c, S)) + One(Lost(c, S)) + Cardinality(Places(io_queue, S))
              = OnTheWay(S) + One(Sends(c, S)') + One(Lost(c, S)')
                  + Cardinality(Places(io_queue, S)')
        /\ Senders(S)' + One(c \in TxSenders /\ Sending(c, S))
              = Senders(S) + One(c \in TxSenders /\ Sending(c, S)')
    BY <1>2, OnlyCounts DEF BusInv
  <2>2. /\ One(Sends(c, S)) = One(bus_msg[c] \in S) /\ One(Sends(c, S)') = 0
        /\ One(Lost(c, S)') = One(Lost(c, S))
        /\ One(c \in TxSenders /\ Sending(c, S)') = One(c \in TxSenders /\ Sending(c, S))
    BY <1>1, <1>3 DEF Sends, Lost, Sending, One
  <2>3. Cardinality(Places(io_queue, S)') = Cardinality(Places(io_queue, S)) + One(bus_msg[c] \in S)
    <3>1. Places(io_queue, S)' = Places(Append(io_queue, bus_msg[c]), S)
      BY <1>1 DEF Places
    <3> QED  BY <3>1, PlacesAppend DEF BusInv, BusTypes
  <2>4. Handled(S)' = Handled(S)
    BY DEF Handled, One, coreVars
  <2>5. /\ One(bus_msg[c] \in S) \in Nat /\ One(Lost(c, S)) \in Nat
        /\ One(c \in TxSenders /\ Sending(c, S)) \in Nat
    BY DEF One
  <2>6. /\ OnTheWay(S) \in Nat /\ Senders(S) \in Nat /\ OnTheWay(S)' \in Nat /\ Senders(S)' \in Nat
        /\ Cardinality(Places(io_queue, S)) \in Nat
    BY <1>2, NumbersNow, NumbersNext DEF BusInv, Numbers
  <2> QED  BY <2>1, <2>2, <2>3, <2>4, <2>5, <2>6
<1> QED  BY <1>5, <1>6 DEF SameCounts

LEMMA DequeueCounts ==
  ASSUME BusInv, NEW c \in Callers, Bus!FifoDequeue(c), UNCHANGED coreVars
  PROVE  BusInv' /\ SameCounts
<1>1. /\ bus_call[c] = "pop"
      /\ io_queue # <<>>
      /\ bus_msg' = [bus_msg EXCEPT ![c] = Head(io_queue)]
      /\ io_queue' = Tail(io_queue)
      /\ bus_call' = [bus_call EXCEPT ![c] = "popped"]
      /\ UNCHANGED <<bus_patience, bus_ret, bus_closed>>
  BY DEF Bus!FifoDequeue
<1>2. c = core_thread
  BY <1>1 DEF BusInv, CallerAt
<1>3. BusTypes' /\ Only(c)
  BY <1>1 DEF BusInv, BusTypes, Only, coreVars
<1>4. /\ bus_call'[c] = "popped" /\ bus_msg'[c] = Head(io_queue)
      /\ bus_ret[c] = "none" /\ bus_ret'[c] = "none"
  BY <1>1, <1>2 DEF BusInv, BusTypes, CoreAt
<1>5. CoreAt'
  BY <1>1, <1>2, <1>4 DEF BusInv, CoreAt, coreVars
<1>6. BusInv'
  BY <1>2, <1>3, <1>5, OnlyKeeps
<1>7. ASSUME NEW S
      PROVE  /\ OnTheWay(S)' = OnTheWay(S)
             /\ Handled(S)' = Handled(S)
             /\ Senders(S)' = Senders(S)
  <2>1. /\ OnTheWay(S)' + One(Sends(c, S)) + One(Lost(c, S)) + Cardinality(Places(io_queue, S))
              = OnTheWay(S) + One(Sends(c, S)') + One(Lost(c, S)')
                  + Cardinality(Places(io_queue, S)')
        /\ Senders(S)' + One(c \in TxSenders /\ Sending(c, S))
              = Senders(S) + One(c \in TxSenders /\ Sending(c, S)')
    BY <1>3, OnlyCounts DEF BusInv
  <2>2. /\ One(Sends(c, S)) = 0 /\ One(Sends(c, S)') = One(Head(io_queue) \in S)
        /\ One(Lost(c, S)) = 0 /\ One(Lost(c, S)') = 0
        /\ One(c \in TxSenders /\ Sending(c, S)) = 0
        /\ One(c \in TxSenders /\ Sending(c, S)') = 0
    BY <1>1, <1>2, <1>4, CoreBusAssumption DEF Sends, Lost, Sending, One
  <2>3. Cardinality(Places(io_queue, S)) = Cardinality(Places(io_queue, S)') + One(Head(io_queue) \in S)
    <3>1. Places(io_queue, S)' = Places(Tail(io_queue), S)
      BY <1>1 DEF Places
    <3> QED  BY <1>1, <3>1, PlacesTail DEF BusInv, BusTypes
  <2>4. Handled(S)' = Handled(S)
    BY DEF Handled, One, coreVars
  <2>5. One(Head(io_queue) \in S) \in Nat
    BY DEF One
  <2>6. /\ OnTheWay(S) \in Nat /\ Senders(S) \in Nat /\ OnTheWay(S)' \in Nat /\ Senders(S)' \in Nat
        /\ Cardinality(Places(io_queue, S)') \in Nat
    BY <1>3, NumbersNow, NumbersNext DEF BusInv, Numbers
  <2> QED  BY <2>1, <2>2, <2>3, <2>4, <2>5, <2>6
<1> QED  BY <1>6, <1>7 DEF SameCounts

LEMMA ReturnCounts ==
  ASSUME BusInv, NEW c \in Callers, Bus!FifoReturn(c), UNCHANGED coreVars,
         c # core_thread \/ core_at = "transfer"
  PROVE  BusInv' /\ SameCounts
<1>1. /\ bus_call[c] = "pushed"
      /\ bus_call' = [bus_call EXCEPT ![c] = "idle"]
      /\ bus_patience' = [bus_patience EXCEPT ![c] = "limited"]
      /\ bus_ret' = [bus_ret EXCEPT ![c] = "ok"]
      /\ UNCHANGED <<io_queue, bus_msg, bus_closed>>
  BY DEF Bus!FifoReturn, BusInv, CallerAt, CoreAt
<1>2. BusTypes' /\ Only(c)
  BY <1>1 DEF BusInv, BusTypes, Only, coreVars
<1>3. /\ bus_call'[c] = "idle" /\ bus_msg'[c] = bus_msg[c]
      /\ bus_ret[c] = "none" /\ bus_ret'[c] = "ok"
  BY <1>1 DEF BusInv, BusTypes, CallerAt, CoreAt
<1>4. IF c = core_thread THEN CoreAt' ELSE CallerAt(c)'
  BY <1>1, <1>3 DEF BusInv, CoreAt, CallerAt, Pushes, Busy, coreVars
<1>5. BusInv'
  BY <1>2, <1>4, OnlyKeeps
<1>6. ASSUME NEW S
      PROVE  /\ OnTheWay(S)' = OnTheWay(S)
             /\ Handled(S)' = Handled(S)
             /\ Senders(S)' = Senders(S)
  <2>1. /\ OnTheWay(S)' + One(Sends(c, S)) + One(Lost(c, S)) + Cardinality(Places(io_queue, S))
              = OnTheWay(S) + One(Sends(c, S)') + One(Lost(c, S)')
                  + Cardinality(Places(io_queue, S)')
        /\ Senders(S)' + One(c \in TxSenders /\ Sending(c, S))
              = Senders(S) + One(c \in TxSenders /\ Sending(c, S)')
    BY <1>2, OnlyCounts DEF BusInv
  <2>2. /\ One(Sends(c, S)) = 0 /\ One(Sends(c, S)') = 0
        /\ One(Lost(c, S)) = 0 /\ One(Lost(c, S)') = 0
        /\ One(c \in TxSenders /\ Sending(c, S)') = One(c \in TxSenders /\ Sending(c, S))
    BY <1>1, <1>3 DEF Sends, Lost, Sending, One
  <2>3. Places(io_queue, S)' = Places(io_queue, S)
    BY <1>1 DEF Places
  <2>4. Handled(S)' = Handled(S)
    BY DEF Handled, One, coreVars
  <2>5. /\ One(bus_msg[c] \in S) \in Nat
        /\ One(c \in TxSenders /\ Sending(c, S)) \in Nat
    BY DEF One
  <2>6. /\ OnTheWay(S) \in Nat /\ Senders(S) \in Nat /\ OnTheWay(S)' \in Nat /\ Senders(S)' \in Nat
        /\ Cardinality(Places(io_queue, S)) \in Nat
    BY <1>2, NumbersNow, NumbersNext DEF BusInv, Numbers
  <2> QED  BY <2>1, <2>2, <2>3, <2>4, <2>5, <2>6
<1> QED  BY <1>5, <1>6 DEF SameCounts

\* A pop of core_thread waits for ever.
LEMMA FailCounts ==
  ASSUME BusInv, NEW c \in Callers, Bus!FifoFail(c), UNCHANGED coreVars
  PROVE  BusInv' /\ SameCounts
<1>1. /\ bus_call[c] = "push"
      /\ bus_call' = [bus_call EXCEPT ![c] = "idle"]
      /\ bus_patience' = [bus_patience EXCEPT ![c] = "limited"]
      /\ bus_ret' = [bus_ret EXCEPT ![c] = "error"]
      /\ UNCHANGED <<io_queue, bus_msg, bus_closed>>
  <2>1. bus_call[c] \in {"push", "urgent", "pop", "refused"}
    BY DEF Bus!FifoFail, Bus!MayGiveUp, Bus!Pending
  <2>2. bus_call[c] \in {"idle", "push", "pushed", "pop", "popped"} /\ ~bus_closed
    BY DEF BusInv, BusTypes
  <2>3. CASE bus_call[c] = "pop"
    <3>1. c = core_thread /\ bus_patience[c] = "forever"
      BY <2>3 DEF BusInv, CallerAt, CoreAt
    <3> QED  BY <3>1, <2>2, <2>3 DEF Bus!FifoFail, Bus!MayGiveUp, Bus!Pending
  <2> QED  BY <2>1, <2>2, <2>3 DEF Bus!FifoFail
<1>2. BusTypes' /\ Only(c)
  BY <1>1 DEF BusInv, BusTypes, Only, coreVars
<1>3. /\ bus_call'[c] = "idle" /\ bus_msg'[c] = bus_msg[c]
      /\ bus_ret[c] = "none" /\ bus_ret'[c] = "error"
  BY <1>1 DEF BusInv, BusTypes, CallerAt, CoreAt
<1>4. IF c = core_thread THEN CoreAt' ELSE CallerAt(c)'
  BY <1>1, <1>3 DEF BusInv, CoreAt, CallerAt, Pushes, Busy, coreVars
<1>5. BusInv'
  BY <1>2, <1>4, OnlyKeeps
<1>6. ASSUME NEW S
      PROVE  /\ OnTheWay(S)' = OnTheWay(S)
             /\ Handled(S)' = Handled(S)
             /\ Senders(S)' = Senders(S)
  <2>1. /\ OnTheWay(S)' + One(Sends(c, S)) + One(Lost(c, S)) + Cardinality(Places(io_queue, S))
              = OnTheWay(S) + One(Sends(c, S)') + One(Lost(c, S)')
                  + Cardinality(Places(io_queue, S)')
        /\ Senders(S)' + One(c \in TxSenders /\ Sending(c, S))
              = Senders(S) + One(c \in TxSenders /\ Sending(c, S)')
    BY <1>2, OnlyCounts DEF BusInv
  <2>2. /\ One(Sends(c, S)) = One(bus_msg[c] \in S) /\ One(Sends(c, S)') = 0
        /\ One(Lost(c, S)) = 0 /\ One(Lost(c, S)') = One(bus_msg[c] \in S)
        /\ One(c \in TxSenders /\ Sending(c, S)') = One(c \in TxSenders /\ Sending(c, S))
    BY <1>1, <1>3 DEF Sends, Lost, Sending, One
  <2>3. Places(io_queue, S)' = Places(io_queue, S)
    BY <1>1 DEF Places
  <2>4. Handled(S)' = Handled(S)
    BY DEF Handled, One, coreVars
  <2>5. /\ One(bus_msg[c] \in S) \in Nat
        /\ One(c \in TxSenders /\ Sending(c, S)) \in Nat
    BY DEF One
  <2>6. /\ OnTheWay(S) \in Nat /\ Senders(S) \in Nat /\ OnTheWay(S)' \in Nat /\ Senders(S)' \in Nat
        /\ Cardinality(Places(io_queue, S)) \in Nat
    BY <1>2, NumbersNow, NumbersNext DEF BusInv, Numbers
  <2> QED  BY <2>1, <2>2, <2>3, <2>4, <2>5, <2>6
<1> QED  BY <1>5, <1>6 DEF SameCounts

LEMMA BusStepCounts ==
  ASSUME BusInv, BusStep
  PROVE  BusInv' /\ SameCounts
BY EnqueueCounts, DequeueCounts, ReturnCounts, FailCounts DEF BusStep

-----------------------------------------------------------------------------
(* The steps of core_thread *)

\* What core_thread does with its own call.
LEMMA CoreOnlyCounts ==
  ASSUME BusInv, BusTypes', Only(core_thread), UNCHANGED io_queue, CoreAt', NEW S
  PROVE  /\ BusInv'
         /\ OnTheWay(S)' + One(Sends(core_thread, S)) + One(Lost(core_thread, S))
              = OnTheWay(S) + One(Sends(core_thread, S)') + One(Lost(core_thread, S)')
         /\ Senders(S)' = Senders(S)
<1> DEFINE c == core_thread
<1>1. c \in Callers /\ c \notin TxSenders
  BY CoreBusAssumption DEF Callers
<1>2. ASSUME NEW d \in Callers \ {c}
      PROVE  CallerAt(d)'
  BY <1>2 DEF BusInv, Only, CallerAt, Busy
<1>3. /\ OnTheWay(S)' + One(Sends(c, S)) + One(Lost(c, S)) + Cardinality(Places(io_queue, S))
            = OnTheWay(S) + One(Sends(c, S)') + One(Lost(c, S)')
                + Cardinality(Places(io_queue, S)')
      /\ Senders(S)' + One(c \in TxSenders /\ Sending(c, S))
            = Senders(S) + One(c \in TxSenders /\ Sending(c, S)')
  BY <1>1, OnlyCounts DEF BusInv
<1>4. Places(io_queue, S)' = Places(io_queue, S)
  BY DEF Places
<1>5. /\ One(c \in TxSenders /\ Sending(c, S)) = 0
      /\ One(c \in TxSenders /\ Sending(c, S)') = 0
  BY <1>1 DEF One
<1>6. /\ One(Sends(c, S)) \in Nat /\ One(Lost(c, S)) \in Nat
      /\ One(Sends(c, S)') \in Nat /\ One(Lost(c, S)') \in Nat
  BY DEF One
<1>7. /\ OnTheWay(S) \in Nat /\ Senders(S) \in Nat /\ OnTheWay(S)' \in Nat /\ Senders(S)' \in Nat
      /\ Cardinality(Places(io_queue, S)) \in Nat
  BY NumbersNow, NumbersNext DEF BusInv, Numbers
<1>8. BusInv'
  BY <1>2 DEF BusInv
<1> HIDE DEF c
<1>9. /\ OnTheWay(S)' + One(Sends(c, S)) + One(Lost(c, S))
           = OnTheWay(S) + One(Sends(c, S)') + One(Lost(c, S)')
      /\ Senders(S)' = Senders(S)
  BY <1>3, <1>4, <1>5, <1>6, <1>7
<1> QED  BY <1>8, <1>9 DEF c

LEMMA CorePopCounts ==
  ASSUME BusInv, CorePop
  PROVE  BusInv' /\ SameCounts
<1>1. /\ core_at = "pop" /\ bus_ret[core_thread] = "none" /\ bus_call[core_thread] = "idle"
      /\ bus_call' = [bus_call EXCEPT ![core_thread] = "pop"]
      /\ bus_patience'[core_thread] = "forever"
      /\ \E w \in {"limited", "forever"} : bus_patience' = [bus_patience EXCEPT ![core_thread] = w]
      /\ bus_ret' = [bus_ret EXCEPT ![core_thread] = "none"]
      /\ UNCHANGED <<io_queue, bus_msg, bus_closed, core_at, msg>>
  BY DEF CorePop, Bus!FifoCallPop, coreVars
<1>2. core_thread \in Callers
  BY DEF Callers
<1>3. BusTypes' /\ Only(core_thread)
  BY <1>1 DEF BusInv, BusTypes, Only
<1>4. bus_call'[core_thread] = "pop" /\ bus_ret'[core_thread] = "none"
  BY <1>1, <1>2 DEF BusInv, BusTypes
<1>5. CoreAt'
  BY <1>1, <1>4 DEF BusInv, CoreAt
<1>6. ASSUME NEW S
      PROVE  /\ OnTheWay(S)' = OnTheWay(S)
             /\ Handled(S)' = Handled(S)
             /\ Senders(S)' = Senders(S)
  <2>1. /\ One(Sends(core_thread, S)) = 0 /\ One(Lost(core_thread, S)) = 0
        /\ One(Sends(core_thread, S)') = 0 /\ One(Lost(core_thread, S)') = 0
    BY <1>1, <1>4 DEF Sends, Lost, One
  <2>2. Handled(S)' = Handled(S)
    BY <1>1 DEF Handled, One
  <2>3. /\ OnTheWay(S)' + One(Sends(core_thread, S)) + One(Lost(core_thread, S))
             = OnTheWay(S) + One(Sends(core_thread, S)') + One(Lost(core_thread, S)')
        /\ Senders(S)' = Senders(S)
    BY <1>1, <1>3, <1>5, CoreOnlyCounts
  <2>4. OnTheWay(S) \in Nat /\ OnTheWay(S)' \in Nat
    BY <1>3, NumbersNow, NumbersNext DEF BusInv, Numbers
  <2> QED  BY <2>1, <2>2, <2>3, <2>4
<1>7. BusInv'
  BY <1>1, <1>3, <1>5, CoreOnlyCounts
<1> QED  BY <1>6, <1>7 DEF SameCounts

LEMMA CorePoppedCounts ==
  ASSUME BusInv, CorePopped
  PROVE  /\ BusInv'
         /\ \A S : NullMessage \notin S =>
              /\ OnTheWay(S)' + Handled(S)' = OnTheWay(S) + Handled(S)
              /\ Senders(S)' = Senders(S)
<1>1. /\ core_at = "pop" /\ bus_call[core_thread] = "popped"
      /\ bus_call' = [bus_call EXCEPT ![core_thread] = "idle"]
      /\ bus_patience' = [bus_patience EXCEPT ![core_thread] = "limited"]
      /\ core_at' = "handle"
      /\ msg' = bus_msg[core_thread]
      /\ bus_msg' = [bus_msg EXCEPT ![core_thread] = NullMessage]
      /\ UNCHANGED <<io_queue, bus_ret, bus_closed>>
  BY DEF CorePopped
<1>2. core_thread \in Callers /\ NullMessage \in BusMessages
  BY DEF Callers, NullMessage, BusMessages
<1>3. BusTypes' /\ Only(core_thread)
  BY <1>1, <1>2 DEF BusInv, BusTypes, Only
<1>4. /\ bus_call'[core_thread] = "idle" /\ bus_msg'[core_thread] = NullMessage
      /\ bus_ret[core_thread] = "none" /\ bus_ret'[core_thread] = "none"
  BY <1>1, <1>2 DEF BusInv, BusTypes, CoreAt
<1>5. CoreAt'
  BY <1>1, <1>4 DEF CoreAt
<1>6. ASSUME NEW S
      PROVE  /\ OnTheWay(S)' + Handled(S)' = OnTheWay(S) + Handled(S)
             /\ Senders(S)' = Senders(S)
  <2>1. /\ One(Sends(core_thread, S)) = One(bus_msg[core_thread] \in S)
        /\ One(Lost(core_thread, S)) = 0
        /\ One(Sends(core_thread, S)') = 0 /\ One(Lost(core_thread, S)') = 0
    BY <1>1, <1>4 DEF Sends, Lost, One
  <2>2. Handled(S) = 0 /\ Handled(S)' = One(bus_msg[core_thread] \in S)
    BY <1>1 DEF Handled, One
  <2>3. /\ OnTheWay(S)' + One(Sends(core_thread, S)) + One(Lost(core_thread, S))
             = OnTheWay(S) + One(Sends(core_thread, S)') + One(Lost(core_thread, S)')
        /\ Senders(S)' = Senders(S)
    BY <1>1, <1>3, <1>5, CoreOnlyCounts
  <2>4. /\ OnTheWay(S) \in Nat /\ OnTheWay(S)' \in Nat
        /\ One(bus_msg[core_thread] \in S) \in Nat
    BY <1>3, NumbersNow, NumbersNext DEF BusInv, Numbers, One
  <2> QED  BY <2>1, <2>2, <2>3, <2>4
<1>7. BusInv'
  BY <1>1, <1>3, <1>5, CoreOnlyCounts
<1> QED  BY <1>6, <1>7

\* core_thread goes on and leaves the bus alone.
LEMMA CoreGoesOn ==
  ASSUME BusInv, UNCHANGED busVars, BusTypes', CoreAt'
  PROVE  /\ BusInv'
         /\ \A S : OnTheWay(S)' = OnTheWay(S) /\ Senders(S)' = Senders(S)
<1> USE DEF busVars
<1>1. \A d \in Callers \ {core_thread} : CallerAt(d)'
  BY DEF BusInv, CallerAt, Busy
<1>2. \A S : OnTheWay(S)' = OnTheWay(S) /\ Senders(S)' = Senders(S)
  BY DEF OnTheWay, Senders, Sends, Lost, Sending, Places
<1> QED  BY <1>1, <1>2 DEF BusInv

\* It has handled its message.
LEMMA HandledCounts ==
  ASSUME BusInv, UNCHANGED <<busVars, msg>>, core_at' = "schedule",
         \/ core_at = "handle"
         \/ /\ core_at = "transfer" /\ bus_ret[core_thread] = "none"
            /\ bus_call[core_thread] = "idle"
  PROVE  /\ BusInv'
         /\ \A S : /\ OnTheWay(S)' = OnTheWay(S) /\ Senders(S)' = Senders(S)
                   /\ Handled(S) = One(msg \in S) /\ Handled(S)' = 0
<1>1. BusTypes'
  BY DEF BusInv, BusTypes, busVars
<1>2. CoreAt'
  BY DEF BusInv, BusTypes, CoreAt, busVars
<1>3. \A S : Handled(S) = One(msg \in S) /\ Handled(S)' = 0
  BY DEF Handled, One
<1> QED  BY <1>1, <1>2, <1>3, CoreGoesOn

\* It lets the kernel of the MAC run, or has found a packet to send.
LEMMA CoreOtherCounts ==
  ASSUME BusInv, CoreHandleTx \/ CoreScheduled \/ Forwarded \/ \E id \in Ids : Forward(id)
  PROVE  BusInv' /\ SameCounts
<1> DEFINE among(at) == at \in {"handle", "wake", "transfer"}
<1>1. /\ UNCHANGED busVars
      /\ \/ /\ core_at = "handle" /\ core_at' \in {"wake", "transfer"}
            /\ msg' = msg /\ msg.type = "tx"
         \/ /\ core_at \in {"schedule", "forward"}
            /\ core_at' \in {"pop", "schedule", "forward"}
            /\ msg' \in {msg, NullMessage}
  BY DEF CoreHandleTx, Handle, CoreScheduled, Forwarded, Forward
<1>2. NullMessage \in BusMessages
  BY DEF NullMessage, BusMessages
<1>3. BusTypes'
  BY <1>1, <1>2 DEF BusInv, BusTypes, busVars
<1>4. CoreAt'
  <2>1. /\ bus_ret[core_thread] = "none"
        /\ bus_call[core_thread] \notin {"pop", "popped", "push", "pushed"}
    BY <1>1 DEF BusInv, CoreAt
  <2>2. bus_call[core_thread] = "idle"
    BY <2>1 DEF BusInv, BusTypes, Callers
  <2>3. bus_ret'[core_thread] = "none" /\ bus_call'[core_thread] = "idle"
    BY <1>1, <2>1, <2>2 DEF busVars
  <2> QED  BY <1>1, <2>3 DEF CoreAt
<1>5. \A S : Handled(S)' = Handled(S)
  BY <1>1 DEF Handled, One
<1> QED  BY <1>1, <1>3, <1>4, <1>5, CoreGoesOn DEF SameCounts

LEMMA CoreWakeCounts ==
  ASSUME BusInv, CoreWake
  PROVE  BusInv' /\ SameCounts
<1>1. core_at = "wake" /\ core_at' = "transfer" /\ msg' = msg
  BY DEF CoreWake
<1>2. \A S : Handled(S)' = Handled(S)
  BY <1>1 DEF Handled, One
<1>3. CASE UNCHANGED busVars
  <2>1. BusTypes'
    BY <1>1, <1>3 DEF BusInv, BusTypes, busVars
  <2>2. CoreAt'
    BY <1>1, <1>3 DEF BusInv, CoreAt, busVars
  <2> QED  BY <1>2, <1>3, <2>1, <2>2, CoreGoesOn DEF SameCounts
<1>4. CASE Push(core_thread, NullMessage)
  <2>1. /\ bus_call[core_thread] = "idle" /\ bus_ret[core_thread] = "none"
        /\ bus_msg'[core_thread] = NullMessage
        /\ bus_call' = [bus_call EXCEPT ![core_thread] = "push"]
        /\ \E w \in {"limited", "forever"} : bus_patience' = [bus_patience EXCEPT ![core_thread] = w]
        /\ \E l \in BusMessages : bus_msg' = [bus_msg EXCEPT ![core_thread] = l]
        /\ bus_ret' = [bus_ret EXCEPT ![core_thread] = "none"]
        /\ UNCHANGED <<io_queue, bus_closed>>
    BY <1>4 DEF Push, Bus!FifoCallPush
  <2>2. core_thread \in Callers
    BY DEF Callers
  <2>3. BusTypes' /\ Only(core_thread)
    BY <1>1, <2>1 DEF BusInv, BusTypes, Only
  <2>4. bus_call'[core_thread] = "push" /\ bus_ret'[core_thread] = "none"
    BY <2>1, <2>2 DEF BusInv, BusTypes
  <2>5. CoreAt'
    BY <1>1, <2>1, <2>4 DEF BusInv, CoreAt
  <2>6. ASSUME NEW S, NullMessage \notin S
        PROVE  OnTheWay(S)' = OnTheWay(S) /\ Senders(S)' = Senders(S)
    <3>1. /\ One(Sends(core_thread, S)) = 0 /\ One(Lost(core_thread, S)) = 0
          /\ One(Sends(core_thread, S)') = 0 /\ One(Lost(core_thread, S)') = 0
      BY <2>1, <2>4, <2>6 DEF Sends, Lost, One
    <3>2. /\ OnTheWay(S)' + One(Sends(core_thread, S)) + One(Lost(core_thread, S))
               = OnTheWay(S) + One(Sends(core_thread, S)') + One(Lost(core_thread, S)')
          /\ Senders(S)' = Senders(S)
      BY <2>1, <2>3, <2>5, CoreOnlyCounts
    <3>3. OnTheWay(S) \in Nat /\ OnTheWay(S)' \in Nat
      BY <2>3, NumbersNow, NumbersNext DEF BusInv, Numbers
    <3> QED  BY <3>1, <3>2, <3>3
  <2>7. BusInv'
    BY <2>1, <2>3, <2>5, CoreOnlyCounts
  <2> QED  BY <1>2, <2>6, <2>7 DEF SameCounts
<1> QED  BY <1>3, <1>4 DEF CoreWake

LEMMA CoreWokenCounts ==
  ASSUME BusInv, CoreWoken
  PROVE  BusInv' /\ SameCounts
<1>1. core_at = "transfer" /\ UNCHANGED coreVars
  BY DEF CoreWoken, coreVars
<1>2. core_thread \in Callers
  BY DEF Callers
<1>3. CASE Bus!FifoReturn(core_thread)
  BY <1>1, <1>2, <1>3, ReturnCounts
<1>4. ASSUME NEW r \in {"ok", "error"}, Result(core_thread, r)
      PROVE  BusInv' /\ SameCounts
  <2>1. /\ bus_ret[core_thread] = r
        /\ bus_ret' = [bus_ret EXCEPT ![core_thread] = "none"]
        /\ bus_msg' = [bus_msg EXCEPT ![core_thread] = NullMessage]
        /\ UNCHANGED <<io_queue, bus_call, bus_patience, bus_closed>>
    BY <1>4 DEF Result
  <2>2. NullMessage \in BusMessages
    BY DEF NullMessage, BusMessages
  <2>3. BusTypes' /\ Only(core_thread)
    BY <1>1, <2>1, <2>2 DEF BusInv, BusTypes, Only, coreVars
  <2>4. /\ bus_call[core_thread] = "idle" /\ bus_msg[core_thread] = NullMessage
        /\ bus_ret'[core_thread] = "none" /\ bus_msg'[core_thread] = NullMessage
    BY <1>2, <2>1 DEF BusInv, BusTypes, CoreAt
  <2>5. CoreAt'
    BY <1>1, <2>1, <2>4 DEF BusInv, CoreAt, coreVars
  <2>6. ASSUME NEW S, NullMessage \notin S
        PROVE  OnTheWay(S)' = OnTheWay(S) /\ Senders(S)' = Senders(S)
    <3>1. /\ One(Sends(core_thread, S)) = 0 /\ One(Lost(core_thread, S)) = 0
          /\ One(Sends(core_thread, S)') = 0 /\ One(Lost(core_thread, S)') = 0
      BY <2>1, <2>4, <2>6 DEF Sends, Lost, One
    <3>2. /\ OnTheWay(S)' + One(Sends(core_thread, S)) + One(Lost(core_thread, S))
               = OnTheWay(S) + One(Sends(core_thread, S)') + One(Lost(core_thread, S)')
          /\ Senders(S)' = Senders(S)
      BY <2>1, <2>3, <2>5, CoreOnlyCounts
    <3>3. OnTheWay(S) \in Nat /\ OnTheWay(S)' \in Nat
      BY <2>3, NumbersNow, NumbersNext DEF BusInv, Numbers
    <3> QED  BY <3>1, <3>2, <3>3
  <2>7. BusInv'
    BY <2>1, <2>3, <2>5, CoreOnlyCounts
  <2>8. \A S : Handled(S)' = Handled(S)
    BY <1>1 DEF Handled, One, coreVars
  <2> QED  BY <2>6, <2>7, <2>8 DEF SameCounts
<1> QED  BY <1>3, <1>4 DEF CoreWoken

-----------------------------------------------------------------------------
(* The count of frames and the references to packets *)

CountInv ==
  /\ BusInv
  /\ bmsg_rx_count \in Nat /\ rx_refused \in Nat
  /\ bmsg_rx_count = OnTheWay(Frames) + Handled(Frames) + rx_refused
  /\ pbuf_ref \in [Pbufs -> Int]
  /\ \A p \in Pbufs : pbuf_ref[p] = OnTheWay(Packets(p)) + Handled(Packets(p))
                                      + Senders(Packets(p))

LEMMA Kinds ==
  /\ NullMessage \notin Frames /\ \A p : NullMessage \notin Packets(p)
  /\ \A m \in BusMessages : m.type = "rx" => m \in Frames /\ \A p : m \notin Packets(p)
  /\ \A m \in BusMessages : m.type \in {"ioctl", "null"} =>
       m \notin Frames /\ \A p : m \notin Packets(p)
  /\ \A m \in BusMessages : m.type = "tx" =>
       /\ m \notin Frames /\ m.arg \in Pbufs
       /\ \A p : m \in Packets(p) <=> p = m.arg
BY DEF Frames, Packets, NullMessage, BusMessages

\* RxCounted and PbufHeld say nothing else.
LEMMA CountInvImplies ==
  ASSUME CountInv
  PROVE  RxCounted /\ PbufHeld
<1>1. PbufHeld
  BY PacketsCounted DEF CountInv, BusInv
<1>2. Underway(IsRx) + Unsent(IsRx) = OnTheWay(Frames) + Handled(Frames)
  BY FramesCounted DEF CountInv, BusInv
<1>3. RxCounted
  BY <1>2 DEF RxCounted, CountInv
<1> QED  BY <1>1, <1>3

LEMMA CountInit ==
  ASSUME CbInit
  PROVE  CountInv
<1>1. BusInv
  BY BusInit
<1>2. ASSUME NEW S, NullMessage \notin S
      PROVE  OnTheWay(S) = 0 /\ Handled(S) = 0 /\ Senders(S) = 0
  <2>1. /\ {c \in Callers : Sends(c, S)} = {} /\ {c \in Callers : Lost(c, S)} = {}
        /\ {c \in TxSenders : Sending(c, S)} = {} /\ Places(io_queue, S) = {}
    BY <1>2 DEF CbInit, Bus!FifoInit, Sends, Lost, Sending, Places, Callers
  <2>2. Handled(S) = 0
    BY DEF CbInit, Handled, One
  <2> QED  BY <2>1, <2>2, FS_EmptySet DEF OnTheWay, Senders
<1>3. /\ OnTheWay(Frames) = 0 /\ Handled(Frames) = 0
      /\ \A p : OnTheWay(Packets(p)) = 0 /\ Handled(Packets(p)) = 0 /\ Senders(Packets(p)) = 0
  BY <1>2, Kinds
<1> QED  BY <1>1, <1>3 DEF CountInv, CbInit

\* As much has come as has gone.
LEMMA CountsBalance ==
  ASSUME CountInv, BusInv', UNCHANGED <<bmsg_rx_count, rx_refused, pbuf_ref>>,
         \A S : NullMessage \notin S =>
           /\ OnTheWay(S)' + Handled(S)' = OnTheWay(S) + Handled(S)
           /\ Senders(S)' = Senders(S)
  PROVE  CountInv'
<1>1. bmsg_rx_count' = OnTheWay(Frames)' + Handled(Frames)' + rx_refused'
  BY Kinds DEF CountInv
<1>2. ASSUME NEW p \in Pbufs
      PROVE  pbuf_ref'[p] = OnTheWay(Packets(p))' + Handled(Packets(p))' + Senders(Packets(p))'
  BY Kinds DEF CountInv
<1>3. Frames' = Frames /\ \A p : Packets(p)' = Packets(p)
  BY DEF Frames, Packets
<1> QED  BY <1>1, <1>2, <1>3 DEF CountInv

LEMMA SameBalance ==
  ASSUME CountInv, BusInv', SameCounts, UNCHANGED <<bmsg_rx_count, rx_refused, pbuf_ref>>
  PROVE  CountInv'
BY CountsBalance DEF SameCounts

LEMMA RxKeeps ==
  ASSUME CountInv, NEW c \in RxSenders, RxSend(c) \/ RxSent(c) \/ RxRefused(c)
  PROVE  CountInv'
<1>1. /\ c \in Callers \ {core_thread} /\ c \notin TxSenders /\ Pushes(c) = "rx"
      /\ UNCHANGED <<pbuf_ref, coreVars>> /\ BusInv
  BY CoreBusAssumption DEF Callers, Pushes, RxSend, RxSent, RxRefused, CountInv
<1>2. Numbers
  BY NumbersNow DEF CountInv, BusInv
<1>3. BusInv' => Numbers'
  BY NumbersNext DEF BusInv
<1>4. CASE RxSend(c)
  <2> DEFINE m == [type |-> "rx", arg |-> None]
  <2>1. /\ Push(c, m) /\ bmsg_rx_count' = bmsg_rx_count + 1 /\ rx_refused' = rx_refused
        /\ m.type = Pushes(c)
    BY <1>1, <1>4 DEF RxSend
  <2>2. m \in BusMessages
    BY DEF BusMessages
  <2>3. /\ One(m \in Frames) = 1 /\ \A p : One(m \in Packets(p)) = 0
        /\ \A p : One(c \in TxSenders /\ m \in Packets(p)) = 0
    BY <1>1, <2>2, Kinds DEF One
  <2> HIDE DEF m
  <2>4. /\ BusInv'
        /\ \A S : /\ OnTheWay(S)' = OnTheWay(S) + One(m \in S)
                  /\ Handled(S)' = Handled(S)
                  /\ Senders(S)' = Senders(S) + One(c \in TxSenders /\ m \in S)
    BY <1>1, <2>1, PushCounts
  <2> QED  BY <1>1, <1>2, <1>3, <2>1, <2>3, <2>4 DEF CountInv, Numbers
<1>5. ASSUME NEW r \in {"ok", "error"}, Result(c, r), bmsg_rx_count' = bmsg_rx_count,
             rx_refused' = rx_refused + One(r = "error")
      PROVE  CountInv'
  <2>1. /\ BusInv'
        /\ bus_msg[c].type = Pushes(c)
        /\ \A S : NullMessage \notin S =>
             /\ OnTheWay(S) = OnTheWay(S)' + One(r = "error" /\ bus_msg[c] \in S)
             /\ Handled(S)' = Handled(S)
             /\ Senders(S) = Senders(S)' + One(c \in TxSenders /\ bus_msg[c] \in S)
    BY <1>1, <1>5, ResultCounts
  <2>2. bus_msg[c] \in BusMessages
    BY <1>1 DEF BusInv, BusTypes
  <2>3. /\ One(r = "error" /\ bus_msg[c] \in Frames) = One(r = "error")
        /\ \A p : One(r = "error" /\ bus_msg[c] \in Packets(p)) = 0
        /\ \A p : One(c \in TxSenders /\ bus_msg[c] \in Packets(p)) = 0
    BY <1>1, <2>1, <2>2, Kinds DEF One
  <2>4. One(r = "error") \in Nat
    BY DEF One
  <2>5. /\ OnTheWay(Frames) = OnTheWay(Frames)' + One(r = "error")
        /\ Handled(Frames)' = Handled(Frames)
        /\ \A p : /\ OnTheWay(Packets(p)) = OnTheWay(Packets(p))' + 0
                  /\ Handled(Packets(p))' = Handled(Packets(p))
                  /\ Senders(Packets(p)) = Senders(Packets(p))' + 0
    BY <2>1, <2>3, Kinds
  <2>6. bmsg_rx_count' = OnTheWay(Frames)' + Handled(Frames)' + rx_refused'
    BY <1>2, <1>3, <1>5, <2>1, <2>4, <2>5 DEF CountInv, Numbers
  <2>7. ASSUME NEW p \in Pbufs
        PROVE  pbuf_ref'[p] = OnTheWay(Packets(p))' + Handled(Packets(p))' + Senders(Packets(p))'
    BY <1>1, <1>2, <1>3, <2>1, <2>5 DEF CountInv, Numbers
  <2> QED  BY <1>1, <1>5, <2>1, <2>4, <2>6, <2>7 DEF CountInv
<1>6. CASE RxSent(c)
  BY <1>5, <1>6 DEF RxSent, One, CountInv
<1>7. CASE RxRefused(c)
  BY <1>5, <1>7 DEF RxRefused, One
<1> QED  BY <1>4, <1>6, <1>7

LEMMA TxKeeps ==
  ASSUME CountInv, NEW c \in TxSenders,
         (\E p \in Pbufs : TxSend(c, p)) \/ TxSent(c) \/ TxRefused(c)
  PROVE  CountInv'
<1>1. /\ c \in Callers \ {core_thread} /\ Pushes(c) = "tx"
      /\ UNCHANGED <<bmsg_rx_count, rx_refused, coreVars>> /\ BusInv
  BY CoreBusAssumption DEF Callers, Pushes, TxSend, TxSent, TxRefused, CountInv
<1>2. Numbers
  BY NumbersNow DEF CountInv, BusInv
<1>3. BusInv' => Numbers'
  BY NumbersNext DEF BusInv
<1>4. ASSUME NEW a \in Pbufs, TxSend(c, a)
      PROVE  CountInv'
  <2> DEFINE m == [type |-> "tx", arg |-> a]
  <2>1. /\ Push(c, m) /\ pbuf_ref[a] = 0 /\ pbuf_ref' = [pbuf_ref EXCEPT ![a] = 2]
        /\ m.type = Pushes(c) /\ m.arg = a
    BY <1>1, <1>4 DEF TxSend
  <2>2. m \in BusMessages
    BY DEF BusMessages
  <2>3. /\ One(m \in Frames) = 0
        /\ \A p : One(m \in Packets(p)) = One(p = a)
        /\ \A p : One(c \in TxSenders /\ m \in Packets(p)) = One(p = a)
    BY <1>1, <2>1, <2>2, Kinds DEF One
  <2> HIDE DEF m
  <2>4. /\ BusInv'
        /\ \A S : /\ OnTheWay(S)' = OnTheWay(S) + One(m \in S)
                  /\ Handled(S)' = Handled(S)
                  /\ Senders(S)' = Senders(S) + One(c \in TxSenders /\ m \in S)
    BY <1>1, <2>1, PushCounts
  <2>5. bmsg_rx_count' = OnTheWay(Frames)' + Handled(Frames)' + rx_refused'
    BY <1>1, <1>2, <2>3, <2>4 DEF CountInv, Numbers
  <2>6. pbuf_ref' \in [Pbufs -> Int]
    BY <2>1 DEF CountInv
  <2>7. ASSUME NEW p \in Pbufs
        PROVE  pbuf_ref'[p] = OnTheWay(Packets(p))' + Handled(Packets(p))' + Senders(Packets(p))'
    <3>1. pbuf_ref'[p] = pbuf_ref[p] + One(p = a) + One(p = a)
      BY <2>1 DEF CountInv, One
    <3>2. /\ OnTheWay(Packets(p))' = OnTheWay(Packets(p)) + One(p = a)
          /\ Handled(Packets(p))' = Handled(Packets(p))
          /\ Senders(Packets(p))' = Senders(Packets(p)) + One(p = a)
      BY <2>3, <2>4
    <3>3. One(p = a) \in Nat
      BY DEF One
    <3>4. /\ pbuf_ref[p] = OnTheWay(Packets(p)) + Handled(Packets(p)) + Senders(Packets(p))
          /\ OnTheWay(Packets(p)) \in Nat /\ Handled(Packets(p)) \in Nat
          /\ Senders(Packets(p)) \in Nat
      BY <1>2 DEF CountInv, Numbers
    <3> QED  BY <3>1, <3>2, <3>3, <3>4
  <2> QED  BY <1>1, <2>4, <2>5, <2>6, <2>7 DEF CountInv
<1>5. ASSUME NEW r \in {"ok", "error"}, Result(c, r),
             pbuf_ref' = [pbuf_ref EXCEPT ![bus_msg[c].arg] = @ - (1 + One(r = "error"))]
      PROVE  CountInv'
  <2> DEFINE a == bus_msg[c].arg
  <2>1. /\ BusInv'
        /\ bus_msg[c].type = Pushes(c)
        /\ \A S : NullMessage \notin S =>
             /\ OnTheWay(S) = OnTheWay(S)' + One(r = "error" /\ bus_msg[c] \in S)
             /\ Handled(S)' = Handled(S)
             /\ Senders(S) = Senders(S)' + One(c \in TxSenders /\ bus_msg[c] \in S)
    BY <1>1, <1>5, ResultCounts
  <2>2. bus_msg[c] \in BusMessages
    BY <1>1 DEF BusInv, BusTypes
  <2>3. /\ a \in Pbufs
        /\ One(r = "error" /\ bus_msg[c] \in Frames) = 0
        /\ \A p : One(r = "error" /\ bus_msg[c] \in Packets(p)) = One(r = "error" /\ p = a)
        /\ \A p : One(c \in TxSenders /\ bus_msg[c] \in Packets(p)) = One(p = a)
    BY <1>1, <2>1, <2>2, Kinds DEF One
  <2>4. One(r = "error") \in Nat
    BY DEF One
  <2>5. bmsg_rx_count' = OnTheWay(Frames)' + Handled(Frames)' + rx_refused'
    <3>1. /\ OnTheWay(Frames) = OnTheWay(Frames)' + 0
          /\ Handled(Frames)' = Handled(Frames)
      BY <2>1, <2>3, Kinds
    <3> QED  BY <1>1, <1>2, <1>3, <2>1, <3>1 DEF CountInv, Numbers
  <2>6. pbuf_ref' \in [Pbufs -> Int]
    BY <1>5, <2>3, <2>4 DEF CountInv
  <2>7. ASSUME NEW p \in Pbufs
        PROVE  pbuf_ref'[p] = OnTheWay(Packets(p))' + Handled(Packets(p))' + Senders(Packets(p))'
    <3>1. pbuf_ref'[p] = pbuf_ref[p] - (One(p = a) + One(r = "error" /\ p = a))
      BY <1>5, <2>3, <2>4 DEF CountInv, One
    <3>2. /\ OnTheWay(Packets(p)) = OnTheWay(Packets(p))' + One(r = "error" /\ p = a)
          /\ Handled(Packets(p))' = Handled(Packets(p))
          /\ Senders(Packets(p)) = Senders(Packets(p))' + One(p = a)
      BY <2>1, <2>3, Kinds
    <3>3. One(p = a) \in Nat /\ One(r = "error" /\ p = a) \in Nat
      BY DEF One
    <3>4. /\ pbuf_ref[p] = OnTheWay(Packets(p)) + Handled(Packets(p)) + Senders(Packets(p))
          /\ OnTheWay(Packets(p))' \in Nat /\ Handled(Packets(p)) \in Nat
          /\ Senders(Packets(p))' \in Nat
      BY <1>2, <1>3, <2>1 DEF CountInv, Numbers
    <3> QED  BY <3>1, <3>2, <3>3, <3>4
  <2> QED  BY <1>1, <2>1, <2>5, <2>6, <2>7 DEF CountInv
<1>6. CASE TxSent(c)
  <2>1. One("ok" = "error") = 0
    BY DEF One
  <2>2. 1 + 0 = 1
    OBVIOUS
  <2> QED  BY <1>5, <1>6, <2>1, <2>2 DEF TxSent
<1>7. CASE TxRefused(c)
  <2>1. One("error" = "error") = 1
    BY DEF One
  <2>2. 1 + 1 = 2
    OBVIOUS
  <2> QED  BY <1>5, <1>7, <2>1, <2>2 DEF TxRefused
<1> QED  BY <1>4, <1>6, <1>7

\* Requests are not counted.
LEMMA RequestsNotCounted ==
  ASSUME CountInv, NEW r \in Requesters,
         \/ \E id \in Ids : ReqSend(r, id) \/ ReqSendOnly(r, id)
         \/ ReqSent(r) \/ ReqRefused(r)
  PROVE  CountInv'
<1>1. /\ r \in Callers \ {core_thread} /\ r \notin TxSenders /\ Pushes(r) = "ioctl"
      /\ UNCHANGED <<bmsg_rx_count, rx_refused, pbuf_ref, coreVars>> /\ BusInv
  BY CoreBusAssumption DEF Callers, Pushes, ReqSend, ReqSendOnly, ReqSent, ReqRefused, CountInv
<1>2. Numbers
  BY NumbersNow DEF CountInv, BusInv
<1>3. BusInv' => Numbers'
  BY NumbersNext DEF BusInv
<1>4. ASSUME NEW id \in Ids, Push(r, [type |-> "ioctl", arg |-> id])
      PROVE  CountInv'
  <2> DEFINE m == [type |-> "ioctl", arg |-> id]
  <2>1. m \in BusMessages /\ m.type = Pushes(r) /\ m.type = "ioctl"
    BY <1>1 DEF BusMessages
  <2>2. /\ One(m \in Frames) = 0 /\ \A p : One(m \in Packets(p)) = 0
        /\ \A S : One(r \in TxSenders /\ m \in S) = 0
    BY <1>1, <2>1, Kinds DEF One
  <2>3. /\ BusInv'
        /\ \A S : /\ OnTheWay(S)' = OnTheWay(S) + One(m \in S)
                  /\ Handled(S)' = Handled(S)
                  /\ Senders(S)' = Senders(S) + One(r \in TxSenders /\ m \in S)
    BY <1>1, <1>4, <2>1, PushCounts
  <2> HIDE DEF m
  <2> QED  BY <1>1, <1>2, <1>3, <2>2, <2>3 DEF CountInv, Numbers
<1>5. ASSUME NEW o \in {"ok", "error"}, Result(r, o)
      PROVE  CountInv'
  <2>1. /\ BusInv'
        /\ bus_msg[r].type = Pushes(r)
        /\ \A S : NullMessage \notin S =>
             /\ OnTheWay(S) = OnTheWay(S)' + One(o = "error" /\ bus_msg[r] \in S)
             /\ Handled(S)' = Handled(S)
             /\ Senders(S) = Senders(S)' + One(r \in TxSenders /\ bus_msg[r] \in S)
    BY <1>1, <1>5, ResultCounts
  <2>2. bus_msg[r] \in BusMessages
    BY <1>1 DEF BusInv, BusTypes
  <2>3. /\ One(o = "error" /\ bus_msg[r] \in Frames) = 0
        /\ \A p : One(o = "error" /\ bus_msg[r] \in Packets(p)) = 0
        /\ \A S : One(r \in TxSenders /\ bus_msg[r] \in S) = 0
    BY <1>1, <2>1, <2>2, Kinds DEF One
  <2>4. /\ OnTheWay(Frames) = OnTheWay(Frames)' + 0
        /\ Handled(Frames)' = Handled(Frames)
        /\ \A p : /\ OnTheWay(Packets(p)) = OnTheWay(Packets(p))' + 0
                  /\ Handled(Packets(p))' = Handled(Packets(p))
                  /\ Senders(Packets(p)) = Senders(Packets(p))' + 0
    BY <2>1, <2>3, Kinds
  <2> QED  BY <1>1, <1>2, <1>3, <2>1, <2>4 DEF CountInv, Numbers
<1> QED  BY <1>4, <1>5 DEF ReqSend, ReqSendOnly, ReqSent, ReqRefused

\* What has been handled is not counted any more.
LEMMA HandlersKeep ==
  ASSUME CountInv, CoreHandleRx \/ CoreTransfer \/ CoreHandleNull \/ CoreHandleIoctl
  PROVE  CountInv'
<1>1. /\ UNCHANGED <<busVars, msg, rx_refused>> /\ core_at' = "schedule"
      /\ \/ core_at = "handle"
         \/ /\ core_at = "transfer" /\ bus_ret[core_thread] = "none"
            /\ bus_call[core_thread] = "idle"
  BY DEF CoreHandleRx, CoreTransfer, CoreHandleNull, CoreHandleIoctl, Handle
<1>2. /\ BusInv'
      /\ \A S : /\ OnTheWay(S)' = OnTheWay(S) /\ Senders(S)' = Senders(S)
                /\ Handled(S) = One(msg \in S) /\ Handled(S)' = 0
  BY <1>1, HandledCounts DEF CountInv
<1>3. Numbers
  BY NumbersNow DEF CountInv, BusInv
<1>4. msg \in BusMessages
  BY DEF CountInv, BusInv, BusTypes
<1>5. CASE CoreHandleRx
  <2>1. One(msg \in Frames) = 1 /\ \A p : One(msg \in Packets(p)) = 0
    BY <1>4, <1>5, Kinds DEF One, CoreHandleRx, Handle
  <2>2. bmsg_rx_count > 0
    BY <1>2, <1>3, <2>1 DEF CountInv, Numbers
  <2>3. bmsg_rx_count' = bmsg_rx_count - 1 /\ pbuf_ref' = pbuf_ref
    BY <1>5, <2>2 DEF CoreHandleRx
  <2> QED  BY <1>1, <1>2, <1>3, <2>1, <2>2, <2>3 DEF CountInv, Numbers
<1>6. CASE CoreTransfer
  <2>1. /\ bmsg_rx_count' = bmsg_rx_count
        /\ pbuf_ref' = [pbuf_ref EXCEPT ![msg.arg] = @ - 1]
        /\ msg.type = "tx"
    BY <1>6 DEF CoreTransfer, CountInv, BusInv, CoreAt
  <2>2. /\ One(msg \in Frames) = 0 /\ msg.arg \in Pbufs
        /\ \A p : One(msg \in Packets(p)) = One(p = msg.arg)
    BY <1>4, <2>1, Kinds DEF One
  <2>3. pbuf_ref' \in [Pbufs -> Int]
    BY <2>1, <2>2 DEF CountInv
  <2>4. ASSUME NEW p \in Pbufs
        PROVE  pbuf_ref'[p] = OnTheWay(Packets(p))' + Handled(Packets(p))' + Senders(Packets(p))'
    <3>1. pbuf_ref'[p] = pbuf_ref[p] - One(p = msg.arg)
      BY <2>1, <2>2 DEF CountInv, One
    <3>2. One(p = msg.arg) \in Nat
      BY DEF One
    <3>3. /\ OnTheWay(Packets(p))' = OnTheWay(Packets(p))
          /\ Handled(Packets(p)) = One(p = msg.arg) /\ Handled(Packets(p))' = 0
          /\ Senders(Packets(p))' = Senders(Packets(p))
      BY <1>2, <2>2
    <3>4. /\ pbuf_ref[p] = OnTheWay(Packets(p)) + Handled(Packets(p)) + Senders(Packets(p))
          /\ OnTheWay(Packets(p)) \in Nat /\ Senders(Packets(p)) \in Nat
      BY <1>3 DEF CountInv, Numbers
    <3> QED  BY <3>1, <3>2, <3>3, <3>4
  <2>5. bmsg_rx_count' = OnTheWay(Frames)' + Handled(Frames)' + rx_refused'
    BY <1>1, <1>2, <2>1, <2>2 DEF CountInv
  <2> QED  BY <1>1, <1>2, <2>1, <2>3, <2>4, <2>5 DEF CountInv
<1>7. CASE CoreHandleNull \/ CoreHandleIoctl
  <2>1. UNCHANGED <<bmsg_rx_count, pbuf_ref>> /\ msg.type \in {"ioctl", "null"}
    BY <1>7 DEF CoreHandleNull, CoreHandleIoctl, Handle
  <2>2. One(msg \in Frames) = 0 /\ \A p : One(msg \in Packets(p)) = 0
    BY <1>4, <2>1, Kinds DEF One
  <2> QED  BY <1>1, <1>2, <2>1, <2>2 DEF CountInv
<1> QED  BY <1>5, <1>6, <1>7

LEMMA CountNext ==
  ASSUME CountInv, [CfNext]_<<cbVars, cfVars>>
  PROVE  CountInv'
<1>1. CASE UNCHANGED cbVars
  <2>1. UNCHANGED <<busVars, core_at, msg, bmsg_rx_count, rx_refused, pbuf_ref>> /\ BusInv
    BY <1>1 DEF cbVars, coreVars, CountInv
  <2>2. BusTypes' /\ CoreAt'
    BY <2>1 DEF BusInv, BusTypes, CoreAt, busVars
  <2>3. \A S : Handled(S)' = Handled(S)
    BY <2>1 DEF Handled, One
  <2>4. BusInv' /\ SameCounts
    BY <2>1, <2>2, <2>3, CoreGoesOn DEF SameCounts
  <2> QED  BY <2>1, <2>4, SameBalance
<1>2. CASE CbStep
  <2>1. CASE BusStep \/ CorePop \/ CoreHandleTx \/ CoreScheduled \/ CoreWake \/ CoreWoken
    <3>1. UNCHANGED <<bmsg_rx_count, rx_refused, pbuf_ref>> /\ BusInv
      BY <2>1 DEF BusStep, CorePop, CoreHandleTx, CoreScheduled, CoreWake, CoreWoken, CountInv
    <3>2. BusInv' /\ SameCounts
      BY <2>1, <3>1, BusStepCounts, CorePopCounts, CoreOtherCounts, CoreWakeCounts, CoreWokenCounts
    <3> QED  BY <3>1, <3>2, SameBalance
  <2>2. CASE CorePopped
    BY <2>2, CorePoppedCounts, CountsBalance DEF CorePopped, CountInv
  <2> QED  BY <1>2, <2>1, <2>2, RxKeeps, TxKeeps, HandlersKeep DEF CbStep
<1>3. CASE Forwarded \/ \E id \in Ids : Forward(id)
  <2>1. UNCHANGED <<bmsg_rx_count, rx_refused, pbuf_ref>> /\ BusInv
    BY <1>3 DEF Forwarded, Forward, CountInv
  <2>2. BusInv' /\ SameCounts
    BY <1>3, <2>1, CoreOtherCounts
  <2> QED  BY <2>1, <2>2, SameBalance
<1>4. ASSUME NEW r \in Requesters,
             ReqGet(r) \/ ReqTimeout(r) \/ ReqExtract(r) \/ ReqReturn(r)
      PROVE  UNCHANGED cbVars
  BY <1>4 DEF ReqGet, ReqTimeout, ReqExtract, ReqReturn
<1>5. CASE RecvStep
  BY <1>1, <1>5 DEF RecvStep, RecvWake, RecvPop, RecvPopped, RecvPick,
     RecvMatch, RecvNext, RecvHandle, RecvExtract, RecvSet, Recv
<1> QED  BY <1>1, <1>2, <1>3, <1>4, <1>5, RequestsNotCounted, HandlersKeep DEF CfNext

\* The steps of senders, core_thread and the bus keep the counts, whatever
\* the MAC and its requesters do.
THEOREM CountInvariance == CfSpec => []CountInv
<1>1. CfInitAll => CountInv
  BY CountInit DEF CfInitAll
<1>2. CountInv /\ [CfNext]_<<cbVars, cfVars>> => CountInv'
  BY CountNext
<1> QED  BY <1>1, <1>2, PTL DEF CfSpec

\* bmsg_rx_sender and bmsg_rx_handler: whatever the threads and interrupts
\* that push and refuse do, bmsg_rx_count is the number of messages of frames
\* between a sender and the end of their handler, and of all ever refused.
THEOREM FramesAreCounted == CfSpec => []RxCounted
<1>1. CountInv => RxCounted
  BY CountInvImplies
<1> QED  BY CountInvariance, <1>1, PTL

\* bmsg_tx_sender and bmsg_tx_handler: the references to a packet are those
\* of the messages that carry it and of the stack that sends it, so neither
\* side frees it under the other and one of them frees it.
THEOREM PacketsAreHeld == CfSpec => []PbufHeld
<1>1. CountInv => PbufHeld
  BY CountInvImplies
<1> QED  BY CountInvariance, <1>1, PTL

-----------------------------------------------------------------------------
(* Lists of nodes *)

Once(list) == \A i, j \in DOMAIN list : list[i] = list[j] => i = j

\* co_list_push_back
LEMMA AppendAdds ==
  ASSUME NEW S, NEW list \in Seq(S), NEW n \in S, Once(list), n \notin On(list)
  PROVE  /\ Append(list, n) \in Seq(S)
         /\ Once(Append(list, n))
         /\ On(Append(list, n)) = On(list) \cup {n}
<1> DEFINE new == Append(list, n)
<1>1. /\ new \in Seq(S)
      /\ Len(list) \in Nat
      /\ DOMAIN list = 1 .. Len(list) /\ DOMAIN new = 1 .. Len(list) + 1
      /\ \A i \in 1 .. Len(list) : new[i] = list[i]
      /\ new[Len(list) + 1] = n
  OBVIOUS
<1> HIDE DEF new
<1>2. Once(new)
  BY <1>1 DEF Once, On
<1>3. On(new) = On(list) \cup {n}
  BY <1>1 DEF On
<1> QED  BY <1>1, <1>2, <1>3 DEF new

\* co_list_extract
LEMMA ExtractRemoves ==
  ASSUME NEW S, NEW list \in Seq(S), NEW n, Once(list)
  PROVE  /\ Extract(list, n) \in Seq(S)
         /\ Once(Extract(list, n))
         /\ On(Extract(list, n)) = On(list) \ {n}
<1>1. CASE n \notin On(list)
  BY <1>1 DEF Extract
<1>2. CASE n \in On(list)
  <2> DEFINE k == CHOOSE i \in DOMAIN list : list[i] = n
             new == Extract(list, n)
  <2>1. k \in DOMAIN list /\ list[k] = n
    BY <1>2 DEF On
  <2>2. Len(list) \in Nat \ {0} /\ k \in 1 .. Len(list) /\ DOMAIN list = 1 .. Len(list)
    BY <2>1
  <2>3. new = [i \in 1 .. Len(list) - 1 |-> IF i < k THEN list[i] ELSE list[i + 1]]
    BY <1>2 DEF Extract
  <2> HIDE DEF k
  <2>4. /\ new \in Seq(S)
        /\ DOMAIN new = 1 .. Len(list) - 1
        /\ \A i \in 1 .. Len(list) - 1 : new[i] = IF i < k THEN list[i] ELSE list[i + 1]
    BY <2>2, <2>3
  <2> HIDE DEF new
  <2>5. Once(new)
    <3> SUFFICES ASSUME NEW i \in 1 .. Len(list) - 1, NEW j \in 1 .. Len(list) - 1,
                        new[i] = new[j]
                 PROVE  i = j
      BY <2>4 DEF Once
    <3> DEFINE from(m) == IF m < k THEN m ELSE m + 1
    <3>1. \A m \in 1 .. Len(list) - 1 : from(m) \in 1 .. Len(list) /\ new[m] = list[from(m)]
      BY <2>2, <2>4
    <3>2. from(i) = from(j)
      BY <2>2, <3>1 DEF Once
    <3> QED  BY <2>2, <3>2
  <2>6. On(new) = On(list) \ {n}
    <3>1. ASSUME NEW i \in 1 .. Len(list) - 1
          PROVE  new[i] \in On(list) \ {n}
      <4> DEFINE m == IF i < k THEN i ELSE i + 1
      <4>1. m \in 1 .. Len(list) /\ m # k /\ new[i] = list[m]
        BY <2>2, <2>4
      <4>2. list[m] # n
        BY <4>1, <2>1, <2>2 DEF Once
      <4> QED  BY <4>1, <4>2, <2>2 DEF On
    <3>2. ASSUME NEW i \in DOMAIN list, list[i] # n
          PROVE  list[i] \in On(new)
      <4>1. i # k
        BY <2>1, <3>2
      <4>2. CASE i < k
        BY <4>2, <2>2, <2>4 DEF On
      <4>3. CASE i > k
        <5>1. i - 1 \in 1 .. Len(list) - 1 /\ new[i - 1] = list[i]
          BY <4>3, <2>2, <2>4
        <5> QED  BY <5>1, <2>4 DEF On
      <4> QED  BY <4>1, <4>2, <4>3, <2>2
    <3>3. On(new) \subseteq On(list) \ {n}
      BY <3>1, <2>4 DEF On
    <3> QED  BY <3>2, <3>3 DEF On
  <2> QED  BY <2>4, <2>5, <2>6 DEF new
<1> QED  BY <1>1, <1>2

\* A list without repetitions is as long as it has elements.
LEMMA OnceIsCounted ==
  ASSUME NEW S, NEW list \in Seq(S), Once(list)
  PROVE  Cardinality(On(list)) = Len(list)
<1> DEFINE f == [i \in 1 .. Len(list) |-> list[i]]
<1>1. Len(list) \in Nat /\ DOMAIN list = 1 .. Len(list)
  OBVIOUS
<1>2. f \in Bijection(1 .. Len(list), On(list))
  <2>1. f \in [1 .. Len(list) -> On(list)]
    BY <1>1 DEF On
  <2>2. \A i, j \in 1 .. Len(list) : f[i] = f[j] => i = j
    BY <1>1 DEF Once
  <2>3. \A s \in On(list) : \E i \in 1 .. Len(list) : f[i] = s
    BY <1>1 DEF On
  <2> HIDE DEF f
  <2> QED  BY <2>1, <2>2, <2>3 DEF Bijection, Injection, Surjection, IsInjective
<1> HIDE DEF f
<1>3. ExistsBijection(1 .. Len(list), On(list))
  BY <1>2, SMTT(30) DEF ExistsBijection
<1>4. IsFiniteSet(1 .. Len(list)) /\ Cardinality(1 .. Len(list)) = Len(list)
  BY <1>1, FS_Interval
<1> QED  BY <1>3, <1>4, FS_Bijection

-----------------------------------------------------------------------------
(* The list of requests *)

\* The node kmsgbk has found.
Taken == IF recv_at \in {"extract", "set"} THEN {tx_msg} ELSE {}

ReqTypes ==
  /\ rw_msg_tx_head \in Seq(Nodes)
  /\ node \in [Requesters -> Nodes \cup {None}]
  /\ signalled \subseteq Nodes
  /\ req_at \in [Requesters -> {"out", "push", "get", "sleep", "woken", "timeout", "free"}]

\* No node is linked twice or belongs to two requests.
Apart ==
  /\ Once(rw_msg_tx_head)
  /\ \A r, s \in Requesters : node[r] = node[s] /\ node[r] # None => r = s

\* What is linked, has been found or is signalled is allocated; the node of
\* the walk is linked; what is signalled is neither linked nor about to be signalled.
Allocated ==
  /\ On(rw_msg_tx_head) \cup Taken \cup signalled \subseteq Live
  /\ signalled \cap (On(rw_msg_tx_head) \cup Taken) = {}
  /\ recv_at = "match" => tx_msg \in On(rw_msg_tx_head)
  /\ recv_at = "set" => tx_msg \notin On(rw_msg_tx_head)

\* Where a requester is tells where its node is.
PlacedAt(r) ==
  /\ req_at[r] = "out" => node[r] = None
  /\ req_at[r] \notin {"out", "push"} => node[r] # None
  /\ req_at[r] \in {"push", "get"} /\ node[r] # None =>
       node[r] \in On(rw_msg_tx_head) \cup Taken \cup signalled
  /\ req_at[r] = "sleep" => node[r] \in On(rw_msg_tx_head) \cup Taken
  /\ req_at[r] \in {"woken", "free"} => node[r] \notin On(rw_msg_tx_head)

Placed == \A r \in Requesters : PlacedAt(r)

ReqInv == ReqTypes /\ Apart /\ Allocated /\ Placed

LEMMA ReqInit ==
  ASSUME CfInit
  PROVE  ReqInv
<1> USE DEF CfInit
<1>1. ReqTypes /\ Apart
  BY DEF ReqTypes, Apart, Once
<1>2. On(rw_msg_tx_head) = {} /\ Taken = {} /\ signalled = {}
  BY DEF On, Taken
<1> QED  BY <1>1, <1>2 DEF ReqInv, Allocated, Placed, PlacedAt

\* Steps of the bus, of core_thread and of kmsgbk before it finds a node.
LEMMA ReqFrame ==
  ASSUME ReqInv, UNCHANGED <<rw_msg_tx_head, node, signalled, req_at>>, Taken' = Taken,
         recv_at' \in {"match", "set"} => recv_at' = recv_at /\ tx_msg' = tx_msg
  PROVE  ReqInv'
<1>1. On(rw_msg_tx_head)' = On(rw_msg_tx_head) /\ Live' = Live
  BY DEF On, Live
<1>2. ReqTypes' /\ Apart'
  BY DEF ReqInv, ReqTypes, Apart, Once
<1>3. Allocated'
  BY <1>1 DEF ReqInv, Allocated
<1>4. Placed'
  BY <1>1 DEF ReqInv, Placed, PlacedAt
<1> QED  BY <1>2, <1>3, <1>4 DEF ReqInv

\* A requester goes on, and the list stays as it is.
LEMMA ReqGoesOn ==
  ASSUME ReqInv, UNCHANGED <<rw_msg_tx_head, node, signalled, recv_at, tx_msg>>,
         NEW r \in Requesters,
         NEW to \in {"out", "push", "get", "sleep", "woken", "timeout", "free"},
         req_at' = [req_at EXCEPT ![r] = to],
         PlacedAt(r)'
  PROVE  ReqInv'
<1>1. /\ On(rw_msg_tx_head)' = On(rw_msg_tx_head) /\ Live' = Live
      /\ Taken' = Taken
  BY DEF On, Live, Taken
<1>2. ReqTypes' /\ Apart'
  BY DEF ReqInv, ReqTypes, Apart, Once
<1>3. Allocated'
  BY <1>1 DEF ReqInv, Allocated
<1>4. ASSUME NEW s \in Requesters, s # r
      PROVE  PlacedAt(s)'
  <2>1. req_at'[s] = req_at[s] /\ PlacedAt(s)
    BY <1>4 DEF ReqInv, ReqTypes, Placed
  <2> QED  BY <2>1, <1>1 DEF PlacedAt
<1>5. Placed'
  BY <1>4 DEF Placed
<1> QED  BY <1>2, <1>3, <1>5 DEF ReqInv

\* A requester that runs finds kmsgbk waiting.
LEMMA ReqRuns ==
  ASSUME Urgent = {}, ReqInv, NEW r \in Requesters, NEW from, NEW to, Req(r, from, to)
  PROVE  /\ recv_at = "wait" /\ Taken = {}
         /\ req_at[r] = from /\ req_at'[r] = to
         /\ req_at' = [req_at EXCEPT ![r] = to]
BY DEF Req, Scheduled, Taken, ReqInv, ReqTypes

-----------------------------------------------------------------------------
(* The steps of rw_msg_send *)

\* The node is linked before its request goes to the bus.
LEMMA ReqSendKeeps ==
  ASSUME Urgent = {}, ReqInv, NEW r \in Requesters, NEW id, ReqSend(r, id)
  PROVE  ReqInv'
<1>1. /\ Req(r, "out", "push")
      /\ UNCHANGED <<signalled, recv_at, tx_msg>>
  BY DEF ReqSend
<1>2. PICK n \in Nodes \ (Live \cup On(rw_msg_tx_head)) :
        /\ node' = [node EXCEPT ![r] = n]
        /\ rw_msg_tx_head' = Append(rw_msg_tx_head, n)
  BY DEF ReqSend
<1>3. /\ recv_at = "wait" /\ Taken = {} /\ Taken' = {}
      /\ req_at[r] = "out" /\ req_at'[r] = "push"
      /\ req_at' = [req_at EXCEPT ![r] = "push"]
  BY <1>1, ReqRuns DEF Taken
<1>4. /\ rw_msg_tx_head' \in Seq(Nodes)
      /\ Once(rw_msg_tx_head')
      /\ On(rw_msg_tx_head') = On(rw_msg_tx_head) \cup {n}
  BY <1>2, AppendAdds DEF ReqInv, ReqTypes, Apart
<1>5. /\ n # None /\ node[r] = None /\ node'[r] = n
      /\ \A s \in Requesters \ {r} : /\ node'[s] = node[s] /\ node[s] # n
                                     /\ req_at'[s] = req_at[s]
  BY <1>2, <1>3, MsgConfirmAssumption DEF ReqInv, ReqTypes, Placed, PlacedAt, Live
<1>6. Live' = Live \cup {n}
  BY <1>5 DEF Live
<1>7. ReqTypes'
  BY <1>1, <1>2, <1>3, <1>4 DEF ReqInv, ReqTypes
<1>8. Apart'
  BY <1>4, <1>5 DEF ReqInv, Apart
<1>9. Allocated'
  BY <1>1, <1>2, <1>3, <1>4, <1>6 DEF ReqInv, Allocated
<1>10. PlacedAt(r)'
  BY <1>3, <1>4, <1>5 DEF PlacedAt
<1>11. ASSUME NEW s \in Requesters \ {r}
       PROVE  PlacedAt(s)'
  <2>1. PlacedAt(s)
    BY DEF ReqInv, Placed
  <2> QED  BY <2>1, <1>1, <1>3, <1>4, <1>5 DEF PlacedAt
<1>12. Placed'
  BY <1>10, <1>11 DEF Placed
<1> QED  BY <1>7, <1>8, <1>9, <1>12 DEF ReqInv

LEMMA ReqSendOnlyKeeps ==
  ASSUME Urgent = {}, ReqInv, NEW r \in Requesters, NEW id, ReqSendOnly(r, id)
  PROVE  ReqInv'
<1>1. /\ Req(r, "out", "push")
      /\ UNCHANGED <<rw_msg_tx_head, node, signalled, recv_at, tx_msg>>
  BY DEF ReqSendOnly
<1>2. req_at' = [req_at EXCEPT ![r] = "push"] /\ req_at[r] = "out" /\ req_at'[r] = "push"
  BY <1>1, ReqRuns
<1>3. PlacedAt(r)'
  BY <1>1, <1>2 DEF ReqInv, Placed, PlacedAt
<1> QED  BY <1>1, <1>2, <1>3, ReqGoesOn

LEMMA ReqSentKeeps ==
  ASSUME Urgent = {}, ReqInv, NEW r \in Requesters, ReqSent(r)
  PROVE  ReqInv'
<1> DEFINE to == IF node[r] = None THEN "out" ELSE "get"
<1>1. /\ Req(r, "push", to)
      /\ UNCHANGED <<rw_msg_tx_head, node, signalled, recv_at, tx_msg>>
  BY DEF ReqSent
<1>2. req_at' = [req_at EXCEPT ![r] = to] /\ req_at[r] = "push" /\ req_at'[r] = to
  BY <1>1, ReqRuns
<1>3. PlacedAt(r)'
  <2>1. PlacedAt(r) /\ Taken' = Taken /\ On(rw_msg_tx_head)' = On(rw_msg_tx_head)
    BY <1>1 DEF ReqInv, Placed, Taken, On
  <2> QED  BY <1>1, <1>2, <2>1 DEF PlacedAt
<1> QED  BY <1>1, <1>2, <1>3, ReqGoesOn

\* Only a request nobody waits for is refused.
LEMMA ReqRefusedKeeps ==
  ASSUME Urgent = {}, BusHasRoom, ReqInv, NEW r \in Requesters, ReqRefused(r)
  PROVE  ReqInv'
<1>1. /\ Req(r, "push", "out")
      /\ UNCHANGED <<rw_msg_tx_head, recv_at, tx_msg>>
      /\ node[r] = None /\ Free(r)
  BY DEF ReqRefused
<1>2. req_at' = [req_at EXCEPT ![r] = "out"] /\ req_at'[r] = "out"
  BY <1>1, ReqRuns
<1>3. UNCHANGED <<node, signalled>>
  BY <1>1, MsgConfirmAssumption DEF Free, ReqInv, ReqTypes
<1>4. PlacedAt(r)'
  BY <1>1, <1>2, <1>3 DEF PlacedAt
<1> QED  BY <1>1, <1>2, <1>3, <1>4, ReqGoesOn

LEMMA ReqGetKeeps ==
  ASSUME Urgent = {}, ReqInv, NEW r \in Requesters, ReqGet(r)
  PROVE  ReqInv'
<1> DEFINE to == IF node[r] \in signalled THEN "woken" ELSE "sleep"
<1>1. /\ Req(r, "get", to)
      /\ UNCHANGED <<rw_msg_tx_head, node, signalled, recv_at, tx_msg>>
  BY DEF ReqGet
<1>2. req_at' = [req_at EXCEPT ![r] = to] /\ req_at[r] = "get" /\ req_at'[r] = to
  BY <1>1, ReqRuns
<1>3. PlacedAt(r)'
  <2>1. PlacedAt(r) /\ Taken' = Taken /\ On(rw_msg_tx_head)' = On(rw_msg_tx_head)
    BY <1>1 DEF ReqInv, Placed, Taken, On
  <2> QED  BY <1>1, <1>2, <2>1 DEF PlacedAt, ReqInv, Allocated
<1> QED  BY <1>1, <1>2, <1>3, ReqGoesOn

LEMMA ReqTimeoutKeeps ==
  ASSUME ReqInv, NEW r \in Requesters, ReqTimeout(r)
  PROVE  ReqInv'
<1>1. /\ req_at[r] = "sleep"
      /\ req_at' = [req_at EXCEPT ![r] = "timeout"] /\ req_at'[r] = "timeout"
      /\ UNCHANGED <<rw_msg_tx_head, node, signalled, recv_at, tx_msg>>
  BY DEF ReqTimeout, ReqInv, ReqTypes
<1>2. PlacedAt(r)'
  BY <1>1 DEF ReqInv, Placed, PlacedAt
<1> QED  BY <1>1, <1>2, ReqGoesOn

\* A request that has given up takes its node off the list.
LEMMA ReqExtractKeeps ==
  ASSUME Urgent = {}, ReqInv, NEW r \in Requesters, ReqExtract(r)
  PROVE  ReqInv'
<1>1. /\ Req(r, "timeout", "free")
      /\ rw_msg_tx_head' = Extract(rw_msg_tx_head, node[r])
      /\ UNCHANGED <<node, signalled, recv_at, tx_msg>>
  BY DEF ReqExtract
<1>2. /\ recv_at = "wait" /\ Taken = {} /\ Taken' = {}
      /\ req_at[r] = "timeout" /\ req_at'[r] = "free"
      /\ req_at' = [req_at EXCEPT ![r] = "free"]
  BY <1>1, ReqRuns DEF Taken
<1>3. /\ rw_msg_tx_head' \in Seq(Nodes)
      /\ Once(rw_msg_tx_head')
      /\ On(rw_msg_tx_head') = On(rw_msg_tx_head) \ {node[r]}
  BY <1>1, ExtractRemoves DEF ReqInv, ReqTypes, Apart
<1>4. /\ node[r] # None
      /\ \A s \in Requesters \ {r} : req_at'[s] = req_at[s] /\ node[s] # node[r]
  BY <1>2 DEF ReqInv, ReqTypes, Apart, Placed, PlacedAt
<1>5. Live' = Live
  BY <1>1 DEF Live
<1>6. ReqTypes'
  BY <1>1, <1>2, <1>3 DEF ReqInv, ReqTypes
<1>7. Apart'
  BY <1>1, <1>3 DEF ReqInv, Apart
<1>8. Allocated'
  BY <1>1, <1>2, <1>3, <1>5 DEF ReqInv, Allocated
<1>9. PlacedAt(r)'
  BY <1>1, <1>2, <1>3, <1>4 DEF PlacedAt
<1>10. ASSUME NEW s \in Requesters \ {r}
       PROVE  PlacedAt(s)'
  <2>1. PlacedAt(s)
    BY DEF ReqInv, Placed
  <2> QED  BY <2>1, <1>1, <1>2, <1>3, <1>4 DEF PlacedAt
<1>11. Placed'
  BY <1>9, <1>10 DEF Placed
<1> QED  BY <1>6, <1>7, <1>8, <1>11 DEF ReqInv

\* The node that is freed is not linked.
LEMMA ReqReturnKeeps ==
  ASSUME Urgent = {}, ReqInv, NEW r \in Requesters, ReqReturn(r)
  PROVE  ReqInv'
<1>1. PICK from \in {"woken", "free"} : Req(r, from, "out")
  BY DEF ReqReturn
<1>2. /\ UNCHANGED <<rw_msg_tx_head, recv_at, tx_msg>>
      /\ node' = [node EXCEPT ![r] = None]
      /\ signalled' = signalled \ {node[r]}
  BY DEF ReqReturn, Free
<1>3. /\ recv_at = "wait" /\ Taken = {} /\ Taken' = {}
      /\ req_at[r] = from /\ req_at'[r] = "out"
      /\ req_at' = [req_at EXCEPT ![r] = "out"]
  BY <1>1, <1>2, ReqRuns DEF Taken
<1>4. /\ node[r] # None /\ node[r] \notin On(rw_msg_tx_head) /\ node'[r] = None
      /\ \A s \in Requesters \ {r} : /\ req_at'[s] = req_at[s]
                                     /\ node'[s] = node[s] /\ node[s] # node[r]
      /\ On(rw_msg_tx_head)' = On(rw_msg_tx_head)
  BY <1>2, <1>3 DEF ReqInv, ReqTypes, Apart, Placed, PlacedAt, On
<1>5. Live' = Live \ {node[r]}
  BY <1>4 DEF Live
<1>6. ReqTypes'
  BY <1>2, <1>3 DEF ReqInv, ReqTypes
<1>7. Apart'
  BY <1>2, <1>4 DEF ReqInv, Apart, Once
<1>8. Allocated'
  BY <1>2, <1>3, <1>4, <1>5 DEF ReqInv, Allocated
<1>9. PlacedAt(r)'
  BY <1>3, <1>4 DEF PlacedAt
<1>10. ASSUME NEW s \in Requesters \ {r}
       PROVE  PlacedAt(s)'
  <2>1. PlacedAt(s)
    BY DEF ReqInv, Placed
  <2> QED  BY <2>1, <1>2, <1>3, <1>4 DEF PlacedAt
<1>11. Placed'
  BY <1>9, <1>10 DEF Placed
<1> QED  BY <1>6, <1>7, <1>8, <1>11 DEF ReqInv

-----------------------------------------------------------------------------
(* The steps of rwnx_recv_msg *)

\* The walk goes from linked node to linked node.
LEMMA RecvWalkKeeps ==
  ASSUME ReqInv, RecvPick \/ RecvNext
  PROVE  ReqInv'
<1>1. /\ UNCHANGED <<rw_msg_tx_head, node, signalled, req_at>>
      /\ recv_at \in {"pick", "match"} /\ recv_at' \in {"match", "handle"}
  BY DEF RecvPick, RecvNext, Recv
<1>2. /\ Taken = {} /\ Taken' = {}
      /\ On(rw_msg_tx_head)' = On(rw_msg_tx_head) /\ Live' = Live
  BY <1>1 DEF Taken, On, Live
<1>3. ASSUME recv_at' = "match"
      PROVE  tx_msg' \in On(rw_msg_tx_head)
  <2>1. rw_msg_tx_head \in Seq(Nodes)
    BY DEF ReqInv, ReqTypes
  <2>2. CASE RecvPick
    BY <1>3, <2>1, <2>2 DEF RecvPick, Recv, On
  <2>3. CASE RecvNext
    <3>1. tx_msg \in On(rw_msg_tx_head) /\ tx_msg' # None /\ tx_msg' \in Following
      BY <1>3, <2>3 DEF RecvNext, Recv, ReqInv, Allocated
    <3>2. PICK i \in DOMAIN rw_msg_tx_head :
            tx_msg' = IF i = Len(rw_msg_tx_head) THEN None ELSE rw_msg_tx_head[i + 1]
      BY <3>1 DEF Following
    <3>3. i # Len(rw_msg_tx_head) /\ i + 1 \in DOMAIN rw_msg_tx_head
      BY <2>1, <3>1, <3>2
    <3> QED  BY <3>2, <3>3 DEF On
  <2> QED  BY <2>2, <2>3
<1>4. ReqTypes' /\ Apart'
  BY <1>1 DEF ReqInv, ReqTypes, Apart, Once
<1>5. Allocated'
  BY <1>1, <1>2, <1>3 DEF ReqInv, Allocated
<1>6. Placed'
  BY <1>1, <1>2 DEF ReqInv, Placed, PlacedAt
<1> QED  BY <1>4, <1>5, <1>6 DEF ReqInv

\* The node found is a linked one.
LEMMA RecvMatchKeeps ==
  ASSUME ReqInv, RecvMatch
  PROVE  ReqInv'
<1>1. /\ recv_at = "match" /\ recv_at' = "extract"
      /\ UNCHANGED <<rw_msg_tx_head, node, signalled, req_at, tx_msg>>
      /\ tx_msg \in On(rw_msg_tx_head)
  BY DEF RecvMatch, Recv, ReqInv, Allocated
<1>2. /\ Taken = {} /\ Taken' = {tx_msg}
      /\ On(rw_msg_tx_head)' = On(rw_msg_tx_head) /\ Live' = Live
  BY <1>1 DEF Taken, On, Live
<1>3. ReqTypes' /\ Apart'
  BY <1>1 DEF ReqInv, ReqTypes, Apart, Once
<1>4. Allocated'
  BY <1>1, <1>2 DEF ReqInv, Allocated
<1>5. Placed'
  BY <1>1, <1>2 DEF ReqInv, Placed, PlacedAt
<1> QED  BY <1>3, <1>4, <1>5 DEF ReqInv

LEMMA RecvExtractKeeps ==
  ASSUME ReqInv, RecvExtract
  PROVE  ReqInv'
<1>1. /\ recv_at = "extract" /\ recv_at' = "set"
      /\ UNCHANGED <<node, signalled, req_at, tx_msg>>
      /\ rw_msg_tx_head' = Extract(rw_msg_tx_head, tx_msg)
  BY DEF RecvExtract, Recv
<1>2. /\ rw_msg_tx_head' \in Seq(Nodes)
      /\ Once(rw_msg_tx_head')
      /\ On(rw_msg_tx_head') = On(rw_msg_tx_head) \ {tx_msg}
  BY <1>1, ExtractRemoves DEF ReqInv, ReqTypes, Apart
<1>3. Taken = {tx_msg} /\ Taken' = {tx_msg} /\ Live' = Live
  BY <1>1 DEF Taken, Live
<1>4. ReqTypes' /\ Apart'
  BY <1>1, <1>2 DEF ReqInv, ReqTypes, Apart
<1>5. Allocated'
  BY <1>1, <1>2, <1>3 DEF ReqInv, Allocated
<1>6. Placed'
  BY <1>1, <1>2, <1>3 DEF ReqInv, Placed, PlacedAt
<1> QED  BY <1>4, <1>5, <1>6 DEF ReqInv

LEMMA RecvSetKeeps ==
  ASSUME ReqInv, RecvSet
  PROVE  ReqInv'
<1>1. /\ recv_at = "set" /\ recv_at' = "pop"
      /\ UNCHANGED <<rw_msg_tx_head, node>>
      /\ signalled' = signalled \cup {tx_msg}
      /\ req_at' = [r \in Requesters |->
                      IF node[r] = tx_msg /\ req_at[r] = "sleep" THEN "woken" ELSE req_at[r]]
  BY DEF RecvSet, Recv
<1>2. /\ Taken = {tx_msg} /\ Taken' = {}
      /\ On(rw_msg_tx_head)' = On(rw_msg_tx_head) /\ Live' = Live
  BY <1>1 DEF Taken, On, Live
<1>3. tx_msg \in Live /\ tx_msg \in Nodes /\ tx_msg \notin On(rw_msg_tx_head)
  BY <1>1, <1>2 DEF ReqInv, ReqTypes, Allocated, Live
<1>4. ReqTypes' /\ Apart'
  BY <1>1, <1>3 DEF ReqInv, ReqTypes, Apart, Once
<1>5. Allocated'
  BY <1>1, <1>2, <1>3 DEF ReqInv, Allocated
<1>6. ASSUME NEW r \in Requesters
      PROVE  PlacedAt(r)'
  <2>1. PlacedAt(r)
    BY DEF ReqInv, Placed
  <2>2. CASE node[r] = tx_msg /\ req_at[r] = "sleep"
    <3>1. req_at'[r] = "woken" /\ node'[r] = tx_msg
      BY <2>2, <1>1
    <3> QED  BY <3>1, <2>1, <2>2, <1>2, <1>3 DEF PlacedAt
  <2>3. CASE ~(node[r] = tx_msg /\ req_at[r] = "sleep")
    <3>1. req_at'[r] = req_at[r] /\ node'[r] = node[r]
      BY <2>3, <1>1
    <3> QED  BY <3>1, <2>1, <2>3, <1>1, <1>2, <1>3 DEF PlacedAt
  <2> QED  BY <2>2, <2>3
<1>7. Placed'
  BY <1>6 DEF Placed
<1> QED  BY <1>4, <1>5, <1>7 DEF ReqInv

\* Before and after the walk kmsgbk leaves the requests alone.
LEMMA RecvKeeps ==
  ASSUME ReqInv, RecvWake \/ RecvPop \/ RecvPopped \/ RecvHandle
  PROVE  ReqInv'
<1>1. /\ UNCHANGED <<rw_msg_tx_head, node, signalled, req_at>>
      /\ Taken = {} /\ Taken' = {} /\ recv_at' \notin {"match", "set"}
  BY DEF RecvWake, RecvPop, RecvPopped, RecvHandle, Recv, Taken
<1> QED  BY <1>1, ReqFrame

-----------------------------------------------------------------------------
(* The theorem *)

\* So do the bus and core_thread.
LEMMA CoreKeeps ==
  ASSUME ReqInv, \/ UNCHANGED cfVars
                 \/ CoreHandleIoctl \/ Forwarded \/ \E id \in Ids : Forward(id)
  PROVE  ReqInv'
<1>1. UNCHANGED <<rw_msg_tx_head, node, signalled, req_at, recv_at, tx_msg>>
  BY DEF cfVars, CoreHandleIoctl, Forwarded, Forward
<1>2. Taken' = Taken
  BY <1>1 DEF Taken
<1> QED  BY <1>1, <1>2, ReqFrame

LEMMA ReqNext ==
  ASSUME Urgent = {}, BusHasRoom, ReqInv, [CfNext]_<<cbVars, cfVars>>
  PROVE  ReqInv'
<1>1. CASE UNCHANGED cfVars
  BY <1>1, CoreKeeps
<1>2. ASSUME NEW r \in Requesters,
             \/ \E id \in Ids : ReqSend(r, id) \/ ReqSendOnly(r, id)
             \/ ReqSent(r) \/ ReqRefused(r) \/ ReqGet(r) \/ ReqTimeout(r)
             \/ ReqExtract(r) \/ ReqReturn(r)
      PROVE  ReqInv'
  BY <1>2, ReqSendKeeps, ReqSendOnlyKeeps, ReqSentKeeps, ReqRefusedKeeps, ReqGetKeeps,
     ReqTimeoutKeeps, ReqExtractKeeps, ReqReturnKeeps
<1>3. CASE CoreHandleIoctl \/ Forwarded \/ \E id \in Ids : Forward(id)
  BY <1>3, CoreKeeps
<1>4. CASE RecvStep
  BY <1>4, RecvKeeps, RecvWalkKeeps, RecvMatchKeeps, RecvExtractKeeps, RecvSetKeeps
  DEF RecvStep
<1> QED  BY <1>1, <1>2, <1>3, <1>4 DEF CfNext

LEMMA ReqInvImplies ==
  ASSUME ReqInv
  PROVE  NodesLive /\ SemaphoreExists
<1>1. Len(rw_msg_tx_head) = Cardinality(On(rw_msg_tx_head))
  BY OnceIsCounted DEF ReqInv, ReqTypes, Apart
<1> QED  BY <1>1 DEF ReqInv, Allocated, Placed, PlacedAt, NodesLive, SemaphoreExists, Taken

\* rw_msg_send and rwnx_recv_msg: as long as the bus takes the requests and
\* kmsgbk is not preempted by a requester, no list of requests holds freed
\* memory, whatever times out, and whoever sleeps will be found.
THEOREM RequestsAreLive == BusHasRoom /\ Urgent = {} => (CfSpec => []NodesLive)
<1> SUFFICES ASSUME BusHasRoom, Urgent = {}
             PROVE  CfSpec => []NodesLive
  OBVIOUS
<1>1. CfInitAll => ReqInv
  BY ReqInit DEF CfInitAll
<1>2. ReqInv /\ [CfNext]_<<cbVars, cfVars>> => ReqInv'
  BY ReqNext
<1>3. ReqInv => NodesLive
  BY ReqInvImplies
<1> QED  BY <1>1, <1>2, <1>3, PTL DEF CfSpec

\* "ASSERT(0 == ret)" of rwnx_recv_msg: under the same conditions the
\* semaphore kmsgbk releases belongs to a request that has not returned.
THEOREM SemaphoreIsThere == BusHasRoom /\ Urgent = {} => (CfSpec => []SemaphoreExists)
<1> SUFFICES ASSUME BusHasRoom, Urgent = {}
             PROVE  CfSpec => []SemaphoreExists
  OBVIOUS
<1>1. CfInitAll => ReqInv
  BY ReqInit DEF CfInitAll
<1>2. ReqInv /\ [CfNext]_<<cbVars, cfVars>> => ReqInv'
  BY ReqNext
<1>3. ReqInv => SemaphoreExists
  BY ReqInvImplies
<1> QED  BY <1>1, <1>2, <1>3, PTL DEF CfSpec

-----------------------------------------------------------------------------
(* Types and bounds *)

\* bmsg_rx_sender sends no more than two; a packet is held by its message and
\* by the stack.
LimitInv ==
  /\ bmsg_rx_count <= 2
  /\ pbuf_ref \in [Pbufs -> 0 .. 2]

LEMMA LimitNext ==
  ASSUME CountInv, CountInv', LimitInv, [CfNext]_<<cbVars, cfVars>>
  PROVE  LimitInv'
<1>1. /\ bmsg_rx_count' <= 2
      /\ \/ UNCHANGED pbuf_ref
         \/ \E a, k : k \in {1, 2} /\ pbuf_ref' = [pbuf_ref EXCEPT ![a] = @ - k]
         \/ \E a : pbuf_ref' = [pbuf_ref EXCEPT ![a] = 2]
  <2> USE DEF LimitInv, CountInv
  <2>1. CASE UNCHANGED <<bmsg_rx_count, pbuf_ref>>
    BY <2>1
  <2>2. ASSUME NEW c \in RxSenders, RxSend(c) \/ RxSent(c) \/ RxRefused(c)
        PROVE  bmsg_rx_count' <= 2 /\ UNCHANGED pbuf_ref
    BY <2>2 DEF RxSend, RxSent, RxRefused
  <2>3. ASSUME NEW c \in TxSenders, (\E p \in Pbufs : TxSend(c, p)) \/ TxSent(c) \/ TxRefused(c)
        PROVE  /\ bmsg_rx_count' <= 2
               /\ \/ \E a, k : k \in {1, 2} /\ pbuf_ref' = [pbuf_ref EXCEPT ![a] = @ - k]
                  \/ \E a : pbuf_ref' = [pbuf_ref EXCEPT ![a] = 2]
    <3>1. CASE TxSent(c)
      BY <3>1 DEF TxSent
    <3>2. CASE TxRefused(c)
      BY <3>2 DEF TxRefused
    <3> QED  BY <2>3, <3>1, <3>2 DEF TxSend
  <2>4. CASE CoreHandleRx
    BY <2>4 DEF CoreHandleRx
  <2>5. CASE CoreTransfer
    BY <2>5 DEF CoreTransfer
  <2>6. ASSUME \/ BusStep \/ CorePop \/ CorePopped \/ CoreHandleTx \/ CoreWake \/ CoreWoken
               \/ CoreHandleNull \/ CoreScheduled \/ CoreHandleIoctl \/ Forwarded
               \/ \E id \in Ids : Forward(id)
        PROVE  UNCHANGED <<bmsg_rx_count, pbuf_ref>>
    BY <2>6 DEF BusStep, CorePop, CorePopped, CoreHandleTx, CoreWake, CoreWoken,
       CoreHandleNull, CoreScheduled, CoreHandleIoctl, Forwarded, Forward
  <2>7. ASSUME NEW r \in Requesters,
               \/ \E id \in Ids : ReqSend(r, id) \/ ReqSendOnly(r, id)
               \/ ReqSent(r) \/ ReqRefused(r)
        PROVE  UNCHANGED <<bmsg_rx_count, pbuf_ref>>
    BY <2>7 DEF ReqSend, ReqSendOnly, ReqSent, ReqRefused
  <2>8. ASSUME \/ UNCHANGED cbVars
               \/ \E r \in Requesters : ReqGet(r) \/ ReqTimeout(r) \/ ReqExtract(r) \/ ReqReturn(r)
               \/ RecvStep
        PROVE  UNCHANGED <<bmsg_rx_count, pbuf_ref>>
    BY <2>8 DEF cbVars, ReqGet, ReqTimeout, ReqExtract, ReqReturn,
       RecvStep, RecvWake, RecvPop, RecvPopped, RecvPick,
     RecvMatch, RecvNext, RecvHandle, RecvExtract, RecvSet, Recv
  <2>9. CASE CbStep
    BY <2>9, <2>1, <2>2, <2>3, <2>4, <2>5, <2>6 DEF CbStep
  <2> QED  BY <2>1, <2>6, <2>7, <2>8, <2>9 DEF CfNext
<1>2. ASSUME NEW p \in Pbufs
      PROVE  pbuf_ref'[p] \in 0 .. 2
  <2>1. pbuf_ref'[p] \in Nat
    <3>1. Numbers'
      BY NumbersNext DEF CountInv, BusInv
    <3>2. /\ OnTheWay(Packets(p))' \in Nat /\ Handled(Packets(p))' \in Nat
          /\ Senders(Packets(p))' \in Nat
      BY <3>1 DEF Numbers
    <3> QED  BY <3>2 DEF CountInv
  <2>2. pbuf_ref'[p] <= 2
    BY <1>1 DEF LimitInv
  <2> QED  BY <2>1, <2>2
<1>3. pbuf_ref' \in [Pbufs -> Int]
  BY DEF CountInv
<1> QED  BY <1>1, <1>2, <1>3 DEF LimitInv

\* The lists of requests and answers and those who use them.
ListInv ==
  /\ rw_msg_tx_head \in Seq(Nodes) /\ Once(rw_msg_tx_head)
  /\ rw_msg_rx_head \in Seq(Ids)
  /\ app_sema \in 0 .. MaxSema
  /\ core_at = "forward" => app_sema < MaxSema
  /\ node \in [Requesters -> Nodes \cup {None}]
  /\ reqid \in [Nodes -> Ids \cup {None}]
  /\ signalled \subseteq Nodes
  /\ req_at \in [Requesters -> {"out", "push", "get", "sleep", "woken", "timeout", "free"}]
  /\ recv_at \in {"wait", "pop", "pop_last", "pop_more", "pick", "match", "handle",
                 "extract", "set"}
  /\ rx_msg \in Ids \cup {None}
  /\ tx_msg \in Nodes \cup {None}
  /\ recv_at \in {"match", "extract", "set"} => tx_msg \in Nodes
  /\ recv_at = "pop_more" => rw_msg_rx_head # <<>>

LEMMA FreeTypes ==
  ASSUME ListInv, NEW r \in Requesters, Free(r)
  PROVE  /\ node' \in [Requesters -> Nodes \cup {None}]
         /\ reqid' \in [Nodes -> Ids \cup {None}]
         /\ signalled' \subseteq Nodes
BY DEF ListInv, Free

LEMMA ReqListTypes ==
  ASSUME ListInv, NEW r \in Requesters,
         \/ \E id \in Ids : ReqSend(r, id) \/ ReqSendOnly(r, id)
         \/ ReqSent(r) \/ ReqRefused(r) \/ ReqGet(r) \/ ReqTimeout(r)
         \/ ReqExtract(r) \/ ReqReturn(r)
  PROVE  ListInv'
<1>1. ASSUME NEW id \in Ids, ReqSend(r, id)
      PROVE  ListInv'
  <2>1. PICK n \in Nodes \ (Live \cup On(rw_msg_tx_head)) :
          /\ node' = [node EXCEPT ![r] = n]
          /\ reqid' = [reqid EXCEPT ![n] = id]
          /\ rw_msg_tx_head' = Append(rw_msg_tx_head, n)
    BY <1>1 DEF ReqSend
  <2>2. rw_msg_tx_head' \in Seq(Nodes) /\ Once(rw_msg_tx_head')
    BY <2>1, AppendAdds DEF ListInv
  <2>3. /\ req_at' = [req_at EXCEPT ![r] = "push"]
        /\ UNCHANGED <<rw_msg_rx_head, app_sema, core_at, signalled, recv_at, rx_msg, tx_msg>>
    BY <1>1 DEF ReqSend, Req, coreVars
  <2> QED  BY <2>1, <2>2, <2>3 DEF ListInv
<1>2. ASSUME NEW id \in Ids, ReqSendOnly(r, id)
      PROVE  ListInv'
  BY <1>2 DEF ReqSendOnly, Req, coreVars, ListInv, Once
<1>3. CASE ReqSent(r)
  BY <1>3 DEF ReqSent, Req, coreVars, ListInv, Once
<1>4. CASE ReqRefused(r)
  <2>1. /\ req_at' = [req_at EXCEPT ![r] = "out"]
        /\ UNCHANGED <<rw_msg_tx_head, rw_msg_rx_head, app_sema, core_at, recv_at, rx_msg, tx_msg>>
        /\ Free(r)
    BY <1>4 DEF ReqRefused, Req, coreVars
  <2> QED  BY <2>1, FreeTypes DEF ListInv, Once
<1>5. CASE ReqGet(r)
  BY <1>5 DEF ReqGet, Req, cbVars, coreVars, ListInv, Once
<1>6. CASE ReqTimeout(r)
  BY <1>6 DEF ReqTimeout, cbVars, coreVars, ListInv, Once
<1>7. CASE ReqExtract(r)
  <2>1. rw_msg_tx_head' \in Seq(Nodes) /\ Once(rw_msg_tx_head')
    BY <1>7, ExtractRemoves DEF ReqExtract, ListInv
  <2>2. /\ req_at' = [req_at EXCEPT ![r] = "free"]
        /\ UNCHANGED <<rw_msg_rx_head, app_sema, core_at, node, reqid, signalled, recv_at, rx_msg, tx_msg>>
    BY <1>7 DEF ReqExtract, Req, cbVars, coreVars
  <2> QED  BY <2>1, <2>2 DEF ListInv
<1>8. CASE ReqReturn(r)
  <2>1. /\ req_at' = [req_at EXCEPT ![r] = "out"]
        /\ UNCHANGED <<rw_msg_tx_head, rw_msg_rx_head, app_sema, core_at, recv_at, rx_msg, tx_msg>>
        /\ Free(r)
    BY <1>8 DEF ReqReturn, Req, cbVars, coreVars
  <2> QED  BY <2>1, FreeTypes DEF ListInv, Once
<1> QED  BY <1>1, <1>2, <1>3, <1>4, <1>5, <1>6, <1>7, <1>8

LEMMA RecvListTypes ==
  ASSUME ListInv, RecvStep
  PROVE  ListInv'
<1>1. UNCHANGED <<core_at, node, reqid>>
  BY DEF RecvStep, RecvWake, RecvPop, RecvPopped, RecvPick,
     RecvMatch, RecvNext, RecvHandle, RecvExtract, RecvSet, Recv, cbVars, coreVars
<1>2. CASE RecvWake
  BY <1>1, <1>2, MsgConfirmAssumption DEF RecvWake, Recv, ListInv, Once
<1>3. CASE RecvPop
  <2>1. rw_msg_rx_head # <<>> => Head(rw_msg_rx_head) \in Ids
    BY DEF ListInv
  <2>2. /\ recv_at' \in {"wait", "pop_last", "pop_more"}
        /\ recv_at' = "pop_more" => rw_msg_rx_head # <<>>
        /\ rx_msg' = IF rw_msg_rx_head = <<>> THEN None ELSE Head(rw_msg_rx_head)
        /\ UNCHANGED <<app_sema, rw_msg_tx_head, rw_msg_rx_head, signalled, req_at, tx_msg>>
    BY <1>3 DEF RecvPop, Recv, ListInv
  <2> QED  BY <1>1, <2>1, <2>2 DEF ListInv, Once
<1>4. CASE RecvPopped
  <2>1. rw_msg_rx_head' \in Seq(Ids)
    <3>1. rw_msg_rx_head \in Seq(Ids) /\ (recv_at = "pop_more" => rw_msg_rx_head # <<>>)
      BY DEF ListInv
    <3>2. CASE recv_at = "pop_more"
      <4>1. rw_msg_rx_head' = Tail(rw_msg_rx_head)
        BY <1>4, <3>2 DEF RecvPopped, Recv
      <4> QED  BY <3>1, <3>2, <4>1
    <3>3. CASE recv_at # "pop_more"
      <4>1. rw_msg_rx_head' = <<>>
        BY <1>4, <3>3 DEF RecvPopped, Recv
      <4> QED  BY <4>1
    <3> QED  BY <3>2, <3>3
  <2>2. /\ recv_at' = "pick"
        /\ UNCHANGED <<app_sema, rw_msg_tx_head, signalled, req_at, rx_msg, tx_msg>>
    BY <1>4 DEF RecvPopped, Recv
  <2> QED  BY <1>1, <2>1, <2>2 DEF ListInv, Once
<1>5. CASE RecvPick \/ RecvMatch \/ RecvNext \/ RecvHandle
  <2>1. /\ recv_at' \in {"match", "handle", "extract", "pop"}
        /\ UNCHANGED <<rw_msg_tx_head, rw_msg_rx_head, app_sema, signalled, req_at>>
    BY <1>5 DEF RecvPick, RecvMatch, RecvNext, RecvHandle, Recv
  <2>2. rx_msg' \in Ids \cup {None}
    BY <1>5 DEF RecvPick, RecvMatch, RecvNext, RecvHandle, ListInv
  <2>3. tx_msg' \in Nodes \cup {None} /\ (recv_at' \in {"match", "extract"} => tx_msg' \in Nodes)
    <3>1. CASE RecvPick
      BY <3>1 DEF RecvPick, Recv, ListInv
    <3>2. CASE RecvMatch
      BY <3>2 DEF RecvMatch, Recv, ListInv
    <3>3. CASE RecvNext
      <4>1. tx_msg' \in Nodes \cup {None}
        <5>1. CASE tx_msg \notin On(rw_msg_tx_head)
          BY <3>3, <5>1 DEF RecvNext, Following
        <5>2. CASE tx_msg \in On(rw_msg_tx_head)
          <6>1. PICK i \in DOMAIN rw_msg_tx_head :
                  tx_msg' = IF i = Len(rw_msg_tx_head) THEN None ELSE rw_msg_tx_head[i + 1]
            BY <3>3, <5>2 DEF RecvNext, Following
          <6> QED  BY <6>1 DEF ListInv
        <5> QED  BY <5>1, <5>2
      <4> QED  BY <3>3, <4>1 DEF RecvNext, Recv
    <3>4. CASE RecvHandle
      BY <3>4 DEF RecvHandle, Recv, ListInv
    <3> QED  BY <1>5, <3>1, <3>2, <3>3, <3>4
  <2> QED  BY <1>1, <2>1, <2>2, <2>3 DEF ListInv, Once
<1>6. CASE RecvExtract
  <2>1. rw_msg_tx_head' \in Seq(Nodes) /\ Once(rw_msg_tx_head')
    BY <1>6, ExtractRemoves DEF RecvExtract, ListInv
  <2>2. /\ recv_at = "extract" /\ recv_at' = "set"
        /\ UNCHANGED <<rw_msg_rx_head, app_sema, signalled, req_at, rx_msg, tx_msg>>
    BY <1>6 DEF RecvExtract, Recv
  <2> QED  BY <1>1, <2>1, <2>2 DEF ListInv
<1>7. CASE RecvSet
  <2>1. /\ recv_at = "set" /\ recv_at' = "pop"
        /\ signalled' = signalled \cup {tx_msg}
        /\ req_at' = [r \in Requesters |->
                        IF node[r] = tx_msg /\ req_at[r] = "sleep" THEN "woken" ELSE req_at[r]]
        /\ rx_msg' = None /\ tx_msg' = None
        /\ UNCHANGED <<rw_msg_tx_head, rw_msg_rx_head, app_sema>>
    BY <1>7 DEF RecvSet, Recv
  <2> QED  BY <1>1, <2>1 DEF ListInv, Once
<1> QED  BY <1>2, <1>3, <1>4, <1>5, <1>6, <1>7 DEF RecvStep

LEMMA ListNext ==
  ASSUME ListInv, [CfNext]_<<cbVars, cfVars>>
  PROVE  ListInv'
<1>1. ASSUME UNCHANGED cfVars, core_at' = "forward" => core_at = "forward"
      PROVE  ListInv'
  BY <1>1 DEF cfVars, ListInv, Once
<1>2. CASE UNCHANGED <<cbVars, cfVars>>
  BY <1>1, <1>2 DEF cbVars, coreVars
<1>3. CASE CbStep /\ UNCHANGED cfVars
  <2>1. core_at' = "forward" => core_at = "forward"
    <3>1. CASE UNCHANGED core_at
      BY <3>1
    <3>2. ASSUME \/ BusStep \/ CorePop \/ CoreWoken
                 \/ \E c \in RxSenders : RxSend(c) \/ RxSent(c) \/ RxRefused(c)
                 \/ \E c \in TxSenders : \/ \E p \in Pbufs : TxSend(c, p)
                                         \/ TxSent(c) \/ TxRefused(c)
          PROVE  UNCHANGED core_at
      BY <3>2 DEF BusStep, CorePop, CoreWoken, coreVars,
         RxSend, RxSent, RxRefused, TxSend, TxSent, TxRefused
    <3>3. ASSUME \/ CorePopped \/ CoreHandleRx \/ CoreHandleTx \/ CoreWake
                 \/ CoreTransfer \/ CoreHandleNull \/ CoreScheduled
          PROVE  core_at' # "forward"
      BY <3>3 DEF CorePopped, CoreHandleRx, CoreHandleTx, CoreWake, CoreTransfer,
         CoreHandleNull, CoreScheduled, Handle
    <3> QED  BY <1>3, <3>1, <3>2, <3>3 DEF CbStep
  <2> QED  BY <1>1, <1>3, <2>1
<1>4. CASE CoreHandleIoctl
  BY <1>4 DEF CoreHandleIoctl, Handle, ListInv, Once
<1>5. CASE Forwarded
  BY <1>5, MsgConfirmAssumption DEF Forwarded, ListInv, Once
<1>6. ASSUME NEW id \in Ids, Forward(id)
      PROVE  ListInv'
  <2>1. rw_msg_rx_head' \in Seq(Ids) /\ rw_msg_rx_head' # <<>>
    BY <1>6 DEF Forward, ListInv
  <2>2. /\ app_sema < MaxSema
        /\ UNCHANGED <<rw_msg_tx_head, app_sema, node, reqid, signalled, req_at,
                       recv_at, rx_msg, tx_msg>>
    BY <1>6 DEF Forward
  <2> QED  BY <2>1, <2>2 DEF ListInv, Once
<1> QED  BY <1>2, <1>3, <1>4, <1>5, <1>6, ReqListTypes, RecvListTypes DEF CfNext

-----------------------------------------------------------------------------
(* How many requests are about *)

Ioctls == {m \in BusMessages : m.type = "ioctl"}

\* Requests the bus has refused, of which the requester does not know yet.
Refused == {c \in Callers : Lost(c, Ioctls)}

\* What the MAC has not answered.
Unanswered == {p \in Ids \X (1 .. MaxPending) : p[2] <= mac[p[1]]}

\* Room lets in no more requests than MaxPending; those the bus has refused
\* are not among them.
AskedInv ==
  /\ mac \in [Ids -> 0 .. MaxPending]
  /\ IsFiniteSet(Unanswered)
  /\ OnTheWay(Ioctls) + Handled(Ioctls) + Cardinality(Unanswered)
       <= MaxPending + Cardinality(Refused)

LEMMA IoctlKind ==
  /\ NullMessage \notin Ioctls
  /\ \A m \in BusMessages : m.type # "ioctl" => m \notin Ioctls
  /\ \A id \in Ids : [type |-> "ioctl", arg |-> id] \in Ioctls
BY DEF Ioctls, NullMessage, BusMessages

LEMMA RefusedFinite == IsFiniteSet(Refused) /\ Cardinality(Refused) \in Nat
<1>1. Refused = Callers \cap Refused
  BY DEF Refused
<1> QED  BY <1>1, SendersFinite

LEMMA RefusedFiniteNext == IsFiniteSet(Refused') /\ Cardinality(Refused') \in Nat
<1>1. Refused' = Callers \cap Refused'
  BY DEF Refused
<1> QED  BY <1>1, SendersFinite

\* What Room says.
LEMMA RoomCounts ==
  ASSUME BusTypes, IsFiniteSet(Unanswered), Room
  PROVE  OnTheWay(Ioctls) + Handled(Ioctls) + Cardinality(Unanswered)
           < MaxPending + Cardinality(Refused)
<1> DEFINE asks(m) == m.type = "ioctl"
<1>1. /\ \A c \in Callers : bus_msg[c] \in Ioctls <=> asks(bus_msg[c])
      /\ msg \in Ioctls <=> asks(msg)
      /\ \A i \in DOMAIN io_queue : io_queue[i] \in Ioctls <=> asks(io_queue[i])
  BY DEF BusTypes, Ioctls
<1>2. {c \in Callers : /\ asks(bus_msg[c])
                       /\ \/ bus_call[c] = "push"
                          \/ c = core_thread /\ bus_call[c] = "popped"}
        = {c \in Callers : Sends(c, Ioctls)}
  BY <1>1 DEF Sends
<1>3. {i \in DOMAIN io_queue : asks(io_queue[i])} = Places(io_queue, Ioctls)
  BY <1>1 DEF Places
<1>4. Underway(asks) = Cardinality({c \in Callers : Sends(c, Ioctls)})
                         + Cardinality(Places(io_queue, Ioctls)) + Handled(Ioctls)
  BY <1>1, <1>2, <1>3 DEF Underway, Handled, One
<1>5. Underway(asks) + Cardinality(Unanswered) < MaxPending
  BY DEF Room, Unanswered
<1> HIDE DEF asks
<1>6. OnTheWay(Ioctls) = Cardinality({c \in Callers : Sends(c, Ioctls)})
                           + Cardinality(Places(io_queue, Ioctls)) + Cardinality(Refused)
  BY DEF OnTheWay, Refused
<1>7. /\ Cardinality({c \in Callers : Sends(c, Ioctls)}) \in Nat
      /\ Cardinality(Places(io_queue, Ioctls)) \in Nat
      /\ Handled(Ioctls) \in Nat /\ Cardinality(Unanswered) \in Nat
      /\ Cardinality(Refused) \in Nat /\ MaxPending \in Nat
  BY CountsAreNumbers, RefusedFinite, FS_CardinalityType, MsgConfirmAssumption
<1> QED  BY <1>4, <1>5, <1>6, <1>7

\* Who has been refused is a requester that has not looked yet.
LEMMA RefusedIdle ==
  ASSUME BusInv, NEW c \in Refused
  PROVE  /\ c \in Requesters /\ c # core_thread
         /\ bus_call[c] = "idle" /\ bus_ret[c] = "error" /\ bus_msg[c].type = "ioctl"
<1>1. /\ c \in Callers /\ bus_ret[c] = "error"
      /\ bus_msg[c] \in Ioctls /\ bus_msg[c].type = "ioctl"
  BY DEF Refused, Lost, Ioctls
<1>2. c # core_thread
  BY <1>1, IoctlKind DEF BusInv, CoreAt
<1>3. CallerAt(c) /\ Busy(c)
  BY <1>1, <1>2 DEF BusInv, Busy
<1> QED  BY <1>1, <1>2, <1>3 DEF CallerAt, Pushes, Callers

\* Nobody but the requester itself takes its result up.
LEMMA RefusedStay ==
  ASSUME BusInv,
         \/ CbStep
         \/ \E r \in Requesters : ReqSent(r) \/ \E id \in Ids : ReqSend(r, id) \/ ReqSendOnly(r, id)
  PROVE  Refused \subseteq Refused'
<1> SUFFICES ASSUME NEW d \in Refused
             PROVE  bus_ret'[d] = "error" /\ bus_msg'[d] = bus_msg[d]
  BY DEF Refused, Lost
<1>1. /\ d \in Requesters /\ d # core_thread /\ d \notin RxSenders \cup TxSenders
      /\ bus_call[d] = "idle" /\ bus_ret[d] = "error" /\ bus_msg[d].type = "ioctl"
      /\ d \in Callers
  BY RefusedIdle, CoreBusAssumption DEF Callers
<1>2. CASE UNCHANGED busVars
  BY <1>1, <1>2 DEF busVars
<1>3. ASSUME NEW c \in Callers, NEW m, Push(c, m)
      PROVE  bus_ret'[d] = "error" /\ bus_msg'[d] = bus_msg[d]
  <2>1. c # d
    BY <1>1, <1>3 DEF Push
  <2>2. /\ \E l \in BusMessages : bus_msg' = [bus_msg EXCEPT ![c] = l]
        /\ bus_ret' = [bus_ret EXCEPT ![c] = "none"]
    BY <1>3 DEF Push, Bus!FifoCallPush
  <2> QED  BY <1>1, <2>1, <2>2 DEF BusInv, BusTypes
<1>4. ASSUME NEW c \in Callers, NEW r, Result(c, r), c # d
      PROVE  bus_ret'[d] = "error" /\ bus_msg'[d] = bus_msg[d]
  BY <1>1, <1>4 DEF Result
<1>5. ASSUME NEW c \in Callers, \/ Bus!FifoEnqueue(c) \/ Bus!FifoDequeue(c)
                                \/ Bus!FifoReturn(c) \/ Bus!FifoFail(c)
      PROVE  bus_ret'[d] = "error" /\ bus_msg'[d] = bus_msg[d]
  <2>1. c # d
    BY <1>1, <1>5 DEF Bus!FifoEnqueue, Bus!FifoDequeue, Bus!FifoReturn, Bus!FifoFail,
       Bus!MayGiveUp, Bus!Pending
  <2>2. /\ \/ UNCHANGED bus_ret \/ \E o : bus_ret' = [bus_ret EXCEPT ![c] = o]
        /\ \/ UNCHANGED bus_msg \/ \E l : bus_msg' = [bus_msg EXCEPT ![c] = l]
    BY <1>5 DEF Bus!FifoEnqueue, Bus!FifoDequeue, Bus!FifoReturn, Bus!FifoFail
  <2> QED  BY <1>1, <2>1, <2>2 DEF BusInv, BusTypes
<1>6. core_thread \in Callers
  BY DEF Callers
<1>7. CASE CbStep
  <2>1. CASE BusStep
    BY <1>5, <2>1 DEF BusStep
  <2>2. ASSUME NEW c \in RxSenders, RxSend(c) \/ RxSent(c) \/ RxRefused(c)
        PROVE  bus_ret'[d] = "error" /\ bus_msg'[d] = bus_msg[d]
    BY <1>1, <1>3, <1>4, <2>2 DEF RxSend, RxSent, RxRefused, Callers
  <2>3. ASSUME NEW c \in TxSenders, (\E p \in Pbufs : TxSend(c, p)) \/ TxSent(c) \/ TxRefused(c)
        PROVE  bus_ret'[d] = "error" /\ bus_msg'[d] = bus_msg[d]
    BY <1>1, <1>3, <1>4, <2>3 DEF TxSend, TxSent, TxRefused, Callers
  <2>4. CASE CorePop
    BY <1>1, <2>4 DEF CorePop, Bus!FifoCallPop
  <2>5. CASE CorePopped
    BY <1>1, <2>5 DEF CorePopped
  <2>6. CASE CoreWake
    BY <1>2, <1>3, <1>6, <2>6 DEF CoreWake
  <2>7. CASE CoreWoken
    BY <1>1, <1>4, <1>5, <1>6, <2>7 DEF CoreWoken
  <2>8. CASE CoreHandleRx \/ CoreHandleTx \/ CoreTransfer \/ CoreHandleNull \/ CoreScheduled
    BY <1>2, <2>8 DEF CoreHandleRx, CoreHandleTx, CoreTransfer, CoreHandleNull, CoreScheduled
  <2> QED  BY <1>7, <2>1, <2>2, <2>3, <2>4, <2>5, <2>6, <2>7, <2>8 DEF CbStep
<1>8. ASSUME NEW r \in Requesters, ReqSent(r)
      PROVE  bus_ret'[d] = "error" /\ bus_msg'[d] = bus_msg[d]
  <2>1. Result(r, "ok") /\ r # d
    BY <1>1, <1>8 DEF ReqSent, Result
  <2> QED  BY <1>4, <2>1 DEF Callers
<1>9. ASSUME NEW r \in Requesters, NEW id \in Ids, ReqSend(r, id) \/ ReqSendOnly(r, id)
      PROVE  bus_ret'[d] = "error" /\ bus_msg'[d] = bus_msg[d]
  BY <1>3, <1>9 DEF ReqSend, ReqSendOnly, Callers
<1> QED  BY <1>7, <1>8, <1>9

LEMMA AskedInit ==
  ASSUME CbInit, CfInit
  PROVE  AskedInv
<1>1. mac \in [Ids -> 0 .. MaxPending] /\ Unanswered = {}
  BY MsgConfirmAssumption DEF CfInit, Unanswered
<1>2. /\ {c \in Callers : Sends(c, Ioctls)} = {} /\ {c \in Callers : Lost(c, Ioctls)} = {}
      /\ Places(io_queue, Ioctls) = {} /\ Refused = {}
  BY DEF CbInit, Bus!FifoInit, Sends, Lost, Places, Refused
<1>3. Handled(Ioctls) = 0
  BY DEF CbInit, Handled, One
<1> QED  BY <1>1, <1>2, <1>3, FS_EmptySet, MsgConfirmAssumption DEF AskedInv, OnTheWay

\* No request more than before.
LEMMA AskedStays ==
  ASSUME AskedInv, BusInv, BusInv', UNCHANGED mac, Refused \subseteq Refused',
         OnTheWay(Ioctls)' + Handled(Ioctls)' = OnTheWay(Ioctls) + Handled(Ioctls)
  PROVE  AskedInv'
<1>1. Unanswered' = Unanswered
  BY DEF Unanswered
<1>2. /\ IsFiniteSet(Refused') /\ Cardinality(Refused') \in Nat /\ Cardinality(Refused) \in Nat
      /\ Cardinality(Refused) <= Cardinality(Refused')
  BY RefusedFinite, RefusedFiniteNext, FS_Subset
<1>3. /\ OnTheWay(Ioctls) \in Nat /\ Handled(Ioctls) \in Nat
      /\ OnTheWay(Ioctls)' \in Nat /\ Handled(Ioctls)' \in Nat
  BY NumbersNow, NumbersNext DEF BusInv, Numbers
<1>4. Cardinality(Unanswered) \in Nat /\ MaxPending \in Nat
  BY FS_CardinalityType, MsgConfirmAssumption DEF AskedInv
<1> QED  BY <1>1, <1>2, <1>3, <1>4 DEF AskedInv

\* Frames and packets are no requests.
LEMMA OthersAskNothing ==
  ASSUME BusInv, NEW c \in RxSenders \cup TxSenders,
         \/ c \in RxSenders /\ (RxSend(c) \/ RxSent(c) \/ RxRefused(c))
         \/ /\ c \in TxSenders
            /\ (\E p \in Pbufs : TxSend(c, p)) \/ TxSent(c) \/ TxRefused(c)
  PROVE  BusInv' /\ OnTheWay(Ioctls)' = OnTheWay(Ioctls) /\ Handled(Ioctls)' = Handled(Ioctls)
<1>1. /\ c \in Callers \ {core_thread} /\ Pushes(c) \in {"rx", "tx"}
      /\ UNCHANGED coreVars
  <2>1. c \in Callers \ {core_thread} /\ Pushes(c) \in {"rx", "tx"}
    BY CoreBusAssumption DEF Callers, Pushes
  <2>2. UNCHANGED coreVars
    BY DEF RxSend, RxSent, RxRefused, TxSend, TxSent, TxRefused
  <2> QED  BY <2>1, <2>2
<1>2. /\ OnTheWay(Ioctls) \in Nat
      /\ BusInv' => OnTheWay(Ioctls)' \in Nat
  BY NumbersNow, NumbersNext DEF BusInv, Numbers
<1>3. ASSUME NEW m \in BusMessages, Push(c, m), m.type = Pushes(c)
      PROVE  BusInv' /\ OnTheWay(Ioctls)' = OnTheWay(Ioctls) /\ Handled(Ioctls)' = Handled(Ioctls)
  <2>1. One(m \in Ioctls) = 0
    BY <1>1, <1>3, IoctlKind DEF One
  <2>2. /\ BusInv'
        /\ OnTheWay(Ioctls)' = OnTheWay(Ioctls) + One(m \in Ioctls)
        /\ Handled(Ioctls)' = Handled(Ioctls)
    BY <1>1, <1>3, PushCounts
  <2> QED  BY <1>2, <2>1, <2>2
<1>4. ASSUME NEW r \in {"ok", "error"}, Result(c, r)
      PROVE  BusInv' /\ OnTheWay(Ioctls)' = OnTheWay(Ioctls) /\ Handled(Ioctls)' = Handled(Ioctls)
  <2>1. /\ BusInv'
        /\ bus_msg[c].type = Pushes(c)
        /\ OnTheWay(Ioctls) = OnTheWay(Ioctls)' + One(r = "error" /\ bus_msg[c] \in Ioctls)
        /\ Handled(Ioctls)' = Handled(Ioctls)
    BY <1>1, <1>4, ResultCounts, IoctlKind
  <2>2. bus_msg[c] \in BusMessages
    BY <1>1 DEF BusInv, BusTypes
  <2>3. One(r = "error" /\ bus_msg[c] \in Ioctls) = 0
    BY <1>1, <2>1, <2>2, IoctlKind DEF One
  <2> QED  BY <1>2, <2>1, <2>3
<1>5. CASE c \in RxSenders /\ RxSend(c)
  <2> DEFINE m == [type |-> "rx", arg |-> None]
  <2>1. m \in BusMessages /\ Push(c, m) /\ m.type = Pushes(c)
    BY <1>5 DEF RxSend, BusMessages, Pushes
  <2> HIDE DEF m
  <2> QED  BY <1>3, <2>1
<1>6. ASSUME c \in TxSenders, NEW p \in Pbufs, TxSend(c, p)
      PROVE  BusInv' /\ OnTheWay(Ioctls)' = OnTheWay(Ioctls) /\ Handled(Ioctls)' = Handled(Ioctls)
  <2> DEFINE m == [type |-> "tx", arg |-> p]
  <2>1. m \in BusMessages /\ Push(c, m) /\ m.type = Pushes(c)
    BY <1>6, CoreBusAssumption DEF TxSend, BusMessages, Pushes
  <2> HIDE DEF m
  <2> QED  BY <1>3, <2>1
<1>7. CASE RxSent(c) \/ RxRefused(c) \/ TxSent(c) \/ TxRefused(c)
  BY <1>4, <1>7 DEF RxSent, RxRefused, TxSent, TxRefused
<1> QED  BY <1>5, <1>6, <1>7

\* Room lets one more in.
LEMMA ReqSendAsks ==
  ASSUME AskedInv, BusInv, NEW r \in Requesters, NEW id \in Ids, Room, UNCHANGED <<mac, coreVars>>,
         Push(r, [type |-> "ioctl", arg |-> id]), Refused \subseteq Refused'
  PROVE  AskedInv'
<1> DEFINE m == [type |-> "ioctl", arg |-> id]
<1>1. r \in Callers \ {core_thread} /\ m.type = Pushes(r) /\ m \in Ioctls
  BY CoreBusAssumption, IoctlKind DEF Callers, Pushes
<1>2. /\ BusInv'
      /\ OnTheWay(Ioctls)' = OnTheWay(Ioctls) + One(m \in Ioctls)
      /\ Handled(Ioctls)' = Handled(Ioctls)
  BY <1>1, PushCounts
<1>3. One(m \in Ioctls) = 1
  BY <1>1 DEF One
<1>4. Unanswered' = Unanswered
  BY DEF Unanswered
<1>5. OnTheWay(Ioctls) + Handled(Ioctls) + Cardinality(Unanswered)
        < MaxPending + Cardinality(Refused)
  BY RoomCounts DEF BusInv, AskedInv
<1>6. /\ Cardinality(Refused') \in Nat /\ Cardinality(Refused) \in Nat
      /\ Cardinality(Refused) <= Cardinality(Refused')
  BY RefusedFinite, RefusedFiniteNext, FS_Subset
<1>7. /\ OnTheWay(Ioctls) \in Nat /\ Handled(Ioctls) \in Nat
      /\ Cardinality(Unanswered) \in Nat /\ MaxPending \in Nat
  BY NumbersNow, FS_CardinalityType, MsgConfirmAssumption DEF BusInv, Numbers, AskedInv
<1> QED  BY <1>2, <1>3, <1>4, <1>5, <1>6, <1>7 DEF AskedInv

\* A request that has been refused is gone, and its requester knows it.
LEMMA ReqResultAsks ==
  ASSUME AskedInv, BusInv, NEW r \in Requesters, NEW o \in {"ok", "error"},
         UNCHANGED <<mac, coreVars>>, Result(r, o), o = "ok" => Refused \subseteq Refused'
  PROVE  AskedInv'
<1>1. r \in Callers \ {core_thread} /\ Pushes(r) = "ioctl"
  BY CoreBusAssumption DEF Callers, Pushes
<1>2. /\ BusInv' /\ bus_msg[r].type = "ioctl"
      /\ OnTheWay(Ioctls) = OnTheWay(Ioctls)' + One(o = "error" /\ bus_msg[r] \in Ioctls)
      /\ Handled(Ioctls)' = Handled(Ioctls)
  BY <1>1, ResultCounts, IoctlKind
<1>3. bus_msg[r] \in Ioctls
  BY <1>1, <1>2 DEF BusInv, BusTypes, Ioctls
<1>4. /\ OnTheWay(Ioctls) \in Nat /\ OnTheWay(Ioctls)' \in Nat /\ Handled(Ioctls) \in Nat
  BY <1>2, NumbersNow, NumbersNext DEF BusInv, Numbers
<1>5. CASE o = "ok"
  <2>1. One(o = "error" /\ bus_msg[r] \in Ioctls) = 0
    BY <1>5 DEF One
  <2> QED  BY <1>2, <1>4, <1>5, <2>1, AskedStays
<1>6. CASE o = "error"
  <2>1. One(o = "error" /\ bus_msg[r] \in Ioctls) = 1
    BY <1>3, <1>6 DEF One
  <2>2. /\ bus_ret[r] = "error"
        /\ bus_ret' = [bus_ret EXCEPT ![r] = "none"]
        /\ bus_msg' = [bus_msg EXCEPT ![r] = NullMessage]
    BY <1>6 DEF Result
  <2>3. r \in Refused /\ Refused' = Refused \ {r}
    BY <1>1, <1>3, <2>2 DEF Refused, Lost, BusInv, BusTypes
  <2>4. Cardinality(Refused') = Cardinality(Refused) - 1 /\ Cardinality(Refused) \in Nat
    BY <2>3, RefusedFinite, FS_RemoveElement
  <2>5. Unanswered' = Unanswered
    BY DEF Unanswered
  <2>6. Cardinality(Unanswered) \in Nat /\ MaxPending \in Nat
    BY FS_CardinalityType, MsgConfirmAssumption DEF AskedInv
  <2> QED  BY <1>2, <1>4, <2>1, <2>4, <2>5, <2>6 DEF AskedInv
<1> QED  BY <1>5, <1>6

\* All that is asked with one id is unanswered.
LEMMA MacIsCounted ==
  ASSUME AskedInv, NEW id \in Ids
  PROVE  mac[id] <= Cardinality(Unanswered)
<1> DEFINE f == [k \in 1 .. mac[id] |-> <<id, k>>]
           T == {<<id, k>> : k \in 1 .. mac[id]}
<1>1. mac[id] \in 0 .. MaxPending /\ MaxPending \in Nat
  BY MsgConfirmAssumption DEF AskedInv
<1>2. f \in Bijection(1 .. mac[id], T)
  <2>1. f \in [1 .. mac[id] -> T]
    OBVIOUS
  <2>2. \A j, k \in 1 .. mac[id] : f[j] = f[k] => j = k
    OBVIOUS
  <2>3. \A t \in T : \E k \in 1 .. mac[id] : f[k] = t
    OBVIOUS
  <2> HIDE DEF f, T
  <2> QED  BY <2>1, <2>2, <2>3 DEF Bijection, Injection, Surjection, IsInjective
<1>3. T \subseteq Unanswered
  BY <1>1 DEF Unanswered
<1> HIDE DEF f, T
<1>4. ExistsBijection(1 .. mac[id], T)
  BY <1>2 DEF ExistsBijection
<1>5. IsFiniteSet(1 .. mac[id]) /\ Cardinality(1 .. mac[id]) = mac[id]
  <2>1. \A k \in Nat : IsFiniteSet(1 .. k) /\ Cardinality(1 .. k) = k
    BY FS_Interval
  <2>2. mac[id] \in Nat
    BY <1>1
  <2> QED  BY <2>1, <2>2
<1>6. Cardinality(T) = mac[id]
  BY <1>4, <1>5, FS_Bijection
<1> QED  BY <1>3, <1>6, FS_Subset DEF AskedInv

\* The MAC takes a request over.
LEMMA IoctlAsks ==
  ASSUME AskedInv, BusInv, CoreHandleIoctl
  PROVE  AskedInv'
<1> DEFINE id == msg.arg
<1>1. /\ core_at = "handle" /\ core_at' = "schedule" /\ msg.type = "ioctl"
      /\ UNCHANGED <<busVars, msg>>
      /\ mac' = [mac EXCEPT ![id] = @ + 1]
  BY DEF CoreHandleIoctl, Handle
<1>2. msg \in Ioctls /\ id \in Ids
  BY <1>1 DEF BusInv, BusTypes, Ioctls, BusMessages
<1>3. One(msg \in Ioctls) = 1
  BY <1>2 DEF One
<1>4. /\ OnTheWay(Ioctls)' = OnTheWay(Ioctls)
      /\ Handled(Ioctls) = 1 /\ Handled(Ioctls)' = 0
  BY <1>1, <1>3, HandledCounts
<1>5. Refused' = Refused
  BY <1>1 DEF Refused, Lost, busVars
<1>6. /\ OnTheWay(Ioctls) \in Nat /\ Cardinality(Refused) \in Nat /\ MaxPending \in Nat
      /\ OnTheWay(Ioctls) >= Cardinality(Refused)
  <2>1. /\ Cardinality({c \in Callers : Sends(c, Ioctls)}) \in Nat
        /\ Cardinality(Places(io_queue, Ioctls)) \in Nat
        /\ Cardinality(Refused) \in Nat /\ OnTheWay(Ioctls) \in Nat
    BY CountsAreNumbers, RefusedFinite DEF BusInv
  <2>2. OnTheWay(Ioctls) = Cardinality({c \in Callers : Sends(c, Ioctls)})
                             + Cardinality(Places(io_queue, Ioctls)) + Cardinality(Refused)
    BY DEF OnTheWay, Refused
  <2> QED  BY <2>1, <2>2, MsgConfirmAssumption
<1>7. Cardinality(Unanswered) \in Nat /\ Cardinality(Unanswered) < MaxPending
  BY <1>4, <1>6, FS_CardinalityType DEF AskedInv
<1> HIDE DEF id
<1>8. mac[id] \in 0 .. MaxPending - 1
  BY <1>2, <1>6, <1>7, MacIsCounted DEF AskedInv
<1>9. mac' \in [Ids -> 0 .. MaxPending] /\ \A i \in Ids \ {id} : mac'[i] = mac[i]
  BY <1>1, <1>2, <1>6, <1>8 DEF AskedInv
<1>10. mac'[id] = mac[id] + 1
  BY <1>1, <1>2 DEF AskedInv
<1>11. /\ Unanswered' = Unanswered \cup {<<id, mac[id] + 1>>}
       /\ <<id, mac[id] + 1>> \notin Unanswered
  <2>1. \A k \in 1 .. MaxPending : k <= mac[id] + 1 <=> k <= mac[id] \/ k = mac[id] + 1
    BY <1>8
  <2>2. mac[id] + 1 \in 1 .. MaxPending /\ ~(mac[id] + 1 <= mac[id])
    BY <1>6, <1>8
  <2> QED  BY <1>2, <1>9, <1>10, <2>1, <2>2 DEF Unanswered
<1>12. IsFiniteSet(Unanswered') /\ Cardinality(Unanswered') = Cardinality(Unanswered) + 1
  BY <1>11, FS_AddElement DEF AskedInv
<1> QED  BY <1>4, <1>5, <1>6, <1>7, <1>9, <1>12 DEF AskedInv

\* It answers one.
LEMMA ForwardAsks ==
  ASSUME AskedInv, BusInv, NEW id \in Ids, Forward(id)
  PROVE  AskedInv'
<1>1. mac[id] > 0 /\ mac' = [mac EXCEPT ![id] = @ - 1] /\ UNCHANGED busVars
  BY DEF Forward
<1>2. OnTheWay(Ioctls)' = OnTheWay(Ioctls) /\ Handled(Ioctls)' = Handled(Ioctls)
  BY CoreOtherCounts, IoctlKind DEF SameCounts
<1>3. mac' \in [Ids -> 0 .. MaxPending] /\ \A i \in Ids : mac'[i] <= mac[i]
  BY <1>1, MsgConfirmAssumption DEF AskedInv
<1>4. Unanswered' \subseteq Unanswered
  BY <1>3, MsgConfirmAssumption DEF AskedInv, Unanswered
<1>5. /\ IsFiniteSet(Unanswered')
      /\ Cardinality(Unanswered') \in Nat /\ Cardinality(Unanswered) \in Nat
      /\ Cardinality(Unanswered') <= Cardinality(Unanswered)
  BY <1>4, FS_Subset, FS_CardinalityType DEF AskedInv
<1>6. Refused' = Refused
  BY <1>1 DEF Refused, Lost, busVars
<1>7. /\ OnTheWay(Ioctls) \in Nat /\ Handled(Ioctls) \in Nat /\ Cardinality(Refused) \in Nat
      /\ MaxPending \in Nat
  BY NumbersNow, RefusedFinite, MsgConfirmAssumption DEF BusInv, Numbers
<1> QED  BY <1>2, <1>3, <1>5, <1>6, <1>7 DEF AskedInv

LEMMA AskedNext ==
  ASSUME AskedInv, CountInv, CountInv', [CfNext]_<<cbVars, cfVars>>
  PROVE  AskedInv'
<1> USE DEF CountInv
<1>1. ASSUME UNCHANGED <<cbVars, mac>>
      PROVE  AskedInv'
  <2>1. Refused \subseteq Refused'
    BY <1>1 DEF Refused, Lost, cbVars, busVars
  <2>2. OnTheWay(Ioctls)' = OnTheWay(Ioctls) /\ Handled(Ioctls)' = Handled(Ioctls)
    BY <1>1 DEF cbVars, busVars, coreVars, OnTheWay, Sends, Lost, Places, Handled, One
  <2> QED  BY <1>1, <2>1, <2>2, AskedStays
<1>2. CASE CbStep /\ UNCHANGED cfVars
  <2>1. UNCHANGED mac /\ Refused \subseteq Refused'
    BY <1>2, RefusedStay DEF cfVars
  <2>2. ASSUME SameCounts
        PROVE  AskedInv'
    BY <2>1, <2>2, AskedStays, IoctlKind DEF SameCounts
  <2>3. CASE BusStep \/ CorePop \/ CoreHandleTx \/ CoreScheduled \/ CoreWake \/ CoreWoken
    BY <2>2, <2>3, BusStepCounts, CorePopCounts, CoreOtherCounts, CoreWakeCounts, CoreWokenCounts
  <2>4. CASE CorePopped
    BY <2>1, <2>4, CorePoppedCounts, AskedStays, IoctlKind
  <2>5. ASSUME NEW c \in RxSenders, RxSend(c) \/ RxSent(c) \/ RxRefused(c)
        PROVE  AskedInv'
    BY <2>1, <2>5, OthersAskNothing, AskedStays
  <2>6. ASSUME NEW c \in TxSenders, (\E p \in Pbufs : TxSend(c, p)) \/ TxSent(c) \/ TxRefused(c)
        PROVE  AskedInv'
    BY <2>1, <2>6, OthersAskNothing, AskedStays
  <2>7. CASE CoreHandleRx \/ CoreTransfer \/ CoreHandleNull
    <3>1. /\ UNCHANGED <<busVars, msg>> /\ core_at' = "schedule" /\ msg.type # "ioctl"
          /\ \/ core_at = "handle"
             \/ /\ core_at = "transfer" /\ bus_ret[core_thread] = "none"
                /\ bus_call[core_thread] = "idle"
      BY <2>7 DEF CoreHandleRx, CoreTransfer, CoreHandleNull, Handle, BusInv, CoreAt
    <3>2. One(msg \in Ioctls) = 0
      BY <3>1 DEF One, Ioctls
    <3>3. /\ OnTheWay(Ioctls)' = OnTheWay(Ioctls)
          /\ Handled(Ioctls) = 0 /\ Handled(Ioctls)' = 0
      BY <3>1, <3>2, HandledCounts
    <3> QED  BY <2>1, <3>3, AskedStays
  <2> QED  BY <1>2, <2>3, <2>4, <2>5, <2>6, <2>7 DEF CbStep
<1>3. ASSUME NEW r \in Requesters,
             \/ \E id \in Ids : ReqSend(r, id) \/ ReqSendOnly(r, id)
             \/ ReqSent(r) \/ ReqRefused(r)
      PROVE  AskedInv'
  <2>1. ASSUME NEW id \in Ids, ReqSend(r, id) \/ ReqSendOnly(r, id)
        PROVE  AskedInv'
    <3>1. /\ Room /\ UNCHANGED <<mac, coreVars>>
          /\ Push(r, [type |-> "ioctl", arg |-> id])
      BY <2>1 DEF ReqSend, ReqSendOnly
    <3>2. Refused \subseteq Refused'
      BY <2>1, RefusedStay
    <3> QED  BY <3>1, <3>2, ReqSendAsks
  <2>2. CASE ReqSent(r)
    BY <2>2, RefusedStay, ReqResultAsks DEF ReqSent
  <2>3. CASE ReqRefused(r)
    <3>1. Result(r, "error") /\ UNCHANGED <<mac, coreVars>>
      BY <2>3 DEF ReqRefused
    <3> QED  BY <3>1, ReqResultAsks
  <2> QED  BY <1>3, <2>1, <2>2, <2>3
<1>4. ASSUME NEW r \in Requesters, ReqGet(r) \/ ReqTimeout(r) \/ ReqExtract(r) \/ ReqReturn(r)
      PROVE  AskedInv'
  BY <1>1, <1>4 DEF ReqGet, ReqTimeout, ReqExtract, ReqReturn
<1>5. CASE Forwarded
  <2>1. UNCHANGED <<mac, busVars>> /\ SameCounts
    BY <1>5, CoreOtherCounts DEF Forwarded
  <2>2. Refused \subseteq Refused'
    BY <2>1 DEF Refused, Lost, busVars
  <2> QED  BY <2>1, <2>2, AskedStays, IoctlKind DEF SameCounts
<1>6. CASE RecvStep
  BY <1>1, <1>6 DEF RecvStep, RecvWake, RecvPop, RecvPopped, RecvPick,
     RecvMatch, RecvNext, RecvHandle, RecvExtract, RecvSet, Recv
<1>7. CASE UNCHANGED <<cbVars, cfVars>>
  BY <1>1, <1>7 DEF cfVars
<1> QED  BY <1>2, <1>3, <1>4, <1>5, <1>6, <1>7, IoctlAsks, ForwardAsks DEF CfNext

TypeInv == CountInv /\ LimitInv /\ ListInv /\ AskedInv

LEMMA TypeInit ==
  ASSUME CfInitAll
  PROVE  TypeInv
<1>1. LimitInv
  BY DEF CfInitAll, CbInit, LimitInv
<1>2. ListInv
  BY MsgConfirmAssumption DEF CfInitAll, CbInit, CfInit, ListInv, Once
<1> QED  BY <1>1, <1>2, CountInit, AskedInit DEF CfInitAll, TypeInv

LEMMA TypeInvImplies ==
  ASSUME TypeInv
  PROVE  BusTypeOK
<1>1. rx_refused <= bmsg_rx_count /\ rx_refused \in 0 .. 2 /\ bmsg_rx_count \in 0 .. 2
  <2>1. OnTheWay(Frames) \in Nat /\ Handled(Frames) \in Nat
    BY NumbersNow DEF TypeInv, CountInv, BusInv, Numbers
  <2>2. /\ bmsg_rx_count \in Nat /\ rx_refused \in Nat /\ bmsg_rx_count <= 2
        /\ bmsg_rx_count = OnTheWay(Frames) + Handled(Frames) + rx_refused
    BY DEF TypeInv, CountInv, LimitInv
  <2>3. \A a, b, c, d \in Nat : a <= 2 /\ a = b + c + d =>
          d <= a /\ d \in 0 .. 2 /\ a \in 0 .. 2
    OBVIOUS
  <2> QED  BY <2>1, <2>2, <2>3
<1>2. CbTypeOK
  BY <1>1 DEF TypeInv, CountInv, BusInv, BusTypes, LimitInv, CbTypeOK
<1>3. CfTypeOK
  BY DEF TypeInv, ListInv, AskedInv, CfTypeOK
<1> QED  BY <1>2, <1>3 DEF BusTypeOK

\* Whatever the bus refuses and whoever times out, every variable of the bus,
\* of core_thread, of rw_msg_send and of rwnx_recv_msg has its type;
\* bmsg_rx_count never exceeds two, a packet is held at most twice and never
\* freed below zero, and what Room and MaxSema bound is bounded.
THEOREM BusIsTyped == CfSpec => []BusTypeOK
<1>1. CfInitAll => TypeInv
  BY TypeInit
<1>2. TypeInv /\ [CfNext]_<<cbVars, cfVars>> => TypeInv'
  BY CountNext, LimitNext, ListNext, AskedNext DEF TypeInv
<1>3. TypeInv => BusTypeOK
  BY TypeInvImplies
<1> QED  BY <1>1, <1>2, <1>3, PTL DEF CfSpec

=============================================================================
