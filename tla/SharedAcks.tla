----------------------------- MODULE SharedAcks -----------------------------
(***************************************************************************)
(* The two packet windows of one direction of a Falcon connection, request *)
(* and data, and the ACK information they share.                           *)
(*                                                                         *)
(* Every ACK, NACK and packet carries the receiver's base PSNs of BOTH     *)
(* windows, and the transmitter throws the whole of it away when EITHER is *)
(* behind its own (HandleACK, HandlePiggybackedACK of                       *)
(* falcon_protocol_packet_reliability_manager.cc).  Meanwhile a response   *)
(* moves ONE base by one (HandleImplicitAck).  Module SlidingWindow treats *)
(* one window and takes from here that nothing is lost by this: what is    *)
(* stale for one window holds no news for the other.                       *)
(*                                                                         *)
(* Retransmission is left out: a packet reaches the receiver or not.       *)
(***************************************************************************)
EXTENDS Integers, FiniteSets

CONSTANTS
  TxSize,   \* width of the transmit bitmaps
  RxSize,   \* width of the receive bitmaps
  MaxPsn,   \* bound: packets offered to each window
  MaxNet    \* bound: ACKs and packets in flight to the transmitter

\* The parameters a connection can have.
BoundsAssumption ==
  /\ TxSize \in Nat \ {0} /\ RxSize \in Nat \ {0}
  /\ MaxPsn \in Nat /\ MaxNet \in Nat

VARIABLES
  txBase, txNext, txAcked, \* transmit windows
  rxBase, rxAck,           \* receive windows
  answered,                \* responses the transmitter's host has accepted
  net                      \* what is on its way to the transmitter

vars == <<txBase, txNext, txAcked, rxBase, rxAck, answered, net>>

Windows == {"request", "data"}
Psns == 0..(MaxPsn - 1)

AckPacket == [type |-> "ack", base |-> rxBase, acked |-> rxAck]
Response(w, p) == [type |-> "resp", window |-> w, psn |-> p, base |-> rxBase]
OtherPacket == [type |-> "other", base |-> rxBase]

Transfers(out) == {n \in SUBSET (net \cup out) : Cardinality(n) <= MaxNet}

Init ==
  /\ txBase = [w \in Windows |-> 0] /\ txNext = [w \in Windows |-> 0]
  /\ txAcked = [w \in Windows |-> {}]
  /\ rxBase = [w \in Windows |-> 0] /\ rxAck = [w \in Windows |-> {}]
  /\ answered = [w \in Windows |-> {}]
  /\ net = {}

TransmitPacket(w) ==
  /\ txNext[w] < MaxPsn /\ txNext[w] < txBase[w] + TxSize
  /\ txNext' = [txNext EXCEPT ![w] = @ + 1]
  /\ UNCHANGED <<txBase, txAcked, rxBase, rxAck, answered, net>>

\* UpdateReceiveAckBitmap: packet p of window w is acknowledged, and at the
\* base the window moves to the first hole.
UpdateReceiveAckBitmap(w, p) ==
  /\ p \in rxBase[w]..(rxBase[w] + RxSize - 1)
  /\ p < txNext[w] /\ p \notin rxAck[w]
  /\ LET ack == rxAck[w] \cup {p}
     IN  \E n \in rxBase[w]..(rxBase[w] + RxSize) :
           /\ IF p = rxBase[w]
              THEN n \notin ack /\ \A k \in rxBase[w]..(n - 1) : k \in ack
              ELSE n = rxBase[w]
           /\ rxBase' = [rxBase EXCEPT ![w] = n]
           /\ rxAck' = [rxAck EXCEPT ![w] = {q \in ack : q >= n}]
  /\ UNCHANGED <<txBase, txNext, txAcked, answered, net>>

TransmitACK ==
  /\ net' \in Transfers({AckPacket, OtherPacket})
  /\ UNCHANGED <<txBase, txNext, txAcked, rxBase, rxAck, answered>>

\* The answer to packet p of window w.
TransmitResponse(w, p) ==
  /\ p < rxBase[w] \/ p \in rxAck[w]
  /\ p \notin answered[w]
  /\ net' \in Transfers({Response(w, p)})
  /\ UNCHANGED <<txBase, txNext, txAcked, rxBase, rxAck, answered>>

\* The transmitter's state of both windows while one packet is handled.
Window(base, acked) == [base |-> base, acked |-> acked]

\* The discard condition of HandleACK and HandlePiggybackedACK.
Stale(m, base) == \E w \in Windows : m.base[w] < base[w]

\* Both bases move to the packet's, unless it is stale.
HandlePiggybacked(m, s) ==
  IF Stale(m, s.base) THEN s
  ELSE Window(m.base,
              [w \in Windows |-> {p \in s.acked[w] : p >= m.base[w]}])

\* Mutant: an implicit ACK of any packet moves the base.
HandleImplicitAckAlways(w, p) ==
  IF p < txBase[w] \/ p \in txAcked[w] THEN Window(txBase, txAcked)
  ELSE Window([txBase EXCEPT ![w] = @ + 1], [txAcked EXCEPT ![w] = @ \cup {p}])

\* HandleImplicitAck: the bit is set, and a window whose base it was moves by
\* one.
HandleImplicitAck(w, p) ==
  IF p < txBase[w] \/ p \in txAcked[w] THEN Window(txBase, txAcked)
  ELSE IF p = txBase[w]
  THEN Window([txBase EXCEPT ![w] = @ + 1], txAcked)
  ELSE Window(txBase, [txAcked EXCEPT ![w] = @ \cup {p}])

\* The end of every handler.
Becomes(s) ==
  /\ txBase' = s.base /\ txAcked' = s.acked
  /\ net' \in Transfers({})
  /\ UNCHANGED <<txNext, rxBase, rxAck>>

\* HandleACK with HandleEACK, which sets the bits of both bitmaps.
HandleACK(m) ==
  /\ m.type = "ack" /\ ~Stale(m, txBase)
  /\ LET s == HandlePiggybacked(m, Window(txBase, txAcked))
     IN  Becomes([s EXCEPT !.acked =
                    [w \in Windows |-> @[w] \cup m.acked[w]]])
  /\ UNCHANGED answered

\* A response is admitted: implicit ACK first, piggybacked bases last.
HandleResponse(m) ==
  /\ m.type = "resp" /\ m.psn \notin answered[m.window]
  /\ Becomes(HandlePiggybacked(m, HandleImplicitAck(m.window, m.psn)))
  /\ answered' = [answered EXCEPT ![m.window] = @ \cup {m.psn}]

\* Any other packet, or a response the resource manager refuses.
HandlePiggybackedACK(m) ==
  /\ \/ m.type = "other"
     \/ m.type = "resp" /\ m.psn \notin answered[m.window]
  /\ Becomes(HandlePiggybacked(m, Window(txBase, txAcked)))
  /\ UNCHANGED answered

Next ==
  \/ \E w \in Windows : TransmitPacket(w)
  \/ \E w \in Windows, p \in Psns : UpdateReceiveAckBitmap(w, p)
  \/ TransmitACK
  \/ \E w \in Windows, p \in Psns : TransmitResponse(w, p)
  \/ \E m \in net : HandleACK(m)
  \/ \E m \in net : HandleResponse(m)
  \/ \E m \in net : HandlePiggybackedACK(m)

Spec == Init /\ [][Next]_vars

----------------------------------------------------------------------------
\* Discarding ACK information because it is behind in one window never
\* discards a base PSN that is ahead in the other, although each window's
\* base also moves on its own by implicit ACKs.
StaleHoldsNoNews ==
  \A m \in net : Stale(m, txBase) =>
    \A w \in Windows : m.base[w] <= txBase[w]

\* Neither window's base is ever left at an acknowledged packet, although an
\* implicit ACK steps over one packet only.
BasesUnacknowledged == \A w \in Windows : txBase[w] \notin txAcked[w]

\* One window can be looked at without the other.
SharedAcksSound == StaleHoldsNoNews /\ BasesUnacknowledged

\* Types of the windows and of what is on its way.
TypeOK ==
  /\ txBase \in [Windows -> Nat] /\ txAcked \in [Windows -> SUBSET Psns]
  /\ txNext \in [Windows -> Nat]
  /\ rxBase \in [Windows -> Nat] /\ rxAck \in [Windows -> SUBSET Psns]
  /\ \A m \in net :
       /\ m.base \in [Windows -> Nat]
       /\ m.type = "ack" => m.acked \in [Windows -> SUBSET Psns]
       /\ m.type = "resp" => m.window \in Windows /\ m.psn \in Psns

\* The transmitter is not ahead of the receiver, and what is in flight is of
\* some earlier moment: of two packets one is older in both windows.
NotAfter(a, b) == \A w \in Windows : a[w] <= b[w]

BasesFormChain ==
  /\ NotAfter(txBase, rxBase)
  /\ \A m \in net : NotAfter(m.base, rxBase)
  /\ \A m, n \in net : NotAfter(m.base, n.base) \/ NotAfter(n.base, m.base)

\* Packet p of window w is known, here or in flight, to be acknowledged out of
\* order: when that was recorded the receiver's base was below it.
KnownOutOfOrder(w, p) ==
  \/ p \in rxAck[w] \/ p \in txAcked[w]
  \/ \E m \in net : \/ m.type = "ack" /\ p \in m.acked[w]
                    \/ /\ m.type = "resp" /\ m.window = w /\ m.psn = p
                       /\ m.base[w] <= p

SomeBase(w, p) == p = rxBase[w] \/ p = txBase[w] \/ \E m \in net : m.base[w] = p

\* What is in flight or recorded was acknowledged by the receiver.
AcksTruthful ==
  \A w \in Windows, p \in Psns :
    KnownOutOfOrder(w, p) => p < rxBase[w] \/ p \in rxAck[w]

\* The base steps over what is acknowledged out of order: no base, here or in
\* flight, ever names such a packet.
NeverBoth ==
  \A w \in Windows, p \in Psns : KnownOutOfOrder(w, p) => ~SomeBase(w, p)

\* The inductive invariant.
IInv == TypeOK /\ BasesFormChain /\ AcksTruthful /\ NeverBoth /\ StaleHoldsNoNews

=============================================================================
