---------------------------- MODULE Rates_proofs ----------------------------
(***************************************************************************)
(* Proofs about what a transmitter learns from the ACKs of a connection,   *)
(* for every value of the constants: SharedAcks, the ACK information of    *)
(* its two windows, and RateUpdateEngine, the congestion window that the   *)
(* events make of it.                                                      *)
(***************************************************************************)
EXTENDS SharedAcks, RateUpdateEngine, FiniteSetTheorems, TLAPS
-----------------------------------------------------------------------------
(* SharedAcks: the bases of the two windows.                               *)

LEMMA TransfersSubset ==
  ASSUME NEW out, net' \in Transfers(out)
  PROVE  net' \subseteq net \cup out
BY DEF Transfers

LEMMA InitIInv ==
  ASSUME BoundsAssumption, Init
  PROVE  IInv
<1> USE DEF BoundsAssumption, Init
<1>1. TypeOK
  BY DEF TypeOK
<1>2. BasesFormChain /\ StaleHoldsNoNews
  BY DEF BasesFormChain, NotAfter, StaleHoldsNoNews
<1>3. \A w \in Windows, p \in Psns : ~KnownOutOfOrder(w, p)
  BY DEF KnownOutOfOrder
<1>4. AcksTruthful /\ NeverBoth
  BY <1>3 DEF AcksTruthful, NeverBoth
<1> QED
  BY <1>1, <1>2, <1>4 DEF IInv
-----------------------------------------------------------------------------
(* The receiver. *)

LEMMA TransmitPacketStep ==
  ASSUME BoundsAssumption, IInv, NEW w \in Windows, TransmitPacket(w)
  PROVE  IInv'
<1> USE DEF TransmitPacket
<1>1. TypeOK'
  BY DEF IInv, TypeOK
<1>2. BasesFormChain' /\ StaleHoldsNoNews'
  BY DEF IInv, BasesFormChain, NotAfter, StaleHoldsNoNews, Stale
<1>3. AcksTruthful' /\ NeverBoth'
  BY DEF IInv, AcksTruthful, NeverBoth, KnownOutOfOrder, SomeBase
<1> QED
  BY <1>1, <1>2, <1>3 DEF IInv

\* The base moves to the first hole or stays; a packet acknowledged above it
\* was named by no base, for all bases are at most the receiver's.
LEMMA UpdateReceiveAckBitmapStep ==
  ASSUME BoundsAssumption, IInv, NEW w \in Windows, NEW p \in Psns,
         UpdateReceiveAckBitmap(w, p)
  PROVE  IInv'
<1> DEFINE ack == rxAck[w] \cup {p}
<1>1. PICK n \in rxBase[w]..(rxBase[w] + RxSize) :
        /\ IF p = rxBase[w]
           THEN n \notin ack /\ \A k \in rxBase[w]..(n - 1) : k \in ack
           ELSE n = rxBase[w]
        /\ rxBase' = [rxBase EXCEPT ![w] = n]
        /\ rxAck' = [rxAck EXCEPT ![w] = {q \in ack : q >= n}]
  BY DEF UpdateReceiveAckBitmap
<1>2. UNCHANGED <<txBase, txNext, txAcked, answered, net>> /\ p >= rxBase[w]
  BY DEF UpdateReceiveAckBitmap, IInv, TypeOK, BoundsAssumption
<1> HIDE DEF ack
<1>3. TypeOK'
  <2>1. n \in Nat
    BY <1>1 DEF IInv, TypeOK, BoundsAssumption
  <2>2. ack \subseteq Psns
    BY DEF IInv, TypeOK, ack
  <2>3. rxBase' \in [Windows -> Nat] /\ rxAck' \in [Windows -> SUBSET Psns]
    BY <1>1, <2>1, <2>2 DEF IInv, TypeOK
  <2> QED
    BY <1>2, <2>3 DEF IInv, TypeOK
<1>4. NotAfter(rxBase, rxBase')
  BY <1>1 DEF NotAfter, IInv, TypeOK, BoundsAssumption
<1>5. BasesFormChain' /\ StaleHoldsNoNews'
  <2>1. NotAfter(txBase, rxBase')
    BY <1>3, <1>4, <1>2 DEF IInv, TypeOK, BasesFormChain, NotAfter
  <2>2. \A m \in net : NotAfter(m.base, rxBase')
    BY <1>3, <1>4, <1>2 DEF IInv, TypeOK, BasesFormChain, NotAfter
  <2> QED
    BY <1>2, <2>1, <2>2 DEF IInv, BasesFormChain, NotAfter, StaleHoldsNoNews, Stale
<1>6. ASSUME NEW v \in Windows, NEW q \in Psns, KnownOutOfOrder(v, q)'
      PROVE  KnownOutOfOrder(v, q) \/ (v = w /\ q = p /\ p # rxBase[w])
  <2>1. CASE q \in rxAck'[v]
    BY <2>1, <1>1 DEF KnownOutOfOrder, IInv, TypeOK, BoundsAssumption, ack
  <2>2. CASE q \notin rxAck'[v]
    BY <2>2, <1>2, <1>6 DEF KnownOutOfOrder
  <2> QED
    BY <2>1, <2>2
<1>7. ASSUME NEW v \in Windows, NEW q \in Psns, q < rxBase[v] \/ q \in rxAck[v]
      PROVE  q < rxBase'[v] \/ q \in rxAck'[v]
  BY <1>1, <1>7 DEF IInv, TypeOK, BoundsAssumption, Psns, ack
<1>8. p < rxBase'[w] \/ p \in rxAck'[w]
  BY <1>1, <1>2 DEF IInv, TypeOK, BoundsAssumption, Psns, ack
<1>9. AcksTruthful'
  BY <1>6, <1>7, <1>8 DEF IInv, AcksTruthful
<1>10. NeverBoth'
  <2> SUFFICES ASSUME NEW v \in Windows, NEW q \in Psns, KnownOutOfOrder(v, q)', SomeBase(v, q)'
               PROVE  FALSE
    BY DEF NeverBoth
  <2>1. CASE v = w /\ q = p /\ p # rxBase[w]
    <3>1. SomeBase(w, p)
      BY <2>1, <1>1, <1>2 DEF SomeBase, IInv, TypeOK
    <3>2. rxBase[w] < p
      BY <2>1, <1>2 DEF IInv, TypeOK, BoundsAssumption, Psns
    <3> QED
      BY <3>1, <3>2 DEF SomeBase, IInv, TypeOK, BasesFormChain, NotAfter, Psns,
         BoundsAssumption
  <2>2. CASE KnownOutOfOrder(v, q)
    <3>1. ~SomeBase(v, q)
      BY <2>2 DEF IInv, NeverBoth
    <3>2. v = w /\ q = n /\ n # rxBase[w]
      BY <3>1, <1>1, <1>2 DEF SomeBase, IInv, TypeOK
    <3>3. n \notin ack /\ n > rxBase[w]
      BY <3>2, <1>1 DEF IInv, TypeOK, BoundsAssumption
    <3>4. q < rxBase[v] \/ q \in rxAck[v]
      BY <2>2 DEF IInv, AcksTruthful
    <3> QED
      BY <3>2, <3>3, <3>4 DEF ack, IInv, TypeOK, BoundsAssumption
  <2> QED
    BY <1>6, <2>1, <2>2
<1> QED
  BY <1>3, <1>5, <1>9, <1>10 DEF IInv

\* What the receiver sends carries its present base, and bits of its present
\* bitmap: everything known in flight was known before.
LEMMA SendStep ==
  ASSUME BoundsAssumption, IInv, NEW out, net' \subseteq net \cup out,
         UNCHANGED <<txBase, txNext, txAcked, rxBase, rxAck>>,
         \A m \in out :
           /\ m.base = rxBase
           /\ m.type = "ack" => m.acked = rxAck
           /\ m.type = "resp" => /\ m.window \in Windows /\ m.psn \in Psns
                                 /\ m.psn < rxBase[m.window] \/ m.psn \in rxAck[m.window]
  PROVE  IInv'
<1>1. TypeOK'
  BY DEF IInv, TypeOK
<1>2. BasesFormChain'
  <2>1. NotAfter(rxBase, rxBase)
    BY DEF IInv, TypeOK, NotAfter
  <2>2. \A m \in net' : m \in net \/ m.base = rxBase
    OBVIOUS
  <2>3. \A m \in net' : NotAfter(m.base, rxBase)
    BY <2>1, <2>2 DEF IInv, BasesFormChain
  <2>4. ASSUME NEW m \in net', NEW n \in net'
        PROVE  NotAfter(m.base, n.base) \/ NotAfter(n.base, m.base)
    BY <2>2, <2>3 DEF IInv, BasesFormChain
  <2> QED
    BY <2>3, <2>4 DEF IInv, BasesFormChain, NotAfter
<1>3. StaleHoldsNoNews'
  <2> SUFFICES ASSUME NEW m \in net', Stale(m, txBase)'
               PROVE  \A w \in Windows : m.base[w] <= txBase[w]
    BY DEF StaleHoldsNoNews
  <2>1. CASE m \in net
    BY <2>1 DEF IInv, StaleHoldsNoNews, Stale
  <2>2. CASE m \in out
    BY <2>2 DEF Stale, IInv, TypeOK, BasesFormChain, NotAfter
  <2> QED
    BY <2>1, <2>2
<1>4. ASSUME NEW w \in Windows, NEW p \in Psns, KnownOutOfOrder(w, p)'
      PROVE  KnownOutOfOrder(w, p)
  <2>1. CASE p \in rxAck[w] \/ p \in txAcked[w]
    BY <2>1 DEF KnownOutOfOrder
  <2>2. CASE ~(p \in rxAck[w] \/ p \in txAcked[w])
    <3>1. PICK m \in net' : \/ m.type = "ack" /\ p \in m.acked[w]
                            \/ /\ m.type = "resp" /\ m.window = w /\ m.psn = p
                               /\ m.base[w] <= p
      BY <1>4, <2>2 DEF KnownOutOfOrder
    <3>2. CASE m \in net
      BY <3>1, <3>2 DEF KnownOutOfOrder
    <3>3. CASE m \in out
      BY <2>2, <3>1, <3>3 DEF IInv, TypeOK, BoundsAssumption, Psns
    <3> QED
      BY <3>2, <3>3
  <2> QED
    BY <2>1, <2>2
<1>5. ASSUME NEW w \in Windows, NEW p \in Psns, SomeBase(w, p)'
      PROVE  SomeBase(w, p)
  BY <1>5 DEF SomeBase
<1>6. AcksTruthful' /\ NeverBoth'
  BY <1>4, <1>5 DEF IInv, AcksTruthful, NeverBoth
<1> QED
  BY <1>1, <1>2, <1>3, <1>6 DEF IInv

LEMMA TransmitACKStep ==
  ASSUME BoundsAssumption, IInv, TransmitACK
  PROVE  IInv'
<1>1. net' \subseteq net \cup {AckPacket, OtherPacket}
  BY TransfersSubset DEF TransmitACK
<1>2. UNCHANGED <<txBase, txNext, txAcked, rxBase, rxAck>>
  BY DEF TransmitACK
<1> DEFINE out == {AckPacket, OtherPacket}
<1>3. \A m \in out :
        /\ m.base = rxBase
        /\ m.type = "ack" => m.acked = rxAck
        /\ m.type = "resp" => /\ m.window \in Windows /\ m.psn \in Psns
                              /\ m.psn < rxBase[m.window] \/ m.psn \in rxAck[m.window]
  BY DEF AckPacket, OtherPacket
<1> HIDE DEF out
<1> QED
  BY ZenonT(60), <1>1, <1>2, <1>3, SendStep DEF out

LEMMA TransmitResponseStep ==
  ASSUME BoundsAssumption, IInv, NEW w \in Windows, NEW p \in Psns, TransmitResponse(w, p)
  PROVE  IInv'
<1>1. net' \subseteq net \cup {Response(w, p)}
  BY TransfersSubset DEF TransmitResponse
<1>2. UNCHANGED <<txBase, txNext, txAcked, rxBase, rxAck>>
      /\ (p < rxBase[w] \/ p \in rxAck[w])
  BY DEF TransmitResponse
<1> DEFINE out == {Response(w, p)}
<1>3. \A m \in out :
        /\ m.base = rxBase
        /\ m.type = "ack" => m.acked = rxAck
        /\ m.type = "resp" => /\ m.window \in Windows /\ m.psn \in Psns
                              /\ m.psn < rxBase[m.window] \/ m.psn \in rxAck[m.window]
  BY <1>2 DEF Response
<1> HIDE DEF out
<1> QED
  BY ZenonT(60), <1>1, <1>2, <1>3, SendStep DEF out
-----------------------------------------------------------------------------
(* The transmitter. *)

\* The transmitter may take over the bases of any packet in flight, and record
\* what is known to be acknowledged out of order.
LEMMA AdoptStep ==
  ASSUME BoundsAssumption, IInv, NEW m \in net, ~Stale(m, txBase),
         txBase' = m.base, txAcked' \in [Windows -> SUBSET Psns],
         \A w \in Windows : \A p \in txAcked'[w] : KnownOutOfOrder(w, p),
         net' \subseteq net, UNCHANGED <<txNext, rxBase, rxAck>>
  PROVE  IInv'
<1>1. TypeOK'
  BY DEF IInv, TypeOK
<1>2. BasesFormChain'
  BY DEF IInv, BasesFormChain, NotAfter
<1>3. StaleHoldsNoNews'
  <2> SUFFICES ASSUME NEW n \in net, NEW v \in Windows, n.base[v] < m.base[v]
               PROVE  \A w \in Windows : n.base[w] <= m.base[w]
    BY DEF StaleHoldsNoNews, Stale
  <2> QED
    BY DEF IInv, TypeOK, BasesFormChain, NotAfter
<1>4. ASSUME NEW w \in Windows, NEW p \in Psns, KnownOutOfOrder(w, p)'
      PROVE  KnownOutOfOrder(w, p)
  BY <1>4 DEF KnownOutOfOrder
<1>5. ASSUME NEW w \in Windows, NEW p \in Psns, SomeBase(w, p)'
      PROVE  SomeBase(w, p)
  BY <1>5 DEF SomeBase
<1>6. AcksTruthful' /\ NeverBoth'
  BY <1>4, <1>5 DEF IInv, AcksTruthful, NeverBoth
<1> QED
  BY <1>1, <1>2, <1>3, <1>6 DEF IInv

\* It may also leave its bases alone.
LEMMA RecordStep ==
  ASSUME BoundsAssumption, IInv,
         txBase' = txBase, txAcked' \in [Windows -> SUBSET Psns],
         \A w \in Windows : \A p \in txAcked'[w] : KnownOutOfOrder(w, p),
         net' \subseteq net, UNCHANGED <<txNext, rxBase, rxAck>>
  PROVE  IInv'
<1>1. TypeOK'
  BY DEF IInv, TypeOK
<1>2. BasesFormChain' /\ StaleHoldsNoNews'
  BY DEF IInv, BasesFormChain, NotAfter, StaleHoldsNoNews, Stale
<1>3. ASSUME NEW w \in Windows, NEW p \in Psns, KnownOutOfOrder(w, p)'
      PROVE  KnownOutOfOrder(w, p)
  BY <1>3 DEF KnownOutOfOrder
<1>4. ASSUME NEW w \in Windows, NEW p \in Psns, SomeBase(w, p)'
      PROVE  SomeBase(w, p)
  BY <1>4 DEF SomeBase
<1>5. AcksTruthful' /\ NeverBoth'
  BY <1>3, <1>4 DEF IInv, AcksTruthful, NeverBoth
<1> QED
  BY <1>1, <1>2, <1>5 DEF IInv

LEMMA HandleACKStep ==
  ASSUME BoundsAssumption, IInv, NEW m \in net, HandleACK(m)
  PROVE  IInv'
<1>1. m.type = "ack" /\ ~Stale(m, txBase)
  BY DEF HandleACK
<1>2. /\ txBase' = m.base
      /\ txAcked' = [w \in Windows |->
                       {p \in txAcked[w] : p >= m.base[w]} \cup m.acked[w]]
      /\ net' \subseteq net /\ UNCHANGED <<txNext, rxBase, rxAck>>
  BY <1>1, TransfersSubset DEF HandleACK, HandlePiggybacked, Window, Becomes
<1>3. txAcked' \in [Windows -> SUBSET Psns]
  BY <1>1, <1>2 DEF IInv, TypeOK
<1>4. ASSUME NEW w \in Windows, NEW p \in txAcked'[w] PROVE KnownOutOfOrder(w, p)
  BY <1>1, <1>2 DEF KnownOutOfOrder
<1> QED
  BY <1>1, <1>2, <1>3, <1>4, AdoptStep

LEMMA HandlePiggybackedACKStep ==
  ASSUME BoundsAssumption, IInv, NEW m \in net, HandlePiggybackedACK(m)
  PROVE  IInv'
<1>1. net' \subseteq net /\ UNCHANGED <<txNext, rxBase, rxAck>>
  BY TransfersSubset DEF HandlePiggybackedACK, Becomes
<1>2. CASE Stale(m, txBase)
  <2>1. txBase' = txBase /\ txAcked' = txAcked
    BY <1>2 DEF HandlePiggybackedACK, HandlePiggybacked, Window, Becomes
  <2>2. \A w \in Windows : \A p \in txAcked[w] : KnownOutOfOrder(w, p)
    BY DEF KnownOutOfOrder
  <2> QED
    BY <1>1, <2>1, <2>2, RecordStep DEF IInv, TypeOK
<1>3. CASE ~Stale(m, txBase)
  <2>1. /\ txBase' = m.base
        /\ txAcked' = [w \in Windows |-> {p \in txAcked[w] : p >= m.base[w]}]
    BY <1>3 DEF HandlePiggybackedACK, HandlePiggybacked, Window, Becomes
  <2>2. \A w \in Windows : \A p \in txAcked'[w] : KnownOutOfOrder(w, p)
    BY <2>1 DEF KnownOutOfOrder
  <2>3. txAcked' \in [Windows -> SUBSET Psns]
    BY <2>1 DEF IInv, TypeOK
  <2> QED
    BY <1>1, <1>3, <2>1, <2>2, <2>3, AdoptStep
<1> QED
  BY <1>2, <1>3

\* A response either was sent in order, and its bases go beyond the packet, so
\* they are no news only if they are stale; or out of order, and then the
\* packet is not at the base.
LEMMA HandleResponseStep ==
  ASSUME BoundsAssumption, IInv, NEW m \in net, HandleResponse(m)
  PROVE  IInv'
<1> DEFINE w == m.window
           p == m.psn
           s == HandleImplicitAck(w, p)
<1>1. net' \subseteq net /\ UNCHANGED <<txNext, rxBase, rxAck>>
      /\ m.type = "resp" /\ w \in Windows /\ p \in Psns
  BY TransfersSubset DEF HandleResponse, Becomes, IInv, TypeOK
<1>2. /\ txBase' = HandlePiggybacked(m, s).base
      /\ txAcked' = HandlePiggybacked(m, s).acked
  BY DEF HandleResponse, Becomes
<1>3. p < m.base[w] \/ KnownOutOfOrder(w, p)
  BY <1>1 DEF KnownOutOfOrder, IInv, TypeOK, Psns, BoundsAssumption
<1>4. s.acked \in [Windows -> SUBSET Psns]
      /\ \A v \in Windows : s.acked[v] \subseteq txAcked[v]
                              \cup (IF v = w THEN {p} ELSE {})
  BY <1>1 DEF HandleImplicitAck, Window, IInv, TypeOK
<1>5. s.base \in [Windows -> Nat]
      /\ (s.base = txBase \/ (p = txBase[w] /\ s.base = [txBase EXCEPT ![w] = @ + 1]))
      /\ (p < txBase[w] => s.base = txBase /\ s.acked = txAcked)
  BY <1>1 DEF HandleImplicitAck, Window, IInv, TypeOK
<1> HIDE DEF s
<1>6. CASE Stale(m, s.base)
  <2>1. txBase' = s.base /\ txAcked' = s.acked
    BY <1>2, <1>6 DEF HandlePiggybacked
  <2>2. CASE p < txBase[w]
    <3>1. \A v \in Windows : \A q \in txAcked[v] : KnownOutOfOrder(v, q)
      BY DEF KnownOutOfOrder
    <3> QED
      BY <1>1, <1>4, <1>5, <2>1, <2>2, <3>1, RecordStep
  <2>3. CASE ~(p < txBase[w])
    <3>1. KnownOutOfOrder(w, p)
      <4> SUFFICES ASSUME p < m.base[w] PROVE FALSE
        BY <1>3
      <4>1. \A v \in Windows : m.base[v] < s.base[v] => m.base[v] < txBase[v]
        BY <1>1, <1>5 DEF IInv, TypeOK, Psns, BoundsAssumption
      <4>2. m.base[w] <= txBase[w]
        BY <1>1, <1>6, <4>1 DEF IInv, StaleHoldsNoNews, Stale
      <4> QED
        BY <1>1, <2>3, <4>2 DEF IInv, TypeOK, Psns, BoundsAssumption
    <3>2. s.base = txBase
      BY <1>1, <1>5, <3>1 DEF IInv, NeverBoth, SomeBase
    <3>3. \A v \in Windows : \A q \in s.acked[v] : KnownOutOfOrder(v, q)
      BY <1>1, <1>4, <3>1 DEF KnownOutOfOrder
    <3> QED
      BY <1>1, <1>4, <2>1, <3>2, <3>3, RecordStep
  <2> QED
    BY <2>2, <2>3
<1>7. CASE ~Stale(m, s.base)
  <2>1. /\ txBase' = m.base
        /\ txAcked' = [v \in Windows |-> {q \in s.acked[v] : q >= m.base[v]}]
    BY <1>2, <1>7 DEF HandlePiggybacked, Window
  <2>2. txAcked' \in [Windows -> SUBSET Psns]
    BY <1>4, <2>1
  <2>3. ~Stale(m, txBase)
    BY <1>1, <1>5, <1>7 DEF Stale, IInv, TypeOK
  <2>4. ASSUME NEW v \in Windows, NEW q \in txAcked'[v] PROVE KnownOutOfOrder(v, q)
    <3>1. CASE q \in txAcked[v]
      BY <3>1 DEF KnownOutOfOrder
    <3>2. CASE v = w /\ q = p /\ p >= m.base[w]
      BY <1>1, <1>3, <3>2 DEF IInv, TypeOK, Psns, BoundsAssumption
    <3> QED
      BY <1>4, <2>1, <3>1, <3>2
  <2> QED
    BY <1>1, <2>1, <2>2, <2>3, <2>4, AdoptStep
<1> QED
  BY <1>6, <1>7

LEMMA NextIInv ==
  ASSUME BoundsAssumption, IInv, [Next]_vars
  PROVE  IInv'
<1>1. CASE UNCHANGED vars
  <2>1. TypeOK' /\ BasesFormChain' /\ StaleHoldsNoNews'
    BY <1>1 DEF vars, IInv, TypeOK, BasesFormChain, NotAfter, StaleHoldsNoNews, Stale
  <2>2. AcksTruthful' /\ NeverBoth'
    BY <1>1 DEF vars, IInv, AcksTruthful, NeverBoth, KnownOutOfOrder, SomeBase
  <2> QED
    BY <2>1, <2>2 DEF IInv
<1>2. CASE Next
  BY <1>2, TransmitPacketStep, UpdateReceiveAckBitmapStep, TransmitACKStep,
     TransmitResponseStep, HandleACKStep, HandleResponseStep, HandlePiggybackedACKStep
     DEF Next
<1> QED
  BY <1>1, <1>2
-----------------------------------------------------------------------------
(* The theorems. *)

\* The inductive invariant holds for every window width, number of packets and
\* number of ACKs in flight.
THEOREM Invariance ==
  ASSUME BoundsAssumption
  PROVE  Spec => []IInv
<1>1. Init => IInv
  BY InitIInv
<1>2. IInv /\ [Next]_vars => IInv'
  BY NextIInv
<1> QED
  BY <1>1, <1>2, PTL DEF Spec

\* HandleACK and HandlePiggybackedACK may discard what is behind in one window:
\* it never holds a newer base of the other; and a window whose base an
\* implicit ACK moves by one packet is not left at an acknowledged one.
THEOREM WindowsSeparate ==
  ASSUME BoundsAssumption
  PROVE  Spec => []SharedAcksSound
<1>1. IInv => SharedAcksSound
  <2> SUFFICES ASSUME IInv PROVE BasesUnacknowledged
    BY DEF IInv, SharedAcksSound
  <2> SUFFICES ASSUME NEW w \in Windows, txBase[w] \in txAcked[w] PROVE FALSE
    BY DEF BasesUnacknowledged
  <2>1. txBase[w] \in Psns
    BY DEF IInv, TypeOK
  <2> QED
    BY <2>1 DEF IInv, NeverBoth, KnownOutOfOrder, SomeBase
<1> QED
  BY <1>1, Invariance, PTL
-----------------------------------------------------------------------------
(* RateUpdateEngine.                                                       *)

(* The mailbox and the answers are sequences of records; what is proved says *)
(* nothing of most of their fields, so a sequence is one over its entries.   *)
Entries(s) == {s[i] : i \in DOMAIN s}
IsSeq(s) == s \in Seq(Entries(s))

LEMMA SeqShape ==
  ASSUME NEW s, IsSeq(s)
  PROVE  /\ Len(s) \in Nat /\ DOMAIN s = 1..Len(s)
         /\ \A i \in 1..Len(s) : s[i] \in Entries(s)
         /\ \A x \in Entries(s) : \E i \in 1..Len(s) : x = s[i]
<1>1. Len(s) \in Nat /\ DOMAIN s = 1..Len(s)
  BY DEF IsSeq
<1> QED
  BY <1>1 DEF Entries

LEMMA SeqAppend ==
  ASSUME NEW s, IsSeq(s), NEW e
  PROVE  /\ IsSeq(Append(s, e)) /\ Len(Append(s, e)) = Len(s) + 1
         /\ Entries(Append(s, e)) = Entries(s) \cup {e} /\ Append(s, e) # <<>>
         /\ Append(s, e)[Len(s) + 1] = e
         /\ \A i \in 1..Len(s) : Append(s, e)[i] = s[i]
<1> DEFINE T == Entries(s) \cup {e}
           t == Append(s, e)
<1>1. s \in Seq(T) /\ e \in T /\ Len(s) \in Nat
  <2>1. s = [i \in 1..Len(s) |-> s[i]] /\ Len(s) \in Nat
    BY DEF IsSeq
  <2>2. \A i \in 1..Len(s) : s[i] \in T
    BY SeqShape
  <2> HIDE DEF T
  <2>3. s \in Seq(T)
    BY <2>1, <2>2
  <2> QED
    BY <2>1, <2>3 DEF T
<1>2. /\ t \in Seq(T) /\ Len(t) = Len(s) + 1 /\ DOMAIN t = 1..(Len(s) + 1)
      /\ t[Len(s) + 1] = e /\ \A i \in 1..Len(s) : t[i] = s[i]
  <2> HIDE DEF T
  <2> QED
    BY <1>1
<1>3. Entries(t) = T
  <2> HIDE DEF t
  <2>1. 1..(Len(s) + 1) = (1..Len(s)) \cup {Len(s) + 1}
    BY <1>1
  <2>2. Entries(t) = {t[i] : i \in 1..Len(s)} \cup {e}
    BY <1>2, <2>1 DEF Entries
  <2>3. {t[i] : i \in 1..Len(s)} = Entries(s)
    BY <1>2, SeqShape DEF Entries
  <2> QED
    BY <2>2, <2>3
<1>4. t # <<>>
  <2> HIDE DEF T
  <2> QED
    BY <1>1
<1> HIDE DEF t, T
<1> QED
  BY <1>2, <1>3, <1>4 DEF IsSeq, t, T

LEMMA SeqTail ==
  ASSUME NEW s, IsSeq(s), s # <<>>
  PROVE  /\ IsSeq(Tail(s)) /\ Entries(Tail(s)) \subseteq Entries(s)
         /\ Head(s) = s[1] /\ Head(s) \in Entries(s)
         /\ Len(s) = Len(Tail(s)) + 1 /\ Len(Tail(s)) \in Nat
         /\ \A i \in 1..Len(Tail(s)) : Tail(s)[i] = s[i + 1]
<1> DEFINE t == Tail(s)
           T == Entries(s)
<1>1. s \in Seq(T)
  BY DEF IsSeq
<1>2. /\ t \in Seq(T) /\ Len(t) \in Nat /\ Len(s) = Len(t) + 1 /\ Head(s) = s[1]
      /\ DOMAIN t = 1..Len(t) /\ \A i \in 1..Len(t) : t[i] = s[i + 1]
  <2> HIDE DEF T
  <2> QED
    BY <1>1
<1>3. Head(s) \in T /\ Entries(t) \subseteq T
  <2>1. \A i \in 1..Len(t) : t[i] \in T
    <3> HIDE DEF T, t
    <3> QED
      BY <1>2
  <2>2. 1 \in 1..Len(s)
    BY <1>2
  <2> QED
    BY <1>2, <2>1, <2>2, SeqShape DEF Entries
<1>4. t \in Seq(Entries(t))
  <2> HIDE DEF t, T
  <2>1. \A i \in 1..Len(t) : t[i] \in Entries(t)
    BY <1>2 DEF Entries
  <2>2. t = [i \in 1..Len(t) |-> t[i]]
    BY <1>2
  <2> QED
    BY <1>2, <2>1, <2>2
<1> HIDE DEF t, T
<1> QED
  BY <1>2, <1>3, <1>4 DEF IsSeq, t, T
-----------------------------------------------------------------------------
(* How many entries of a sequence have a key. *)

Key(x) == <<x.cid, x.flow>>
At(s, k) == {i \in DOMAIN s : <<s[i].cid, s[i].flow>> = k}
KeyCount(s, k) == Cardinality(At(s, k))

LEMMA OneToN ==
  ASSUME NEW n \in Nat
  PROVE  IsFiniteSet(1..n)
BY FS_Interval

LEMMA CountIsNat ==
  ASSUME NEW s, IsSeq(s), NEW k
  PROVE  IsFiniteSet(At(s, k)) /\ KeyCount(s, k) \in Nat
<1>1. At(s, k) \subseteq 1..Len(s) /\ Len(s) \in Nat
  BY SeqShape DEF At
<1>2. IsFiniteSet(At(s, k))
  BY <1>1, OneToN, FS_Subset
<1> QED
  BY <1>2, FS_CardinalityType DEF KeyCount

LEMMA CountAppend ==
  ASSUME NEW s, IsSeq(s), NEW e, NEW k
  PROVE  KeyCount(Append(s, e), k) = KeyCount(s, k) + (IF Key(e) = k THEN 1 ELSE 0)
<1> DEFINE t == Append(s, e)
           n == Len(s)
<1>1. /\ n \in Nat /\ DOMAIN s = 1..n /\ DOMAIN t = 1..(n + 1)
      /\ t[n + 1] = e /\ \A i \in 1..n : t[i] = s[i]
  BY SeqShape, SeqAppend
<1>2. IsFiniteSet(At(s, k)) /\ KeyCount(s, k) \in Nat
  BY CountIsNat
<1> HIDE DEF t, n
<1>3. 1..(n + 1) = (1..n) \cup {n + 1} /\ n + 1 \notin 1..n
  BY <1>1
<1>4. CASE Key(e) = k
  <2>1. At(t, k) = At(s, k) \cup {n + 1} /\ n + 1 \notin At(s, k)
    BY <1>1, <1>3, <1>4 DEF At, Key
  <2> QED
    BY <1>2, <1>4, <2>1, FS_AddElement DEF KeyCount, t
<1>5. CASE Key(e) # k
  <2>1. At(t, k) = At(s, k)
    BY <1>1, <1>3, <1>5 DEF At, Key
  <2> QED
    BY <1>2, <1>5, <2>1 DEF KeyCount, t
<1> QED
  BY <1>4, <1>5

LEMMA CountTail ==
  ASSUME NEW s, IsSeq(s), s # <<>>, NEW k
  PROVE  /\ KeyCount(s, k) = KeyCount(Tail(s), k) + (IF Key(Head(s)) = k THEN 1 ELSE 0)
         /\ KeyCount(Tail(s), k) \in Nat
<1> DEFINE t == Tail(s)
           n == Len(t)
           A == At(t, k)
           B == At(s, k) \ {1}
           shift == [i \in A |-> i + 1]
<1>1. /\ n \in Nat /\ DOMAIN s = 1..(n + 1) /\ DOMAIN t = 1..n
      /\ s[1] = Head(s) /\ \A i \in 1..n : t[i] = s[i + 1]
  BY SeqShape, SeqTail
<1>2. IsFiniteSet(A) /\ Cardinality(A) \in Nat
  BY SeqTail, CountIsNat DEF KeyCount
<1> HIDE DEF t, n
<1>3. \A i : i \in A <=> i \in 1..n /\ <<s[i + 1].cid, s[i + 1].flow>> = k
  BY <1>1 DEF At
<1>4. \A i : i \in B <=> i \in 2..(n + 1) /\ <<s[i].cid, s[i].flow>> = k
  BY <1>1 DEF At
<1> HIDE DEF A, B
<1>5. Cardinality(B) = Cardinality(A)
  <2>1. \A i \in A : i \in Nat /\ i + 1 \in B
    BY <1>1, <1>3, <1>4
  <2>2. \A j \in B : j - 1 \in A /\ (j - 1) + 1 = j
    BY <1>1, <1>3, <1>4
  <2>3. shift \in Bijection(A, B)
    BY <2>1, <2>2 DEF Bijection, Injection, Surjection, IsInjective
  <2>4. ExistsBijection(A, B)
    BY <2>3 DEF ExistsBijection
  <2> QED
    BY <1>2, <2>4, FS_Bijection
<1>6. IsFiniteSet(At(s, k))
  BY CountIsNat
<1>7. CASE Key(Head(s)) = k
  <2>1. 1 \in At(s, k)
    BY <1>1, <1>7 DEF At, Key
  <2>2. Cardinality(At(s, k)) = Cardinality(B) + 1
    <3>1. Cardinality(At(s, k)) \in Nat
      BY <1>6, FS_CardinalityType
    <3>2. Cardinality(B) = Cardinality(At(s, k)) - 1
      BY <1>6, <2>1, FS_RemoveElement DEF B
    <3> QED
      BY <3>1, <3>2
  <2> QED
    BY <1>2, <1>5, <1>7, <2>2 DEF KeyCount, A, t
<1>8. CASE Key(Head(s)) # k
  <2>1. B = At(s, k)
    BY <1>1, <1>8 DEF At, Key, B
  <2> QED
    BY <1>2, <1>5, <1>8, <2>1 DEF KeyCount, A, t
<1> QED
  BY <1>7, <1>8

LEMMA CountZero ==
  ASSUME NEW s, IsSeq(s), NEW k, KeyCount(s, k) = 0
  PROVE  \A x \in Entries(s) : Key(x) # k
<1>1. At(s, k) = {}
  BY CountIsNat, FS_EmptySet DEF KeyCount
<1> QED
  BY <1>1 DEF At, Entries, Key
-----------------------------------------------------------------------------
(* Arithmetic. *)

LEMMA ProductUp ==
  ASSUME NEW a \in Int, NEW b \in Int, NEW c \in Nat, a <= b
  PROVE  c * a <= c * b
OBVIOUS

LEMMA ProductNat ==
  ASSUME NEW a \in Nat, NEW b \in Nat
  PROVE  a * b \in Nat
OBVIOUS

LEMMA QuotientNat ==
  ASSUME NEW a \in Nat, NEW c \in Nat \ {0}
  PROVE  a \div c \in Nat
OBVIOUS

LEMMA QuotientUp ==
  ASSUME NEW a \in Int, NEW b \in Int, NEW c \in Nat \ {0}, a <= b
  PROVE  a \div c <= b \div c
OBVIOUS

LEMMA QuotientBelow ==
  ASSUME NEW a \in Int, NEW c \in Nat \ {0}
  PROVE  c * (a \div c) <= a
OBVIOUS

\* Rounding leaves a multiple alone.
LEMMA RoundExact ==
  ASSUME NEW f \in Nat, NEW g \in Nat \ {0}
  PROVE  (2 * (f * g) + g) \div (2 * g) = f
OBVIOUS

LEMMA PairMax ==
  ASSUME NEW a \in Int, NEW b \in Int
  PROVE  Max({a, b}) = IF a >= b THEN a ELSE b
<1> DEFINE m == IF a >= b THEN a ELSE b
<1>1. m \in {a, b} /\ \A y \in {a, b} : m >= y
  OBVIOUS
<1>2. \A x \in {a, b} : (\A y \in {a, b} : x >= y) => x = m
  OBVIOUS
<1> HIDE DEF m
<1>3. Max({a, b}) = m
  BY <1>1, <1>2 DEF Max
<1> QED
  BY <1>3 DEF m

LEMMA PairMin ==
  ASSUME NEW a \in Int, NEW b \in Int
  PROVE  Min({a, b}) = IF a <= b THEN a ELSE b
<1> DEFINE m == IF a <= b THEN a ELSE b
<1>1. m \in {a, b} /\ \A y \in {a, b} : m <= y
  OBVIOUS
<1>2. \A x \in {a, b} : (\A y \in {a, b} : x <= y) => x = m
  OBVIOUS
<1> HIDE DEF m
<1>3. Min({a, b}) = m
  BY <1>1, <1>2 DEF Min
<1> QED
  BY <1>3 DEF m

LEMMA ClampIs ==
  ASSUME NEW x \in Int, NEW lo \in Int, NEW hi \in Int, lo <= hi
  PROVE  Clamp(x, lo, hi) = IF x > hi THEN hi ELSE IF x < lo THEN lo ELSE x
<1>1. Min({x, hi}) = IF x <= hi THEN x ELSE hi
  BY PairMin
<1> DEFINE m == IF x <= hi THEN x ELSE hi
<1>2. m \in Int /\ (lo >= m => IF x > hi THEN hi = lo ELSE (IF x < lo THEN lo ELSE x) = lo)
      /\ (lo < m => IF x > hi THEN m = hi ELSE (IF x < lo THEN lo ELSE x) = m)
  OBVIOUS
<1>3. Clamp(x, lo, hi) = Max({lo, m})
  BY <1>1 DEF Clamp
<1>4. Max({lo, m}) = IF lo >= m THEN lo ELSE m
  <2> HIDE DEF m
  <2> QED
    BY <1>2, PairMax
<1> QED
  BY <1>2, <1>3, <1>4
-----------------------------------------------------------------------------
(* Windows, in doubles and in the datapath's units. *)

MaxFixed == FloatToFixed(P.max_fcwnd)

LEMMA ConstantsAre ==
  ASSUME EngineAssumption
  PROVE  /\ {One, Grain, MaxWeight, Packet} \subseteq Nat \ {0}
         /\ TimeMod \in Nat /\ TimeMod > 1 /\ MaxTime \in Nat /\ MaxTime < TimeMod
         /\ {P.min_fcwnd, P.max_fcwnd, P.fabric_ai, P.topo_per_hop, P.base_delay} \subseteq Nat
         /\ 1 <= P.min_fcwnd /\ P.min_fcwnd <= P.max_fcwnd /\ P.base_delay > 0
         /\ {P.fabric_mdf, P.max_fabric_md} \subseteq 1..99
         /\ {P.rtt_alpha, P.delay_alpha} \subseteq 0..99
<1>1. /\ {One, Grain, MaxGap, MaxWeight} \subseteq Nat \ {0} /\ TimeMod \in Nat \ {0, 1}
      /\ ValidParameters
  BY DEF EngineAssumption, SwiftAssumption
<1>2. MaxTime \in Nat /\ MaxTime < TimeMod
  BY <1>1 DEF EngineAssumption
<1>3. One * Grain \in Nat \ {0}
  BY <1>1
<1> QED
  BY <1>1, <1>2, <1>3 DEF ValidParameters, Packet

LEMMA FixedIs ==
  ASSUME EngineAssumption
  PROVE  /\ \A d \in Nat : FloatToFixed(d) \in Nat
         /\ \A c, d \in Nat : c <= d => FloatToFixed(c) <= FloatToFixed(d)
         /\ \A f \in Nat : FixedToFloat(f) \in Nat /\ FloatToFixed(FixedToFloat(f)) = f
         /\ \A f \in 0..MaxFixed : FixedToFloat(f) \in 0..(P.max_fcwnd + Grain)
         /\ MaxFixed \in Nat
<1>1. Grain \in Nat \ {0} /\ 2 * Grain \in Nat \ {0} /\ P.max_fcwnd \in Nat
  BY ConstantsAre
<1>2. \A d \in Nat : FloatToFixed(d) \in Nat
  BY <1>1, QuotientNat DEF FloatToFixed
<1>3. ASSUME NEW c \in Nat, NEW d \in Nat, c <= d PROVE FloatToFixed(c) <= FloatToFixed(d)
  BY <1>1, <1>3, QuotientUp DEF FloatToFixed
<1>4. ASSUME NEW f \in Nat PROVE FixedToFloat(f) \in Nat /\ FloatToFixed(FixedToFloat(f)) = f
  <2>1. FixedToFloat(f) \in Nat
    BY <1>1, <1>4, ProductNat DEF FixedToFloat
  <2>2. FloatToFixed(FixedToFloat(f)) = f
    BY <1>1, <1>4, RoundExact DEF FixedToFloat, FloatToFixed
  <2> QED
    BY <2>1, <2>2
<1>5. ASSUME NEW f \in 0..MaxFixed PROVE FixedToFloat(f) \in 0..(P.max_fcwnd + Grain)
  <2> DEFINE q == (2 * P.max_fcwnd + Grain) \div (2 * Grain)
  <2>1. q = MaxFixed /\ q \in Nat
    BY <1>1, <1>2 DEF MaxFixed, FloatToFixed
  <2>2. (2 * Grain) * q <= 2 * P.max_fcwnd + Grain
    <3> DEFINE a == 2 * P.max_fcwnd + Grain
               c == 2 * Grain
    <3>1. a \in Int /\ c \in Nat \ {0}
      BY <1>1
    <3> HIDE DEF a, c
    <3>2. c * (a \div c) <= a
      BY <3>1, QuotientBelow
    <3> QED
      BY <3>2 DEF a, c
  <2> HIDE DEF q
  <2>3. f \in Nat /\ f <= q
    BY <2>1
  <2>4. (2 * Grain) * f <= (2 * Grain) * q
    BY <1>1, <2>1, <2>3, ProductUp
  <2>5. (2 * Grain) * f = 2 * (f * Grain) /\ f * Grain \in Nat /\ (2 * Grain) * q \in Nat
    BY <1>1, <2>1, <2>3
  <2> DEFINE w == f * Grain
             b == (2 * Grain) * q
  <2>6. 2 * w <= b /\ b <= 2 * P.max_fcwnd + Grain /\ w \in Nat /\ b \in Nat
    BY <2>2, <2>4, <2>5
  <2>7. FixedToFloat(f) = w
    BY DEF FixedToFloat
  <2> HIDE DEF w, b
  <2> QED
    BY <1>1, <2>6, <2>7
<1>6. MaxFixed \in Nat
  BY <1>1, <1>2 DEF MaxFixed
<1> QED
  BY <1>2, <1>3, <1>4, <1>5, <1>6

LEMMA ClampFabricIs ==
  ASSUME EngineAssumption, NEW x \in Int
  PROVE  /\ ClampFabric(x) \in P.min_fcwnd..P.max_fcwnd
         /\ x \in P.min_fcwnd..P.max_fcwnd => ClampFabric(x) = x
         /\ \A w \in Nat : w <= x => ClampFabric(x) >= w \/ ClampFabric(x) = P.max_fcwnd
<1>1. {P.min_fcwnd, P.max_fcwnd} \subseteq Nat /\ P.min_fcwnd <= P.max_fcwnd
  BY ConstantsAre
<1>2. ClampFabric(x) = IF x > P.max_fcwnd THEN P.max_fcwnd
                       ELSE IF x < P.min_fcwnd THEN P.min_fcwnd ELSE x
  BY <1>1, ClampIs DEF ClampFabric
<1> QED
  BY <1>1, <1>2

\* What is left of a window after a decrease is a number.
LEMMA ScaledDecreaseNat ==
  ASSUME NEW w \in Nat, NEW value \in Nat, NEW target \in Nat \ {0}, value >= target,
         NEW factor \in 1..99, NEW max \in 1..99
  PROVE  ScaledDecrease(w, value, target, factor, max) \in Nat
<1> DEFINE a == max * value
           b == (value - target) * factor
           m == Min({a, b})
           rest == 100 * value - m
           full == 100 * value
<1>1. a \in Nat /\ b \in Nat /\ a <= 99 * value
  <2>1. value - target \in Nat /\ factor \in Nat /\ max \in Nat
    OBVIOUS
  <2>2. a \in Nat /\ b \in Nat
    BY <2>1, ProductNat
  <2>3. value * max <= value * 99
    BY ProductUp
  <2> QED
    BY <2>2, <2>3
<1>2. m = IF a <= b THEN a ELSE b
  BY <1>1, PairMin
<1> HIDE DEF a, b, m
<1>3. rest \in Nat
  BY <1>1, <1>2
<1>4. full \in Nat \ {0}
  OBVIOUS
<1>5. (w * rest) \div full \in Nat
  <2>1. w * rest \in Nat
    <3> HIDE DEF rest
    <3> QED
      BY <1>3, ProductNat
  <2> DEFINE n == w * rest
  <2> HIDE DEF n, full
  <2>2. n \div full \in Nat
    BY <1>4, <2>1, QuotientNat DEF n
  <2> QED
    BY <2>2 DEF n
<1> QED
  BY <1>5 DEF ScaledDecrease, rest, full, m, a, b

\* A window may follow another, a time after the marker: it stays within its
\* bounds, and is not lowered within a round trip.
Follows(new, w, rtt, delta) ==
  /\ new \in P.min_fcwnd..P.max_fcwnd
  /\ delta < rtt => new >= w \/ new = P.max_fcwnd

\* The window after an ACK or a NACK.
LEMMA NewFabricWindowIs ==
  ASSUME EngineAssumption, NEW e, e.acked \in Nat, NEW w \in Nat, NEW delay \in Nat,
         NEW target \in Nat \ {0}, NEW rtt \in Nat, NEW delta \in Nat
  PROVE  Follows(NewFabricWindow(e, w, delay, target, rtt, delta), w, rtt, delta)
<1> DEFINE new == NewFabricWindow(e, w, delay, target, rtt, delta)
<1>1. /\ {P.fabric_ai, Packet} \subseteq Nat /\ Packet # 0
      /\ {P.fabric_mdf, P.max_fabric_md} \subseteq 1..99
  BY ConstantsAre
<1>2. CASE UseMaxFabricDecrease(e)
  <2> DEFINE cut == (w * (100 - P.max_fabric_md)) \div 100
             x == IF delta >= rtt THEN cut ELSE w
  <2>1. cut \in Nat
    <3>1. 100 - P.max_fabric_md \in Nat
      BY <1>1
    <3>2. w * (100 - P.max_fabric_md) \in Nat
      BY <3>1, ProductNat
    <3> QED
      BY <3>2, QuotientNat
  <2>2. new = ClampFabric(x)
    BY <1>2 DEF NewFabricWindow, ComputeNackFabricCongestionWindow
  <2> HIDE DEF cut, new
  <2>3. x \in Int /\ (delta < rtt => w <= x)
    BY <2>1
  <2> HIDE DEF x
  <2>4. Follows(new, w, rtt, delta)
    BY <2>2, <2>3, ClampFabricIs DEF Follows
  <2> QED
    BY <2>4 DEF new
<1>3. CASE ~UseMaxFabricDecrease(e)
  <2> DEFINE inc == IF w >= Packet THEN (P.fabric_ai * e.acked * Packet) \div w
                    ELSE P.fabric_ai * e.acked
             cut == ScaledDecrease(w, delay, target, P.fabric_mdf, P.max_fabric_md)
             x == CASE delay < target -> w + inc
                    [] delay >= target /\ delta >= rtt -> cut
                    [] OTHER -> w
  <2>1. inc \in Nat
    <3>1. P.fabric_ai * e.acked \in Nat
      BY <1>1, ProductNat
    <3>2. P.fabric_ai * e.acked * Packet \in Nat
      BY <1>1, <3>1, ProductNat
    <3>3. w >= Packet => w \in Nat \ {0}
      BY <1>1
    <3> QED
      BY <3>1, <3>2, <3>3, QuotientNat
  <2>2. delay >= target => cut \in Nat
    BY <1>1, ScaledDecreaseNat
  <2>3. new = ClampFabric(x)
    BY <1>3 DEF NewFabricWindow, ComputeAckFabricCongestionWindow
  <2> HIDE DEF cut, inc, new
  <2>4. x \in Int /\ (delta < rtt => w <= x)
    BY <2>1, <2>2
  <2> HIDE DEF x
  <2>5. Follows(new, w, rtt, delta)
    BY <2>3, <2>4, ClampFabricIs DEF Follows
  <2> QED
    BY <2>5 DEF new
<1> QED
  BY <1>2, <1>3

\* The same of a retransmission timeout.
LEMMA TimeoutWindowIs ==
  ASSUME EngineAssumption, NEW e, e.rtt \in Nat, NEW w \in Nat, NEW delta \in Nat
  PROVE  Follows(ComputeTimeoutFabricCongestionWindow(e, w, delta), w, e.rtt, delta)
<1> DEFINE new == ComputeTimeoutFabricCongestionWindow(e, w, delta)
           cut == (w * (100 - P.max_fabric_md)) \div 100
           x == CASE delta >= e.rtt /\ e.count = 1 -> cut
                  [] delta >= e.rtt /\ e.count # 1 /\ e.count >= P.retransmit_limit -> P.min_fcwnd
                  [] OTHER -> w
<1>1. P.max_fabric_md \in 1..99 /\ P.min_fcwnd \in Nat
  BY ConstantsAre
<1>2. cut \in Nat
  <2>1. 100 - P.max_fabric_md \in Nat
    BY <1>1
  <2>2. w * (100 - P.max_fabric_md) \in Nat
    BY <2>1, ProductNat
  <2> QED
    BY <2>2, QuotientNat
<1>3. new = ClampFabric(x)
  BY DEF ComputeTimeoutFabricCongestionWindow
<1> HIDE DEF cut, new
<1>4. x \in Int /\ (delta < e.rtt => w <= x)
  BY <1>1, <1>2
<1> HIDE DEF x
<1>5. Follows(new, w, e.rtt, delta)
  BY <1>3, <1>4, ClampFabricIs DEF Follows
<1> QED
  BY <1>5 DEF new
-----------------------------------------------------------------------------
(* Times. *)

LEMMA TimeBitsIs ==
  ASSUME EngineAssumption
  PROVE  /\ \A t \in Int : TimeBits(t) \in Nat /\ TimeBits(t) < TimeMod
         /\ \A t \in Nat : TimeBits(t) <= t
         /\ \A t \in 0..(TimeMod - 1) : TimeBits(t) = t
         /\ \A t \in (-TimeMod)..-1 : TimeBits(t) = t + TimeMod
BY ConstantsAre DEF TimeBits

LEMMA TargetIs ==
  ASSUME EngineAssumption, NEW w \in 0..(P.max_fcwnd + Grain), NEW hops \in Nat
  PROVE  GetTargetDelay(w, hops) \in Nat \ {0}
<1> DEFINE s == FlowScaling(w)
           h == P.topo_per_hop * hops
           n == P.base_delay + s + h
<1>1. P.base_delay \in Nat \ {0} /\ P.topo_per_hop \in Nat /\ TimeMod - 1 \in Nat \ {0}
  BY ConstantsAre
<1>2. s \in Nat
  BY DEF EngineAssumption, SwiftAssumption
<1>3. h \in Nat
  BY <1>1, ProductNat
<1> HIDE DEF s, h
<1>4. n \in Nat \ {0}
  BY <1>1, <1>2, <1>3
<1> HIDE DEF n
<1>5. Min({TimeMod - 1, n}) = IF TimeMod - 1 <= n THEN TimeMod - 1 ELSE n
  BY <1>1, <1>4, PairMin
<1> QED
  BY <1>1, <1>4, <1>5 DEF GetTargetDelay, SaturateHigh, n, s, h

LEMMA TimingIs ==
  ASSUME EngineAssumption, NEW e, {e.t1, e.t2, e.t3, e.t4} \subseteq Int
  PROVE  /\ GetPacketTiming(e).rtt = TimeBits(e.t4 - e.t1)
         /\ GetPacketTiming(e).rtt \in Nat /\ GetPacketTiming(e).delay \in Nat
<1> DEFINE rtt == TimeBits(e.t4 - e.t1)
<1>1. rtt \in Nat /\ TimeBits(e.t3 - e.t2) \in Nat
  BY TimeBitsIs
<1>2. /\ TimeBits(rtt - TimeBits(e.t3 - e.t2)) \in Nat
      /\ TimeBits(e.t2 - e.t1) \in Nat /\ TimeBits(e.t4 - e.t3) \in Nat
  <2>1. rtt - TimeBits(e.t3 - e.t2) \in Int
    <3> HIDE DEF rtt
    <3> QED
      BY <1>1
  <2> QED
    BY <2>1, TimeBitsIs
<1>3. P.delay_select \in {"full", "fabric", "forward", "reverse"}
  BY DEF EngineAssumption, SwiftAssumption, ValidParameters
<1> QED
  BY <1>1, <1>2, <1>3 DEF GetPacketTiming

LEMMA SmoothedIs ==
  ASSUME NEW alpha \in 0..99, NEW old, NEW value \in Nat, alpha # 0 => old \in Nat
  PROVE  GetSmoothed(alpha, old, value) \in Nat
<1>1. CASE alpha = 0
  BY <1>1 DEF GetSmoothed
<1>2. CASE alpha # 0
  <2> DEFINE a == old * alpha
             b == value * (100 - alpha)
             n == a + b
  <2>1. a \in Nat
    BY <1>2, ProductNat
  <2>2. b \in Nat
    <3>1. 100 - alpha \in Nat
      OBVIOUS
    <3> QED
      BY <3>1, ProductNat
  <2> HIDE DEF a, b
  <2>3. n \in Nat
    BY <2>1, <2>2
  <2> HIDE DEF n
  <2>4. n \div 100 \in Nat
    BY <2>3, QuotientNat
  <2> QED
    BY <1>2, <2>4 DEF GetSmoothed, n, a, b
<1> QED
  BY <1>1, <1>2

\* A marker covers a decrease when the time it says has passed since then is
\* no more than what has passed, now and later.
Covers(from, marker, decrease) ==
  \A t \in from..MaxTime : TimeBits(t - marker) <= t - decrease

LEMMA CoversLater ==
  ASSUME NEW from \in Int, NEW later \in Int, from <= later, MaxTime \in Int,
         NEW marker, NEW decrease, Covers(from, marker, decrease)
  PROVE  Covers(later, marker, decrease)
BY DEF Covers

LEMMA CoversNow ==
  ASSUME EngineAssumption, NEW from \in Nat, NEW decrease \in Int, decrease <= from
  PROVE  Covers(from, from, decrease)
<1>1. MaxTime \in Nat
  BY ConstantsAre
<1>2. ASSUME NEW t \in from..MaxTime PROVE TimeBits(t - from) <= t - decrease
  <2>1. t - from \in Nat /\ t \in Int /\ t - from <= t - decrease
    BY <1>1
  <2>2. TimeBits(t - from) \in Nat /\ TimeBits(t - from) <= t - from
    BY <2>1, TimeBitsIs
  <2> QED
    BY <2>1, <2>2
<1> QED
  BY <1>2 DEF Covers

\* A marker more than a round trip old may be moved up to a round trip ago.
LEMMA CoversMovedUp ==
  ASSUME EngineAssumption, NEW from \in 0..MaxTime, NEW decrease \in Int,
         NEW marker \in Int, NEW rtt \in Nat, rtt < TimeBits(from - marker),
         Covers(from, marker, decrease)
  PROVE  Covers(from, TimeBits(from - rtt), decrease)
<1> DEFINE old == TimeBits(from - marker)
           x == from - rtt
           new == TimeBits(x)
<1>1. MaxTime \in Nat /\ TimeMod \in Nat /\ MaxTime < TimeMod
  BY ConstantsAre
<1>2. old \in Nat /\ old < TimeMod /\ old <= from - decrease
  <2>1. from - marker \in Int /\ from \in from..MaxTime
    BY <1>1
  <2> QED
    BY <2>1, TimeBitsIs DEF Covers
<1>3. rtt < old
  OBVIOUS
<1> HIDE DEF old
<1>4. x \in Int /\ decrease < x /\ -TimeMod <= x /\ x < TimeMod
  BY <1>1, <1>2, <1>3
<1>5. new = IF x >= 0 THEN x ELSE x + TimeMod
  <2>1. CASE x >= 0
    <3>1. x \in 0..(TimeMod - 1)
      BY <1>1, <1>4, <2>1
    <3> QED
      BY <2>1, <3>1, TimeBitsIs
  <2>2. CASE ~(x >= 0)
    <3>1. x \in (-TimeMod)..-1
      BY <1>1, <1>4, <2>2
    <3> QED
      BY <2>2, <3>1, TimeBitsIs
  <2> QED
    BY <2>1, <2>2
<1>6. \A t \in from..MaxTime : x <= t
  OBVIOUS
<1> HIDE DEF x, new
<1>7. ASSUME NEW t \in from..MaxTime PROVE TimeBits(t - new) <= t - decrease
  <2>1. t \in Nat /\ x <= t /\ t < TimeMod
    BY <1>1, <1>6
  <2>2. CASE x >= 0
    <3>1. t - new \in 0..(TimeMod - 1)
      BY <1>1, <1>4, <1>5, <2>1, <2>2
    <3> QED
      BY <1>4, <1>5, <2>1, <2>2, <3>1, TimeBitsIs
  <2>3. CASE x < 0 /\ t - x < TimeMod
    <3>1. t - new \in (-TimeMod)..-1
      BY <1>1, <1>4, <1>5, <2>1, <2>3
    <3>2. TimeBits(t - new) = t - new + TimeMod
      BY <3>1, TimeBitsIs
    <3> QED
      BY <1>1, <1>4, <1>5, <2>1, <2>3, <3>2
  <2>4. CASE x < 0 /\ t - x >= TimeMod
    <3>1. t - new \in Nat
      BY <1>1, <1>4, <1>5, <2>1, <2>4
    <3>2. TimeBits(t - new) \in Nat /\ TimeBits(t - new) <= t - new
      BY <3>1, TimeBitsIs
    <3> QED
      BY <1>1, <1>4, <1>5, <2>1, <2>4, <3>2
  <2> QED
    BY <1>1, <1>4, <2>1, <2>2, <2>3, <2>4
<1> QED
  BY <1>7 DEF Covers, new, x

\* A marker that is set at some time, with the last one and the windows before
\* and after: a decrease sets it to now, and it covers what the last one covered.
Marks(marker, at, last, old, new) ==
  /\ marker \in Int /\ (new < old => marker = at)
  /\ \A d \in Int : d <= at /\ Covers(at, last, d) => Covers(at, marker, d)

LEMMA MarkerIs ==
  ASSUME EngineAssumption, NEW at \in 0..MaxTime, NEW last \in Int, NEW rtt \in Nat,
         NEW old, NEW new, NEW min
  PROVE  Marks(GetFabricWindowTimeMarker(at, last, rtt, old, new, min), at, last, old, new)
<1> DEFINE marker == GetFabricWindowTimeMarker(at, last, rtt, old, new, min)
<1>1. at \in Nat
  BY ConstantsAre
<1>2. CASE new < old \/ new = min
  <2>1. marker = at
    BY <1>2 DEF GetFabricWindowTimeMarker
  <2> HIDE DEF marker
  <2>2. Marks(marker, at, last, old, new)
    BY <1>1, <2>1, CoversNow DEF Marks
  <2> QED
    BY <2>2 DEF marker
<1>3. CASE ~(new < old \/ new = min) /\ TimeBits(at - last) > rtt
  <2>1. marker = TimeBits(at - rtt)
    BY <1>3 DEF GetFabricWindowTimeMarker
  <2>2. rtt < TimeBits(at - last) /\ TimeBits(at - rtt) \in Int
    BY <1>1, <1>3, TimeBitsIs
  <2> HIDE DEF marker
  <2>3. ASSUME NEW d \in Int, d <= at, Covers(at, last, d) PROVE Covers(at, marker, d)
    BY <2>1, <2>2, <2>3, CoversMovedUp
  <2>4. Marks(marker, at, last, old, new)
    BY <1>3, <2>1, <2>2, <2>3 DEF Marks
  <2> QED
    BY <2>4 DEF marker
<1>4. CASE ~(new < old \/ new = min) /\ ~(TimeBits(at - last) > rtt)
  <2>1. marker = last
    BY <1>4 DEF GetFabricWindowTimeMarker
  <2> QED
    BY <1>4, <2>1 DEF Marks
<1> QED
  BY <1>2, <1>3, <1>4
-----------------------------------------------------------------------------
(* What an event and a response are, as far as the windows and markers go. *)

GoodDelay(d) == (~Gen2 /\ P.randomize_path) \/ d \in Nat

GoodEvent(e) ==
  /\ e.cid \in Conns /\ e.flow \in Flows /\ e.multipath = Multipath
  /\ {e.t1, e.t2, e.t3, e.t4} \subseteq Int
  /\ {e.hops, e.acked, e.rtt} \subseteq Nat
  /\ e.fcwnd \in 0..MaxFixed /\ e.fmarker \in Int /\ GoodDelay(e.dstate)

GoodResponse(r) ==
  /\ r.cid \in Conns /\ r.flow \in Flows /\ r.multipath = Multipath
  /\ r.fcwnd \in 0..MaxFixed /\ r.fmarker \in Int /\ r.rtt \in Nat /\ GoodDelay(r.dstate)
  /\ Multipath => \E f \in Flows : r.weights[f] > 0


LEMMA WindowIs ==
  ASSUME EngineAssumption, NEW at \in Int, NEW marker \in Int, NEW due \in Nat,
         NEW old \in 0..MaxFixed, NEW new \in P.min_fcwnd..P.max_fcwnd,
         TimeBits(at - marker) < due => new >= FixedToFloat(old) \/ new = P.max_fcwnd
  PROVE  /\ FloatToFixed(new) \in 0..MaxFixed
         /\ FloatToFixed(new) < old
              => TimeBits(at - marker) >= due /\ new < FixedToFloat(old)
<1>1. {P.min_fcwnd, P.max_fcwnd} \subseteq Nat
  BY ConstantsAre
<1>2. /\ new \in Nat /\ new <= P.max_fcwnd /\ MaxFixed \in Nat /\ old \in Nat /\ old <= MaxFixed
      /\ FixedToFloat(old) \in Nat /\ FloatToFixed(FixedToFloat(old)) = old
      /\ FloatToFixed(new) \in Nat /\ FloatToFixed(new) <= MaxFixed
  BY <1>1, FixedIs DEF MaxFixed
<1>3. TimeBits(at - marker) \in Nat
  BY TimeBitsIs
<1>4. new >= FixedToFloat(old) => FloatToFixed(new) >= old
  BY <1>2, FixedIs
<1>5. new = P.max_fcwnd => FloatToFixed(new) >= old
  BY <1>2 DEF MaxFixed
<1> QED
  BY <1>2, <1>3, <1>4, <1>5

\* ProcessAckNack: the fields the next lemmas look at.
LEMMA AckNackFields ==
  ASSUME NEW e, NEW at
  PROVE  LET r      == ProcessAckNack(e, at)
             timing == GetPacketTiming(e)
             old    == FixedToFloat(e.fcwnd)
             rtt    == GetSmoothed(P.rtt_alpha, e.rtt, timing.rtt)
             delay  == GetSmoothed(P.delay_alpha, e.dstate, timing.delay)
             new    == NewFabricWindow(e, old, delay, GetTargetDelay(old, e.hops), timing.rtt,
                                       GetWindowDelta(at, e.fmarker))
         IN  /\ r.cid = e.cid /\ r.flow = e.flow /\ r.multipath = FALSE
             /\ r.fcwnd = FloatToFixed(new) /\ r.rtt = rtt
             /\ r.fmarker = GetFabricWindowTimeMarker(at, e.fmarker,
                              IF P.calc_rtt_smooth THEN rtt ELSE timing.rtt,
                              old, new, P.min_fcwnd)
             /\ \E plb : r.dstate = DelayStateInResponse(delay, plb)
BY DEF ProcessAckNack

LEMMA RetransmitFields ==
  ASSUME NEW e, NEW at
  PROVE  LET r   == ProcessRetransmit(e, at)
             old == FixedToFloat(e.fcwnd)
             new == ComputeTimeoutFabricCongestionWindow(e, old, GetWindowDelta(at, e.fmarker))
         IN  /\ r.cid = e.cid /\ r.flow = e.flow /\ r.multipath = FALSE
             /\ r.fcwnd = FloatToFixed(new) /\ r.rtt = e.rtt /\ r.dstate = e.dstate
             /\ r.fmarker = GetFabricWindowTimeMarker(at, e.fmarker, e.rtt, old, new,
                                                      P.min_fcwnd)
BY DEF ProcessRetransmit

\* With one path, the answer to an event has the event's key and values of their
\* types; a lower window is due a round trip after the marker and moves it to now,
\* and what the marker covers stays covered.
Answers(e, r, at) ==
  /\ GoodResponse(r) /\ Key(r) = Key(e)
  /\ r.fcwnd < e.fcwnd => RoundTrip(e) <= TimeBits(at - e.fmarker) /\ r.fmarker = at
  /\ \A d \in Int : d <= at /\ Covers(at, e.fmarker, d) => Covers(at, r.fmarker, d)

LEMMA AckNackAnswers ==
  ASSUME EngineAssumption, NEW e, GoodEvent(e), ~Multipath, e.type # "retransmit",
         NEW at \in 0..MaxTime
  PROVE  Answers(e, ProcessAckNack(e, at), at)
<1> DEFINE r      == ProcessAckNack(e, at)
           timing == GetPacketTiming(e)
           old    == FixedToFloat(e.fcwnd)
           rtt    == GetSmoothed(P.rtt_alpha, e.rtt, timing.rtt)
           delay  == GetSmoothed(P.delay_alpha, e.dstate, timing.delay)
           target == GetTargetDelay(old, e.hops)
           delta  == GetWindowDelta(at, e.fmarker)
           new    == NewFabricWindow(e, old, delay, target, timing.rtt, delta)
           calc   == IF P.calc_rtt_smooth THEN rtt ELSE timing.rtt
<1>1. /\ e.cid \in Conns /\ e.flow \in Flows /\ Multipath = FALSE
      /\ e.hops \in Nat /\ e.acked \in Nat /\ e.rtt \in Nat
      /\ e.fcwnd \in 0..MaxFixed /\ e.fmarker \in Int /\ GoodDelay(e.dstate) /\ at \in Int
  BY DEF GoodEvent, Multipath
<1>2. timing.rtt = TimeBits(e.t4 - e.t1) /\ timing.rtt \in Nat /\ timing.delay \in Nat
  BY TimingIs DEF GoodEvent
<1>3. delta = TimeBits(at - e.fmarker) /\ delta \in Nat
  BY <1>1, TimeBitsIs DEF GetWindowDelta
<1>4. old \in Nat /\ old \in 0..(P.max_fcwnd + Grain) /\ MaxFixed \in Nat
  BY <1>1, FixedIs
<1>5. /\ r.cid = e.cid /\ r.flow = e.flow /\ r.multipath = FALSE
      /\ r.fcwnd = FloatToFixed(new) /\ r.rtt = rtt
      /\ r.fmarker = GetFabricWindowTimeMarker(at, e.fmarker, calc, old, new, P.min_fcwnd)
      /\ \E plb : r.dstate = DelayStateInResponse(delay, plb)
  BY AckNackFields
<1> HIDE DEF r, timing
<1>6. rtt \in Nat /\ delay \in Nat
  <2>1. {P.rtt_alpha, P.delay_alpha} \subseteq 0..99
    BY ConstantsAre
  <2>2. P.delay_alpha # 0 => e.dstate \in Nat
    BY <1>1 DEF GoodDelay, EngineAssumption, SwiftAssumption, ValidParameters
  <2> QED
    BY <1>1, <1>2, <2>1, <2>2, SmoothedIs
<1>7. target \in Nat \ {0}
  BY <1>1, <1>4, TargetIs
<1> HIDE DEF old, rtt, delay, target, delta
<1>8. Follows(new, old, timing.rtt, delta)
  <2>1. e.acked \in Nat /\ timing.rtt \in Nat /\ delta \in Nat /\ old \in Nat
    BY <1>1, <1>2, <1>3, <1>4
  <2>2. Follows(NewFabricWindow(e, old, delay, target, timing.rtt, delta),
                old, timing.rtt, delta)
    BY <1>6, <1>7, <2>1, NewFabricWindowIs
  <2> QED
    BY <2>2
<1>9. calc \in Nat
  BY <1>2, <1>6
<1> HIDE DEF new, calc
<1>10. Marks(r.fmarker, at, e.fmarker, old, new)
  <2>1. Marks(GetFabricWindowTimeMarker(at, e.fmarker, calc, old, new, P.min_fcwnd),
              at, e.fmarker, old, new)
    BY <1>1, <1>9, MarkerIs
  <2> QED
    BY <1>5, <2>1
<1>11. /\ FloatToFixed(new) \in 0..MaxFixed
       /\ FloatToFixed(new) < e.fcwnd => delta >= timing.rtt /\ new < old
  BY <1>1, <1>2, <1>3, <1>8, WindowIs DEF old, Follows
<1>12. GoodDelay(r.dstate)
  BY <1>5, <1>6 DEF GoodDelay, DelayStateInResponse
<1>13. GoodResponse(r) /\ Key(r) = Key(e)
  <2>1. Key(r) = Key(e)
    BY <1>5 DEF Key
  <2> QED
    BY <1>1, <1>5, <1>6, <1>10, <1>11, <1>12, <2>1 DEF GoodResponse, Marks
<1>14. r.fcwnd < e.fcwnd => RoundTrip(e) <= TimeBits(at - e.fmarker) /\ r.fmarker = at
  BY <1>2, <1>3, <1>5, <1>10, <1>11 DEF RoundTrip, Marks
<1> QED
  BY <1>10, <1>13, <1>14 DEF Answers, Marks, r

LEMMA RetransmitAnswers ==
  ASSUME EngineAssumption, NEW e, GoodEvent(e), ~Multipath, e.type = "retransmit",
         NEW at \in 0..MaxTime
  PROVE  Answers(e, ProcessRetransmit(e, at), at)
<1> DEFINE r      == ProcessRetransmit(e, at)
           old    == FixedToFloat(e.fcwnd)
           delta  == GetWindowDelta(at, e.fmarker)
           new    == ComputeTimeoutFabricCongestionWindow(e, old, delta)
<1>1. /\ e.cid \in Conns /\ e.flow \in Flows /\ Multipath = FALSE /\ e.rtt \in Nat
      /\ e.fcwnd \in 0..MaxFixed /\ e.fmarker \in Int /\ GoodDelay(e.dstate) /\ at \in Int
  BY DEF GoodEvent, Multipath
<1>3. delta = TimeBits(at - e.fmarker) /\ delta \in Nat
  BY <1>1, TimeBitsIs DEF GetWindowDelta
<1>4. old \in Nat /\ MaxFixed \in Nat
  BY <1>1, FixedIs
<1>5. /\ r.cid = e.cid /\ r.flow = e.flow /\ r.multipath = FALSE
      /\ r.fcwnd = FloatToFixed(new) /\ r.rtt = e.rtt /\ r.dstate = e.dstate
      /\ r.fmarker = GetFabricWindowTimeMarker(at, e.fmarker, e.rtt, old, new, P.min_fcwnd)
  BY RetransmitFields
<1> HIDE DEF r, old, delta
<1>8. Follows(new, old, e.rtt, delta)
  BY <1>1, <1>3, <1>4, TimeoutWindowIs
<1> HIDE DEF new
<1>10. Marks(r.fmarker, at, e.fmarker, old, new)
  <2>1. Marks(GetFabricWindowTimeMarker(at, e.fmarker, e.rtt, old, new, P.min_fcwnd),
              at, e.fmarker, old, new)
    BY <1>1, MarkerIs
  <2> QED
    BY <1>5, <2>1
<1>11. /\ FloatToFixed(new) \in 0..MaxFixed
       /\ FloatToFixed(new) < e.fcwnd => delta >= e.rtt /\ new < old
  BY <1>1, <1>3, <1>8, WindowIs DEF old, Follows
<1>13. GoodResponse(r) /\ Key(r) = Key(e)
  <2>1. Key(r) = Key(e)
    BY <1>5 DEF Key
  <2> QED
    BY <1>1, <1>5, <1>10, <1>11, <2>1 DEF GoodResponse, Marks
<1>14. r.fcwnd < e.fcwnd => RoundTrip(e) <= TimeBits(at - e.fmarker) /\ r.fmarker = at
  BY <1>3, <1>5, <1>10, <1>11 DEF RoundTrip, Marks
<1> QED
  BY <1>10, <1>13, <1>14 DEF Answers, Marks, r
-----------------------------------------------------------------------------
(* The windows of a connection's flows. *)

Tokens(windows) == UNION {{f} \X (1..windows[f]) : f \in Flows}

LEMMA TotalIs ==
  ASSUME EngineAssumption, NEW windows \in [Flows -> 0..MaxFixed]
  PROVE  TotalWindow(windows) \in Nat
<1>1. IsFiniteSet(Flows) /\ MaxFixed \in Nat
  BY FixedIs DEF EngineAssumption, SwiftAssumption
<1>2. IsFiniteSet(1..MaxFixed)
  BY <1>1, FS_Interval
<1>3. IsFiniteSet(Flows \X (1..MaxFixed))
  BY <1>1, <1>2, FS_Product
<1>4. Tokens(windows) \subseteq Flows \X (1..MaxFixed)
  <2>1. \A f \in Flows : windows[f] <= MaxFixed /\ windows[f] \in Nat
    BY <1>1
  <2>2. \A f \in Flows : (1..windows[f]) \subseteq (1..MaxFixed)
    BY <1>1, <2>1
  <2> QED
    BY <2>2 DEF Tokens
<1>5. IsFiniteSet(Tokens(windows))
  BY <1>3, <1>4, FS_Subset
<1> QED
  BY <1>5, FS_CardinalityType DEF TotalWindow, Tokens

LEMMA EqualShares ==
  ASSUME EngineAssumption, NEW share \in Nat
  PROVE  TotalWindow([f \in Flows |-> share]) = Cardinality(Flows) * share
<1> DEFINE windows == [f \in Flows |-> share]
<1>1. IsFiniteSet(Flows)
  BY DEF EngineAssumption, SwiftAssumption
<1>2. IsFiniteSet(1..share) /\ Cardinality(1..share) = share
  BY FS_Interval
<1>3. Cardinality(Flows \X (1..share)) = Cardinality(Flows) * share
  BY <1>1, <1>2, FS_Product
<1>4. Tokens(windows) = Flows \X (1..share)
  <2>1. \A f \in Flows : windows[f] = share
    OBVIOUS
  <2> HIDE DEF windows
  <2> QED
    BY <2>1 DEF Tokens
<1> QED
  BY <1>3, <1>4 DEF TotalWindow, Tokens

\* The connection's window is within its bounds, and every flow has a weight.
LEMMA WholeIs ==
  ASSUME EngineAssumption, NEW windows \in [Flows -> 0..MaxFixed]
  PROVE  /\ ConnectionWindow(windows) \in P.min_fcwnd..P.max_fcwnd
         /\ FloatToFixed(ConnectionWindow(windows)) \in 0..MaxFixed
         /\ FlowWeights(windows)[0] > 0
<1> DEFINE total == TotalWindow(windows)
           whole == ConnectionWindow(windows)
           w     == FixedToFloat(windows[0])
<1>1. /\ {P.min_fcwnd, P.max_fcwnd, MaxWeight} \subseteq Nat /\ 1 <= P.min_fcwnd
      /\ MaxWeight # 0 /\ 0 \in Flows
  BY ConstantsAre DEF EngineAssumption, SwiftAssumption
<1>2. total \in Nat
  BY TotalIs
<1> HIDE DEF total
<1>3. whole \in P.min_fcwnd..P.max_fcwnd
  <2>1. FixedToFloat(total) \in Int
    BY <1>2, FixedIs
  <2> QED
    BY <2>1, ClampFabricIs DEF ConnectionWindow, total
<1>4. FloatToFixed(whole) \in 0..MaxFixed
  <2>1. whole \in Nat /\ whole <= P.max_fcwnd
    BY <1>1, <1>3
  <2> QED
    BY <1>1, <2>1, FixedIs DEF MaxFixed
<1>5. w \in Nat
  <2>1. windows[0] \in 0..MaxFixed /\ MaxFixed \in Nat
    BY <1>1, FixedIs
  <2>2. windows[0] \in Nat
    BY <2>1
  <2> QED
    BY <2>2, FixedIs
<1>6. FlowWeights(windows)[0] = ComputeFlowWeight(w, whole)
  BY <1>1 DEF FlowWeights
<1> HIDE DEF whole, w
<1>7. ComputeFlowWeight(w, whole) > 0
  <2> DEFINE a == 2 * MaxWeight * w + whole
             c == 2 * whole
  <2>1. whole \in Nat \ {0}
    BY <1>1, <1>3
  <2>2. a \in Nat
    <3>1. 2 * MaxWeight \in Nat
      BY <1>1
    <3>2. 2 * MaxWeight * w \in Nat
      BY <1>5, <3>1, ProductNat
    <3> QED
      BY <2>1, <3>2
  <2>3. c \in Nat \ {0}
    BY <2>1
  <2> HIDE DEF a, c
  <2>4. a \div c \in Int
    BY <2>2, <2>3, QuotientNat
  <2>5. Clamp(a \div c, 1, MaxWeight) > 0
    <3> DEFINE x == a \div c
    <3> HIDE DEF x
    <3>1. x \in Int
      BY <2>4 DEF x
    <3>2. Clamp(x, 1, MaxWeight) = IF x > MaxWeight THEN MaxWeight ELSE IF x < 1 THEN 1 ELSE x
      BY <1>1, <3>1, ClampIs
    <3>3. Clamp(x, 1, MaxWeight) > 0
      BY <1>1, <3>1, <3>2
    <3> QED
      BY <3>3 DEF x
  <2> QED
    BY <2>5 DEF ComputeFlowWeight, a, c
<1> QED
  BY <1>3, <1>4, <1>6, <1>7 DEF whole
-----------------------------------------------------------------------------
(* An event of a connection with several flows. *)

GoodFlow(f) == f.marker \in Int /\ f.rtt \in Nat /\ "marker" \in DOMAIN f

GoodMemory(s) ==
  /\ s.fcwnd \in [Flows -> 0..MaxFixed]
  /\ DOMAIN s.flows = Flows \ {0}
  /\ \A f \in Flows \ {0} : GoodFlow(s.flows[f])

\* The response of an event of such a connection, and the memory after it.
AnswersFlow(e, result) ==
  /\ GoodMemory(result.state) /\ GoodResponse(result.response)
  /\ Key(result.response) = Key(e)
  /\ result.response.fcwnd = FloatToFixed(ConnectionWindow(result.state.fcwnd))

LEMMA FlowStateIs ==
  ASSUME NEW e, GoodEvent(e), NEW s, GoodMemory(s)
  PROVE  GoodFlow(FlowState(e, s))
<1>1. e.flow \in Flows /\ e.fmarker \in Int /\ e.rtt \in Nat
  BY DEF GoodEvent
<1>2. CASE e.flow = 0
  <2>1. FlowState(e, s) = [marker |-> e.fmarker, rtt |-> e.rtt, plb |-> e.plb]
    BY <1>2 DEF FlowState
  <2> QED
    BY <1>1, <2>1 DEF GoodFlow
<1>3. CASE e.flow # 0
  BY <1>1, <1>3 DEF FlowState, GoodMemory
<1> QED
  BY <1>2, <1>3

LEMMA MultipathIs ==
  ASSUME EngineAssumption, NEW e, GoodEvent(e), Multipath, NEW s, GoodMemory(s),
         NEW fcwnd, FloatToFixed(fcwnd) \in 0..MaxFixed, NEW new, GoodFlow(new), NEW rtts,
         NEW ncwnd, NEW guard, NEW dstate, GoodDelay(dstate), NEW alphas, NEW reroute
  PROVE  AnswersFlow(e, MultipathResult(e, s, fcwnd, new, rtts, ncwnd, guard, dstate, alphas,
                                        reroute))
<1> DEFINE result == MultipathResult(e, s, fcwnd, new, rtts, ncwnd, guard, dstate, alphas,
                                     reroute)
           m == result.state
           r == result.response
<1>1. /\ e.cid \in Conns /\ e.flow \in Flows /\ e.fmarker \in Int /\ e.rtt \in Nat
      /\ Multipath = TRUE /\ 0 \in Flows
  BY DEF GoodEvent, Multipath, EngineAssumption, SwiftAssumption
<1>2. /\ m.fcwnd = [s.fcwnd EXCEPT ![e.flow] = FloatToFixed(fcwnd)]
      /\ m.flows = IF e.flow = 0 THEN s.flows ELSE [s.flows EXCEPT ![e.flow] = new]
      /\ r.cid = e.cid /\ r.flow = e.flow /\ r.multipath = TRUE
      /\ r.fcwnd = FloatToFixed(ConnectionWindow(m.fcwnd))
      /\ r.fmarker = IF e.flow = 0 THEN new.marker ELSE e.fmarker
      /\ r.rtt = IF e.flow = 0 THEN new.rtt ELSE e.rtt
      /\ r.dstate = dstate /\ r.weights = FlowWeights(m.fcwnd)
  BY DEF MultipathResult
<1> HIDE DEF result
<1>3. m.fcwnd \in [Flows -> 0..MaxFixed]
  BY <1>1, <1>2 DEF GoodMemory
<1>4. DOMAIN m.flows = Flows \ {0} /\ \A f \in Flows \ {0} : GoodFlow(m.flows[f])
  BY <1>1, <1>2 DEF GoodMemory
<1>5. r.fmarker \in Int /\ r.rtt \in Nat
  BY <1>1, <1>2 DEF GoodFlow
<1>6. r.fcwnd \in 0..MaxFixed /\ r.weights[0] > 0
  BY <1>2, <1>3, WholeIs
<1>7. Key(r) = Key(e)
  BY <1>2 DEF Key
<1>8. GoodResponse(r)
  BY <1>1, <1>2, <1>5, <1>6 DEF GoodResponse
<1>9. GoodMemory(m)
  BY <1>3, <1>4 DEF GoodMemory
<1> QED
  BY <1>2, <1>7, <1>8, <1>9 DEF AnswersFlow, result

LEMMA AckNackAnswersFlow ==
  ASSUME EngineAssumption, NEW e, GoodEvent(e), Multipath, NEW s, GoodMemory(s),
         NEW at \in 0..MaxTime
  PROVE  AnswersFlow(e, ProcessAckNackMultipath(e, s, at))
<1> DEFINE flow   == FlowState(e, s)
           timing == GetPacketTiming(e)
           rtt    == GetSmoothed(P.rtt_alpha, flow.rtt, timing.rtt)
           calc   == IF P.calc_rtt_smooth THEN rtt ELSE timing.rtt
           old    == FixedToFloat(s.fcwnd[e.flow])
           target == GetTargetDelay(old, e.hops)
           delta  == GetWindowDelta(at, flow.marker)
           fcwnd  == NewFabricWindow(e, old, timing.delay, target, timing.rtt, delta)
           ncwnd  == NewNicWindow(e, FloatNcwnd(e), GetWindowDelta(at, e.nmarker), timing.rtt)
           plb    == ComputePlb(e, timing.delay, target, flow.plb, Min({old, FloatNcwnd(e)}))
           marker == GetFabricWindowTimeMarker(at, flow.marker, calc, old, fcwnd, P.min_fcwnd)
           new    == [marker |-> marker, rtt |-> rtt, plb |-> plb.plb]
           guard  == NicWindowGuard(e, at, calc, FloatNcwnd(e), ncwnd)
           rtts   == [Rtts(e, s) EXCEPT ![e.flow] = rtt]
           alphas == BackpressureAlphas(e, timing.delay, target)
<1>1. /\ e.flow \in Flows /\ e.hops \in Nat /\ e.acked \in Nat /\ at \in Int
      /\ {e.t1, e.t2, e.t3, e.t4} \subseteq Int
  BY DEF GoodEvent
<1>2. timing.rtt \in Nat /\ timing.delay \in Nat
  BY <1>1, TimingIs
<1>3. flow.marker \in Int /\ flow.rtt \in Nat
  BY FlowStateIs DEF GoodFlow
<1>4. old \in Nat /\ old \in 0..(P.max_fcwnd + Grain)
  <2>1. s.fcwnd[e.flow] \in 0..MaxFixed /\ MaxFixed \in Nat
    BY <1>1, FixedIs DEF GoodMemory
  <2>2. s.fcwnd[e.flow] \in Nat
    BY <2>1
  <2> QED
    BY <2>1, <2>2, FixedIs
<1>5. ProcessAckNackMultipath(e, s, at)
        = MultipathResult(e, s, fcwnd, new, rtts, ncwnd, guard, 0, alphas, plb.reroute)
  BY DEF ProcessAckNackMultipath
<1> HIDE DEF flow, timing
<1>6. rtt \in Nat
  <2>1. P.rtt_alpha \in 0..99
    BY ConstantsAre
  <2> QED
    BY <1>2, <1>3, <2>1, SmoothedIs
<1>7. calc \in Nat /\ delta \in Nat
  BY <1>1, <1>2, <1>3, <1>6, TimeBitsIs DEF GetWindowDelta
<1> HIDE DEF old, rtt, calc, delta
<1>8. target \in Nat \ {0}
  BY <1>1, <1>4, TargetIs
<1> HIDE DEF target
<1>9. fcwnd \in P.min_fcwnd..P.max_fcwnd
  BY <1>1, <1>2, <1>4, <1>7, <1>8, NewFabricWindowIs DEF Follows
<1> HIDE DEF fcwnd
<1>10. FloatToFixed(fcwnd) \in 0..MaxFixed
  <2>1. {P.min_fcwnd, P.max_fcwnd} \subseteq Nat
    BY ConstantsAre
  <2>2. fcwnd \in Nat /\ fcwnd <= P.max_fcwnd
    BY <1>9, <2>1
  <2> QED
    BY <2>1, <2>2, FixedIs DEF MaxFixed
<1>11. marker \in Int
  BY <1>1, <1>3, <1>7, MarkerIs DEF Marks
<1> HIDE DEF marker, plb, guard, rtts, alphas, ncwnd
<1>12. GoodFlow(new)
  BY <1>6, <1>11 DEF GoodFlow
<1>13. GoodDelay(0)
  BY DEF GoodDelay
<1> HIDE DEF new
<1> QED
  BY <1>5, <1>10, <1>12, <1>13, MultipathIs

LEMMA RetransmitAnswersFlow ==
  ASSUME EngineAssumption, NEW e, GoodEvent(e), Multipath, NEW s, GoodMemory(s),
         NEW at \in 0..MaxTime
  PROVE  AnswersFlow(e, ProcessRetransmitMultipath(e, s, at))
<1> DEFINE flow   == FlowState(e, s)
           old    == FixedToFloat(s.fcwnd[e.flow])
           delta  == GetWindowDelta(at, flow.marker)
           fcwnd  == ComputeTimeoutFabricCongestionWindow(e, old, delta)
           marker == GetFabricWindowTimeMarker(at, flow.marker, flow.rtt, old, fcwnd,
                                               P.min_fcwnd)
           new    == [flow EXCEPT !.marker = marker]
           guard  == [time |-> e.nmarker, dir |-> "decrease"]
           result == MultipathResult(e, s, fcwnd, new, Rtts(e, s), ClampNic(FloatNcwnd(e)),
                                     guard, e.dstate, RetransmitAlphas, FALSE)
           ours   == ProcessRetransmitMultipath(e, s, at)
<1>1. /\ e.flow \in Flows /\ e.rtt \in Nat /\ GoodDelay(e.dstate) /\ at \in Int
  BY DEF GoodEvent
<1>2. GoodFlow(flow) /\ flow.marker \in Int /\ flow.rtt \in Nat
  BY FlowStateIs DEF GoodFlow
<1>3. old \in Nat
  <2>1. s.fcwnd[e.flow] \in 0..MaxFixed /\ MaxFixed \in Nat
    BY <1>1, FixedIs DEF GoodMemory
  <2>2. s.fcwnd[e.flow] \in Nat
    BY <2>1
  <2> QED
    BY <2>2, FixedIs
<1>4. ours = [result EXCEPT !.response.ncwnd = e.ncwnd]
  BY DEF ProcessRetransmitMultipath
<1>5. DOMAIN result = {"state", "response"}
  BY DEF MultipathResult
<1> HIDE DEF flow
<1>6. delta \in Nat
  BY <1>1, <1>2, TimeBitsIs DEF GetWindowDelta
<1> HIDE DEF old, delta
<1>7. fcwnd \in P.min_fcwnd..P.max_fcwnd
  BY <1>1, <1>3, <1>6, TimeoutWindowIs DEF Follows
<1> HIDE DEF fcwnd
<1>8. FloatToFixed(fcwnd) \in 0..MaxFixed
  <2>1. {P.min_fcwnd, P.max_fcwnd} \subseteq Nat
    BY ConstantsAre
  <2>2. fcwnd \in Nat /\ fcwnd <= P.max_fcwnd
    BY <1>7, <2>1
  <2> QED
    BY <2>1, <2>2, FixedIs DEF MaxFixed
<1>9. marker \in Int
  BY <1>1, <1>2, MarkerIs DEF Marks
<1> HIDE DEF marker
<1>10. GoodFlow(new)
  BY <1>2, <1>9 DEF GoodFlow
<1> HIDE DEF new
<1>11. AnswersFlow(e, result)
  BY <1>1, <1>8, <1>10, MultipathIs
<1> HIDE DEF result, ours
<1>12. /\ ours.state = result.state
       /\ ours.response = [result.response EXCEPT !.ncwnd = e.ncwnd]
  BY <1>4, <1>5
<1> DEFINE r == result.response
           q == [r EXCEPT !.ncwnd = e.ncwnd]
<1>13. /\ q.cid = r.cid /\ q.flow = r.flow /\ q.multipath = r.multipath /\ q.fcwnd = r.fcwnd
       /\ q.fmarker = r.fmarker /\ q.rtt = r.rtt /\ q.dstate = r.dstate
       /\ q.weights = r.weights
  BY DEF result, MultipathResult
<1>14. GoodMemory(ours.state) /\ ours.response = q
  BY <1>11, <1>12 DEF AnswersFlow
<1>15. /\ GoodResponse(r) /\ Key(r) = Key(e)
       /\ r.fcwnd = FloatToFixed(ConnectionWindow(result.state.fcwnd))
  BY <1>11 DEF AnswersFlow
<1> HIDE DEF q, r
<1>16. GoodResponse(q) /\ Key(q) = Key(e)
  BY <1>13, <1>15 DEF GoodResponse, Key
<1> QED
  BY <1>12, <1>13, <1>14, <1>15, <1>16 DEF AnswersFlow, ours

LEMMA ProcessIs ==
  ASSUME EngineAssumption, NEW e, GoodEvent(e), NEW s, GoodMemory(s), NEW at \in 0..MaxTime
  PROVE  LET result == Process(e, s, at)
             r      == result.response
         IN  /\ GoodMemory(result.state) /\ GoodResponse(r) /\ Key(r) = Key(e)
             /\ Multipath => r.fcwnd = FloatToFixed(ConnectionWindow(result.state.fcwnd))
             /\ ~Multipath => result.state = s /\ Answers(e, r, at)
<1> DEFINE result == Process(e, s, at)
           r      == result.response
<1>1. CASE Multipath
  <2>1. e.multipath = TRUE
    BY <1>1 DEF GoodEvent, Multipath
  <2>2. AnswersFlow(e, result)
    <3>1. CASE e.type = "retransmit"
      <4>1. result = ProcessRetransmitMultipath(e, s, at)
        BY <2>1, <3>1 DEF Process
      <4> QED
        BY <1>1, <4>1, RetransmitAnswersFlow
    <3>2. CASE e.type # "retransmit"
      <4>1. result = ProcessAckNackMultipath(e, s, at)
        BY <2>1, <3>2 DEF Process
      <4> QED
        BY <1>1, <4>1, AckNackAnswersFlow
    <3> QED
      BY <3>1, <3>2
  <2> HIDE DEF result
  <2> QED
    BY <1>1, <2>2 DEF AnswersFlow, result
<1>2. CASE ~Multipath
  <2>1. e.multipath = FALSE
    BY <1>2 DEF GoodEvent, Multipath
  <2>2. result.state = s /\ Answers(e, r, at)
    <3>1. CASE e.type = "retransmit"
      <4>1. result = [state |-> s, response |-> ProcessRetransmit(e, at)]
        BY <2>1, <3>1 DEF Process
      <4> QED
        BY <1>2, <3>1, <4>1, RetransmitAnswers
    <3>2. CASE e.type # "retransmit"
      <4>1. result = [state |-> s, response |-> ProcessAckNack(e, at)]
        BY <2>1, <3>2 DEF Process
      <4> QED
        BY <1>2, <3>2, <4>1, AckNackAnswers
    <3> QED
      BY <3>1, <3>2
  <2> HIDE DEF result
  <2> QED
    BY <1>2, <2>2 DEF Answers, result
<1> QED
  BY <1>1, <1>2
-----------------------------------------------------------------------------
(* The metadata, the events made of it and the responses put into it. *)

GoodMetadata(m) ==
  /\ {"fcwnd", "fmarker", "rtt", "dstate", "weights"} \subseteq DOMAIN m
  /\ m.fcwnd \in 0..MaxFixed /\ m.fmarker \in Int /\ m.rtt \in Nat /\ GoodDelay(m.dstate)
  /\ \E f \in Flows : m.weights[f] > 0

LEMMA UpdateIs ==
  ASSUME NEW m, GoodMetadata(m), NEW r, GoodResponse(r), NEW label
  PROVE  LET new == UpdateConnectionStateFromResponse(m, r, label)
         IN  GoodMetadata(new) /\ new.fcwnd = r.fcwnd /\ new.fmarker = r.fmarker
<1> DEFINE new == UpdateConnectionStateFromResponse(m, r, label)
<1>1. /\ DOMAIN new = DOMAIN m
      /\ {"fcwnd", "fmarker", "rtt", "dstate", "weights"} \subseteq DOMAIN m
  BY DEF UpdateConnectionStateFromResponse, GoodMetadata
<1>2. /\ new.fcwnd = r.fcwnd /\ new.fmarker = r.fmarker /\ new.rtt = r.rtt
      /\ new.dstate = r.dstate /\ new.weights = IF r.multipath THEN r.weights ELSE m.weights
  BY <1>1 DEF UpdateConnectionStateFromResponse
<1> HIDE DEF new
<1>3. r.multipath = Multipath /\ Multipath \in BOOLEAN
  BY DEF GoodResponse, Multipath
<1>4. \E f \in Flows : new.weights[f] > 0
  BY <1>2, <1>3 DEF GoodResponse, GoodMetadata
<1>5. GoodMetadata(new)
  BY <1>1, <1>2, <1>4 DEF GoodResponse, GoodMetadata
<1> QED
  BY <1>2, <1>5 DEF new

\* What every event says of the metadata.
Snapshot(k, e) ==
  /\ Key(e) = k /\ e.multipath = Multipath
  /\ e.fcwnd = meta[k[1]].fcwnd /\ e.fmarker = meta[k[1]].fmarker
  /\ e.rtt = meta[k[1]].rtt /\ e.dstate = meta[k[1]].dstate

Filled(k, e) == GoodEvent(e) /\ Snapshot(k, e)

LEMMA SnapshotIsFilled ==
  ASSUME NEW k \in Keys, GoodMetadata(meta[k[1]]), NEW e, Snapshot(k, e),
         {e.t1, e.t2, e.t3, e.t4} \subseteq Int, e.hops \in Nat, e.acked \in Nat
  PROVE  Filled(k, e)
<1>1. k[1] \in Conns /\ k[2] \in Flows
  BY DEF Keys
<1>2. e.cid = k[1] /\ e.flow = k[2]
  BY DEF Snapshot, Key
<1> QED
  BY <1>1, <1>2 DEF Filled, Snapshot, GoodEvent, GoodMetadata

LEMMA PacketEventIs ==
  ASSUME NEW k \in Keys, NEW type, NEW p
  PROVE  LET e == PacketEvent(k, type, p)
         IN  /\ Snapshot(k, e) /\ {"eack_drop", "nack"} \subseteq DOMAIN e
             /\ e.t1 = now - (p.out + p.hold + p.back) /\ e.t2 = now - (p.hold + p.back)
             /\ e.t3 = now - p.back /\ e.t4 = now /\ e.hops = p.hops
             /\ e.acked = SaturateHigh(MaxReported, acked[k])
<1>1. k = <<k[1], k[2]>>
  BY DEF Keys
<1> QED
  BY <1>1 DEF PacketEvent, SnapshotEvent, Snapshot, Key

LEMMA PacketEventIsFilled ==
  ASSUME EngineAssumption, NEW k \in Keys, GoodMetadata(meta[k[1]]), now \in 0..MaxTime,
         acked[k] \in Nat, NEW type, NEW p \in Paths
  PROVE  Filled(k, PacketEvent(k, type, p))
<1> DEFINE e == PacketEvent(k, type, p)
<1>1. /\ p.out \in Nat /\ p.hold \in Nat /\ p.back \in Nat /\ p.hops \in Nat
      /\ MaxReported \in Nat /\ now \in Int
  BY DEF EngineAssumption
<1>2. /\ Snapshot(k, e)
      /\ e.t1 = now - (p.out + p.hold + p.back) /\ e.t2 = now - (p.hold + p.back)
      /\ e.t3 = now - p.back /\ e.t4 = now /\ e.hops = p.hops
      /\ e.acked = SaturateHigh(MaxReported, acked[k])
  BY PacketEventIs
<1> HIDE DEF e
<1>3. e.acked \in Nat
  BY <1>1, <1>2, PairMin DEF SaturateHigh
<1>4. {e.t1, e.t2, e.t3, e.t4} \subseteq Int /\ e.hops \in Nat
  BY <1>1, <1>2
<1>5. Filled(k, e)
  BY <1>2, <1>3, <1>4, SnapshotIsFilled
<1> QED
  BY <1>5 DEF e

\* Neither the kind of an ACK or NACK nor a timeout's count changes that.
LEMMA EventsAreFilled ==
  ASSUME EngineAssumption, NEW k \in Keys, GoodMetadata(meta[k[1]]), now \in 0..MaxTime,
         acked[k] \in Nat
  PROVE  /\ \A p \in Paths : \A drop : Filled(k, FillExplicitAckEvent(k, p, drop))
         /\ \A p \in Paths : \A code : Filled(k, FillNackEvent(k, p, code))
         /\ \A count : Filled(k, FillTimeoutRetransmittedEvent(k, count))
<1>1. ASSUME NEW p \in Paths, NEW drop PROVE Filled(k, FillExplicitAckEvent(k, p, drop))
  <2> DEFINE e == PacketEvent(k, "ack", p)
             new == [e EXCEPT !.eack_drop = drop]
  <2>1. Filled(k, e)
    BY PacketEventIsFilled
  <2> HIDE DEF e
  <2>2. Filled(k, new)
    BY <2>1 DEF Filled, GoodEvent, Snapshot, Key
  <2> QED
    BY <2>2 DEF FillExplicitAckEvent, e
<1>2. ASSUME NEW p \in Paths, NEW code PROVE Filled(k, FillNackEvent(k, p, code))
  <2> DEFINE e == PacketEvent(k, "nack", p)
             new == [e EXCEPT !.nack = code]
  <2>1. Filled(k, e)
    BY PacketEventIsFilled
  <2> HIDE DEF e
  <2>2. Filled(k, new)
    BY <2>1 DEF Filled, GoodEvent, Snapshot, Key
  <2> QED
    BY <2>2 DEF FillNackEvent, e
<1>3. ASSUME NEW count PROVE Filled(k, FillTimeoutRetransmittedEvent(k, count))
  <2> DEFINE e == FillTimeoutRetransmittedEvent(k, count)
  <2>1. k = <<k[1], k[2]>>
    BY DEF Keys
  <2>2. Snapshot(k, e)
    BY <2>1 DEF FillTimeoutRetransmittedEvent, SnapshotEvent, Snapshot, Key
  <2>3. {e.t1, e.t2, e.t3, e.t4} \subseteq Int /\ e.hops \in Nat /\ e.acked \in Nat
    BY DEF FillTimeoutRetransmittedEvent, SnapshotEvent
  <2> HIDE DEF e
  <2>4. Filled(k, e)
    BY <2>2, <2>3, SnapshotIsFilled
  <2> QED
    BY <2>4 DEF e
<1> QED
  BY <1>1, <1>2, <1>3
-----------------------------------------------------------------------------
(* The invariant. *)

EngineTypes ==
  /\ now \in 0..MaxTime /\ acked \in [Keys -> Nat] /\ outstanding \in [Keys -> BOOLEAN]
  /\ IsSeq(events) /\ \A e \in Entries(events) : GoodEvent(e)
  /\ IsSeq(responses) /\ \A r \in Entries(responses) : GoodResponse(r)
  /\ DOMAIN meta = Conns /\ \A c \in Conns : GoodMetadata(meta[c])
  /\ DOMAIN rue = Conns /\ \A c \in Conns : GoodMemory(rue[c])
  /\ decreasedAt \in [Keys -> Int] /\ \A k \in Keys : decreasedAt[k] <= now

\* The window of a connection, as the engine remembers its flows.
Whole(c) == FloatToFixed(ConnectionWindow(rue[c].fcwnd))

\* The last answer of a connection under way says the connection's window; so do
\* the metadata when there is none.
Latest(s, c, i) ==
  /\ i \in 1..Len(s) /\ s[i].cid = c
  /\ \A j \in 1..Len(s) : j > i => s[j].cid # c

WholeTracked ==
  Multipath =>
    \A c \in Conns :
      /\ (\A r \in Entries(responses) : r.cid # c) => meta[c].fcwnd = Whole(c)
      /\ \A i : Latest(responses, c, i) => responses[i].fcwnd = Whole(c)

\* With one path, the marker in use covers the last decrease: that of the event
\* or the answer under way, or of the metadata when there is neither.
Covered ==
  ~Multipath =>
    \A k \in Keys :
      /\ ~outstanding[k] => Covers(now, meta[k[1]].fmarker, decreasedAt[k])
      /\ \A x \in Entries(events) \cup Entries(responses) :
           Key(x) = k => Covers(now, x.fmarker, decreasedAt[k])

EngineIInv == EngineTypes /\ EventsAccounted /\ WholeTracked /\ Covered

\* What the steps of the engine do to that.
Quiet ==
  /\ now' \in 0..MaxTime /\ now <= now' /\ acked' \in [Keys -> Nat]
  /\ UNCHANGED <<meta, outstanding, events, responses, scheduled, callbacks, rue, decreasedAt>>

Queued(k, e) ==
  /\ ~outstanding[k] /\ acked' \in [Keys -> Nat]
  /\ outstanding' = [outstanding EXCEPT ![k] = TRUE]
  /\ events' = Append(events, e) /\ scheduled' = TRUE
  /\ UNCHANGED <<now, meta, responses, callbacks, rue, decreasedAt>>

Emptied ==
  /\ events = <<>> /\ scheduled' = FALSE
  /\ UNCHANGED <<now, meta, acked, outstanding, events, responses, callbacks, rue, decreasedAt>>

Processed ==
  /\ events # <<>> /\ scheduled
  /\ LET e == Head(events)
         result == Process(e, rue[e.cid], now)
     IN  /\ responses' = Append(responses, result.response)
         /\ rue' = [rue EXCEPT ![e.cid] = result.state]
         /\ decreasedAt' = IF Decreases(e) THEN [decreasedAt EXCEPT ![<<e.cid, e.flow>>] = now]
                           ELSE decreasedAt
  /\ events' = Tail(events) /\ callbacks' = callbacks + 1
  /\ UNCHANGED <<now, meta, acked, outstanding, scheduled>>

LEMMA CountUpdated ==
  ASSUME NEW f \in [Keys -> Nat], NEW k \in Keys, NEW n \in Nat
  PROVE  [f EXCEPT ![k] = n] \in [Keys -> Nat]
OBVIOUS

LEMMA PacketReceivedSteps ==
  ASSUME EngineTypes, NEW k \in Keys, NEW e, PacketReceived(k, e)
  PROVE  Quiet \/ Queued(k, e)
<1>1. now \in 0..MaxTime /\ acked \in [Keys -> Nat]
  BY DEF EngineTypes
<1>2. CASE CanEnqueueEvent(k, acked[k])
  <2>1. ~outstanding[k]
    BY <1>2 DEF CanEnqueueEvent
  <2>2. EnqueueEvent(k, e) /\ acked' = [acked EXCEPT ![k] = 0]
    BY <1>2 DEF PacketReceived
  <2>3. acked' \in [Keys -> Nat]
    BY <1>1, <2>2, CountUpdated
  <2> QED
    BY <2>1, <2>2, <2>3 DEF EnqueueEvent, PacketReceived, Queued
<1>3. CASE ~CanEnqueueEvent(k, acked[k])
  <2>1. UNCHANGED <<outstanding, events, scheduled, acked, now, meta, responses, callbacks,
                    rue, decreasedAt>>
    BY <1>3 DEF PacketReceived
  <2>2. now \in Int /\ now' \in 0..MaxTime /\ now <= now' /\ acked' \in [Keys -> Nat]
    BY <1>1, <2>1
  <2> QED
    BY <2>1, <2>2 DEF Quiet
<1> QED
  BY <1>2, <1>3

LEMMA TimeoutSteps ==
  ASSUME EngineTypes, NEW k \in Keys, NEW count, HandlePacketTimeoutRetransmitted(k, count)
  PROVE  Quiet \/ Queued(k, FillTimeoutRetransmittedEvent(k, Min({count, 6})))
<1>1. now \in 0..MaxTime /\ acked \in [Keys -> Nat]
  BY DEF EngineTypes
<1>2. acked' \in [Keys -> Nat]
  <2>1. acked' = [acked EXCEPT ![k] = 0]
    BY DEF HandlePacketTimeoutRetransmitted
  <2> QED
    BY <1>1, <2>1, CountUpdated
<1>3. CASE CanEnqueueEvent(k, 0)
  <2>1. ~outstanding[k]
    BY <1>3 DEF CanEnqueueEvent
  <2>2. EnqueueEvent(k, FillTimeoutRetransmittedEvent(k, Min({count, 6})))
    BY <1>3 DEF HandlePacketTimeoutRetransmitted
  <2> QED
    BY <1>2, <2>1, <2>2 DEF EnqueueEvent, HandlePacketTimeoutRetransmitted, Queued
<1>4. CASE ~CanEnqueueEvent(k, 0)
  <2>1. UNCHANGED <<outstanding, events, scheduled, now, meta, responses, callbacks,
                    rue, decreasedAt>>
    BY <1>4 DEF HandlePacketTimeoutRetransmitted
  <2>2. now \in Int /\ now' \in 0..MaxTime /\ now <= now'
    BY <1>1, <2>1
  <2> QED
    BY <1>2, <2>1, <2>2 DEF Quiet
<1> QED
  BY <1>3, <1>4

LEMMA EngineSteps ==
  ASSUME EngineAssumption, EngineTypes, [EngineNext]_engineVars
  PROVE  \/ Quiet
         \/ \E k \in Keys : \E e : Filled(k, e) /\ Queued(k, e)
         \/ Emptied
         \/ Processed
         \/ \E label \in Labels : HandleNextResponse(label)
<1>1. /\ now \in 0..MaxTime /\ acked \in [Keys -> Nat]
      /\ \A c \in Conns : GoodMetadata(meta[c])
  BY DEF EngineTypes
<1>2. ASSUME NEW k \in Keys
      PROVE  /\ \A p \in Paths : \A drop : Filled(k, FillExplicitAckEvent(k, p, drop))
             /\ \A p \in Paths : \A code : Filled(k, FillNackEvent(k, p, code))
             /\ \A count : Filled(k, FillTimeoutRetransmittedEvent(k, count))
  <2>1. GoodMetadata(meta[k[1]]) /\ acked[k] \in Nat
    BY <1>1 DEF Keys
  <2> QED
    BY <1>1, <2>1, EventsAreFilled
<1>3. CASE UNCHANGED engineVars
  <2>1. now' \in 0..MaxTime /\ now <= now' /\ acked' \in [Keys -> Nat]
    BY <1>1, <1>3 DEF engineVars
  <2> QED
    BY <1>3, <2>1 DEF engineVars, Quiet
<1>4. ASSUME NEW k \in Keys, AccumulateNumAcked(k) PROVE Quiet
  <2>1. acked[k] + 1 \in Nat
    BY <1>1
  <2>2. acked' = [acked EXCEPT ![k] = acked[k] + 1]
    BY <1>4 DEF AccumulateNumAcked
  <2>3. acked' \in [Keys -> Nat]
    BY <1>1, <2>1, <2>2, CountUpdated
  <2>4. now' \in 0..MaxTime /\ now <= now'
    BY <1>1, <1>4 DEF AccumulateNumAcked
  <2> QED
    BY <1>4, <2>3, <2>4 DEF AccumulateNumAcked, Quiet
<1>5. ASSUME NEW k \in Keys, NEW p \in Paths, NEW drop, ExplicitAckReceived(k, p, drop)
      PROVE  Quiet \/ \E e : Filled(k, e) /\ Queued(k, e)
  BY <1>2, <1>5, PacketReceivedSteps DEF ExplicitAckReceived
<1>6. ASSUME NEW k \in Keys, NEW p \in Paths, HandleStaleAck(k, p)
      PROVE  Quiet \/ \E e : Filled(k, e) /\ Queued(k, e)
  BY <1>2, <1>6, PacketReceivedSteps DEF HandleStaleAck
<1>7. ASSUME NEW k \in Keys, NEW p \in Paths, NEW code, NackReceived(k, p, code)
      PROVE  Quiet \/ \E e : Filled(k, e) /\ Queued(k, e)
  BY <1>2, <1>7, PacketReceivedSteps DEF NackReceived
<1>8. ASSUME NEW k \in Keys, NEW count, HandlePacketTimeoutRetransmitted(k, count)
      PROVE  Quiet \/ \E e : Filled(k, e) /\ Queued(k, e)
  BY <1>2, <1>8, TimeoutSteps
<1>9. CASE Tick
  <2>1. now + 1 \in 0..MaxTime /\ now <= now + 1 /\ now' = now + 1
    BY <1>1, <1>9, ConstantsAre DEF Tick
  <2> QED
    BY <1>1, <1>9, <2>1 DEF Tick, Quiet
<1>10. CASE ProcessNextEvent
  BY <1>10 DEF ProcessNextEvent, Emptied, Processed
<1> QED
  BY <1>3, <1>4, <1>5, <1>6, <1>7, <1>8, <1>9, <1>10 DEF EngineNext

LEMMA AnswerOf ==
  ASSUME EngineAssumption, EngineTypes, events # <<>>
  PROVE  LET e == Head(events)
             result == Process(e, rue[e.cid], now)
             r == result.response
         IN  /\ e \in Entries(events) /\ GoodEvent(e) /\ Key(e) \in Keys
             /\ GoodMemory(result.state) /\ GoodResponse(r) /\ Key(r) = Key(e)
             /\ Multipath => r.fcwnd = FloatToFixed(ConnectionWindow(result.state.fcwnd))
             /\ ~Multipath => result.state = rue[e.cid] /\ Answers(e, r, now)
<1> DEFINE e == Head(events)
<1>1. IsSeq(events) /\ now \in 0..MaxTime
  BY DEF EngineTypes
<1>2. e \in Entries(events)
  BY <1>1, SeqTail
<1>3. GoodEvent(e)
  BY <1>2 DEF EngineTypes
<1> HIDE DEF e
<1>4. Key(e) \in Keys /\ e.cid \in Conns
  BY <1>3 DEF GoodEvent, Key, Keys
<1>5. GoodMemory(rue[e.cid])
  BY <1>4 DEF EngineTypes
<1> DEFINE s == rue[e.cid]
<1> HIDE DEF s
<1>6. LET result == Process(e, s, now)
          r == result.response
      IN  /\ GoodMemory(result.state) /\ GoodResponse(r) /\ Key(r) = Key(e)
          /\ Multipath => r.fcwnd = FloatToFixed(ConnectionWindow(result.state.fcwnd))
          /\ ~Multipath => result.state = s /\ Answers(e, r, now)
  BY <1>1, <1>3, <1>5, ProcessIs DEF s
<1> QED
  BY <1>2, <1>3, <1>4, <1>6 DEF e, s

LEMMA OldestAnswer ==
  ASSUME EngineTypes, EventsAccounted, NEW label, HandleNextResponse(label)
  PROVE  /\ responses # <<>> /\ Head(responses) \in Entries(responses)
         /\ GoodResponse(Head(responses)) /\ Key(Head(responses)) \in Keys
<1>1. IsSeq(responses) /\ callbacks = Len(responses) /\ callbacks > 0
  BY DEF EngineTypes, EventsAccounted, HandleNextResponse
<1>2. responses # <<>>
  BY <1>1
<1>3. Head(responses) \in Entries(responses)
  BY <1>1, <1>2, SeqTail
<1>4. GoodResponse(Head(responses))
  BY <1>3 DEF EngineTypes
<1> QED
  BY <1>2, <1>3, <1>4 DEF GoodResponse, Key, Keys

LEMMA InFlightIs ==
  ASSUME NEW k
  PROVE  /\ InFlight(k) = KeyCount(events, k) + KeyCount(responses, k)
         /\ InFlight(k)' = KeyCount(events', k) + KeyCount(responses', k)
BY DEF InFlight, KeyCount, At

\* Steps that leave what is under way alone.
LEMMA AccountedUnchanged ==
  ASSUME EventsAccounted, UNCHANGED <<events, responses, outstanding, callbacks>>,
         events # <<>> => scheduled'
  PROVE  EventsAccounted'
<1>1. \A k \in Keys : InFlight(k)' = (IF outstanding[k] THEN 1 ELSE 0)'
  <2> TAKE k \in Keys
  <2>1. InFlight(k)' = InFlight(k)
    BY InFlightIs
  <2> QED
    BY <2>1 DEF EventsAccounted
<1>2. (callbacks = Len(responses))'
  BY DEF EventsAccounted
<1>3. (events # <<>> => scheduled)'
  OBVIOUS
<1> QED
  BY <1>1, <1>2, <1>3 DEF EventsAccounted

LEMMA AccountedQueued ==
  ASSUME EngineTypes, EventsAccounted, NEW k \in Keys, NEW e, Filled(k, e), Queued(k, e)
  PROVE  EventsAccounted'
<1>1. /\ IsSeq(events) /\ IsSeq(responses) /\ outstanding \in [Keys -> BOOLEAN]
      /\ \A j \in Keys : InFlight(j) = (IF outstanding[j] THEN 1 ELSE 0)
      /\ callbacks = Len(responses)
  BY DEF EngineTypes, EventsAccounted
<1>2. /\ ~outstanding[k] /\ outstanding' = [outstanding EXCEPT ![k] = TRUE]
      /\ events' = Append(events, e) /\ scheduled' /\ responses' = responses
      /\ callbacks' = callbacks /\ Key(e) = k
  BY DEF Queued, Filled, Snapshot
<1>3. \A j \in Keys : InFlight(j)' = (IF outstanding[j] THEN 1 ELSE 0)'
  <2> TAKE j \in Keys
  <2>1. KeyCount(events, j) \in Nat /\ KeyCount(responses, j) \in Nat
    BY <1>1, CountIsNat
  <2>2. KeyCount(events', j) = KeyCount(events, j) + (IF k = j THEN 1 ELSE 0)
    BY <1>1, <1>2, CountAppend
  <2>3. outstanding'[j] = IF j = k THEN TRUE ELSE outstanding[j]
    BY <1>1, <1>2
  <2>4. KeyCount(events, j) + KeyCount(responses, j) = (IF outstanding[j] THEN 1 ELSE 0)
    BY <1>1, InFlightIs
  <2>5. InFlight(j)' = KeyCount(events', j) + KeyCount(responses, j)
    BY <1>2, InFlightIs
  <2>6. CASE j = k
    <3>1. outstanding'[j] /\ ~outstanding[j]
      BY <1>2, <2>3, <2>6
    <3>2. KeyCount(events', j) = KeyCount(events, j) + 1
      BY <2>2, <2>6
    <3>3. KeyCount(events, j) + KeyCount(responses, j) = 0
      BY <2>4, <3>1
    <3>4. InFlight(j)' = 1
      BY <2>1, <2>5, <3>2, <3>3
    <3> QED
      BY <3>1, <3>4
  <2>7. CASE j # k
    BY <2>1, <2>2, <2>3, <2>4, <2>5, <2>7
  <2> QED
    BY <2>6, <2>7
<1> QED
  BY <1>1, <1>2, <1>3 DEF EventsAccounted

LEMMA AccountedProcessed ==
  ASSUME EngineAssumption, EngineTypes, EventsAccounted, Processed
  PROVE  EventsAccounted'
<1> DEFINE e == Head(events)
           r == Process(e, rue[e.cid], now).response
<1>1. /\ IsSeq(events) /\ IsSeq(responses)
      /\ \A j \in Keys : InFlight(j) = (IF outstanding[j] THEN 1 ELSE 0)
      /\ callbacks = Len(responses)
  BY DEF EngineTypes, EventsAccounted
<1>2. /\ events # <<>> /\ events' = Tail(events) /\ responses' = Append(responses, r)
      /\ outstanding' = outstanding /\ scheduled' = scheduled /\ callbacks' = callbacks + 1
      /\ scheduled
  BY DEF Processed
<1>3. Key(r) = Key(e)
  BY <1>2, AnswerOf
<1> HIDE DEF r
<1>4. \A j \in Keys : InFlight(j)' = (IF outstanding[j] THEN 1 ELSE 0)'
  <2> TAKE j \in Keys
  <2>1. KeyCount(responses, j) \in Nat
    BY <1>1, CountIsNat
  <2>2. /\ KeyCount(events, j) = KeyCount(events', j) + (IF Key(e) = j THEN 1 ELSE 0)
        /\ KeyCount(events', j) \in Nat
    BY <1>1, <1>2, CountTail
  <2>3. KeyCount(responses', j) = KeyCount(responses, j) + (IF Key(e) = j THEN 1 ELSE 0)
    BY <1>1, <1>2, <1>3, CountAppend
  <2> DEFINE one == IF Key(e) = j THEN 1 ELSE 0
  <2>4. one \in Nat
    OBVIOUS
  <2> HIDE DEF one
  <2>5. KeyCount(events', j) + KeyCount(responses', j)
          = KeyCount(events, j) + KeyCount(responses, j)
    BY <2>1, <2>2, <2>3, <2>4 DEF one
  <2> QED
    BY <1>1, <1>2, <2>5, InFlightIs
<1>5. Len(responses') = Len(responses) + 1
  BY <1>1, <1>2, SeqAppend
<1> QED
  BY <1>1, <1>2, <1>4, <1>5 DEF EventsAccounted

LEMMA AccountedAnswered ==
  ASSUME EngineTypes, EventsAccounted, NEW label, HandleNextResponse(label)
  PROVE  EventsAccounted'
<1> DEFINE r == Head(responses)
<1>1. /\ IsSeq(events) /\ IsSeq(responses) /\ outstanding \in [Keys -> BOOLEAN]
      /\ \A j \in Keys : InFlight(j) = (IF outstanding[j] THEN 1 ELSE 0)
      /\ callbacks = Len(responses) /\ (events # <<>> => scheduled)
  BY DEF EngineTypes, EventsAccounted
<1>2. /\ outstanding' = [outstanding EXCEPT ![Key(r)] = FALSE]
      /\ responses' = Tail(responses) /\ events' = events /\ scheduled' = scheduled
      /\ callbacks' = callbacks - 1
  BY DEF HandleNextResponse, Key
<1>3. responses # <<>> /\ Key(r) \in Keys
  BY OldestAnswer
<1> HIDE DEF r
<1>4. \A j \in Keys : InFlight(j)' = (IF outstanding[j] THEN 1 ELSE 0)'
  <2> TAKE j \in Keys
  <2>1. KeyCount(events, j) \in Nat
    BY <1>1, CountIsNat
  <2>2. /\ KeyCount(responses, j) = KeyCount(responses', j) + (IF Key(r) = j THEN 1 ELSE 0)
        /\ KeyCount(responses', j) \in Nat
    BY <1>1, <1>2, <1>3, CountTail DEF r
  <2>3. outstanding'[j] = IF j = Key(r) THEN FALSE ELSE outstanding[j]
    BY <1>1, <1>2, <1>3
  <2>4. KeyCount(events, j) + KeyCount(responses, j) = (IF outstanding[j] THEN 1 ELSE 0)
    BY <1>1, InFlightIs
  <2>5. InFlight(j)' = KeyCount(events, j) + KeyCount(responses', j)
    BY <1>2, InFlightIs
  <2>6. CASE Key(r) = j
    BY <2>1, <2>2, <2>3, <2>4, <2>5, <2>6
  <2>7. CASE Key(r) # j
    BY <2>1, <2>2, <2>3, <2>4, <2>5, <2>7
  <2> QED
    BY <2>6, <2>7
<1>5. callbacks' = Len(responses')
  BY <1>1, <1>2, <1>3, SeqTail
<1> QED
  BY <1>1, <1>2, <1>4, <1>5 DEF EventsAccounted
-----------------------------------------------------------------------------
(* The types are kept. *)

LEMMA TypesQuiet ==
  ASSUME EngineTypes, Quiet
  PROVE  EngineTypes'
<1>1. \A k \in Keys : decreasedAt[k] <= now'
  BY DEF EngineTypes, Quiet
<1> QED
  BY <1>1 DEF EngineTypes, Quiet

LEMMA TypesQueued ==
  ASSUME EngineTypes, NEW k \in Keys, NEW e, Filled(k, e), Queued(k, e)
  PROVE  EngineTypes'
<1>1. IsSeq(events') /\ \A x \in Entries(events') : GoodEvent(x)
  BY SeqAppend DEF EngineTypes, Queued, Filled
<1>2. outstanding' \in [Keys -> BOOLEAN]
  BY DEF EngineTypes, Queued
<1> QED
  BY <1>1, <1>2 DEF EngineTypes, Queued

LEMMA TimesUpdated ==
  ASSUME NEW f \in [Keys -> Int], NEW n \in Int, \A k \in Keys : f[k] <= n, NEW j
  PROVE  /\ [f EXCEPT ![j] = n] \in [Keys -> Int]
         /\ \A k \in Keys : [f EXCEPT ![j] = n][k] <= n
<1> DEFINE g == [f EXCEPT ![j] = n]
<1>1. DOMAIN g = Keys /\ g = [k \in Keys |-> g[k]]
  OBVIOUS
<1>2. ASSUME NEW k \in Keys PROVE g[k] \in Int /\ g[k] <= n
  <2>1. g[k] = n \/ g[k] = f[k]
    OBVIOUS
  <2>2. n <= n /\ f[k] \in Int /\ f[k] <= n
    OBVIOUS
  <2> HIDE DEF g
  <2> QED
    BY <2>1, <2>2
<1> HIDE DEF g
<1>3. g \in [Keys -> Int]
  BY <1>1, <1>2
<1> QED
  BY <1>2, <1>3 DEF g

LEMMA TypesProcessed ==
  ASSUME EngineAssumption, EngineTypes, Processed
  PROVE  EngineTypes'
<1> DEFINE e == Head(events)
           result == Process(e, rue[e.cid], now)
           r == result.response
<1>1. /\ events # <<>> /\ events' = Tail(events) /\ responses' = Append(responses, r)
      /\ rue' = [rue EXCEPT ![e.cid] = result.state]
      /\ decreasedAt' = IF Decreases(e) THEN [decreasedAt EXCEPT ![Key(e)] = now] ELSE decreasedAt
      /\ UNCHANGED <<now, meta, acked, outstanding, scheduled>>
  BY DEF Processed, Key
<1>2. /\ Key(e) \in Keys /\ e.cid \in Conns /\ GoodMemory(result.state) /\ GoodResponse(r)
  BY <1>1, AnswerOf DEF GoodEvent
<1> HIDE DEF r, result, e
<1>3. IsSeq(events') /\ \A x \in Entries(events') : GoodEvent(x)
  BY <1>1, SeqTail DEF EngineTypes
<1>4. IsSeq(responses') /\ \A x \in Entries(responses') : GoodResponse(x)
  BY <1>1, <1>2, SeqAppend DEF EngineTypes
<1>5. DOMAIN rue' = Conns /\ \A c \in Conns : GoodMemory(rue'[c])
  BY <1>1, <1>2 DEF EngineTypes
<1>6. decreasedAt' \in [Keys -> Int] /\ \A k \in Keys : decreasedAt'[k] <= now
  <2>1. /\ decreasedAt \in [Keys -> Int] /\ now \in Int
        /\ \A k \in Keys : decreasedAt[k] <= now
    BY DEF EngineTypes
  <2>2. CASE Decreases(e)
    <3>1. decreasedAt' = [decreasedAt EXCEPT ![Key(e)] = now]
      BY <1>1, <2>2
    <3> QED
      BY <2>1, <3>1, TimesUpdated
  <2>3. CASE ~Decreases(e)
    BY <1>1, <2>1, <2>3
  <2> QED
    BY <2>2, <2>3
<1> QED
  BY <1>1, <1>3, <1>4, <1>5, <1>6 DEF EngineTypes

LEMMA TypesAnswered ==
  ASSUME EngineTypes, EventsAccounted, NEW label, HandleNextResponse(label)
  PROVE  EngineTypes'
<1> DEFINE r == Head(responses)
           new == UpdateConnectionStateFromResponse(meta[r.cid], r, label)
<1>1. /\ responses' = Tail(responses) /\ meta' = [meta EXCEPT ![r.cid] = new]
      /\ outstanding' = [outstanding EXCEPT ![Key(r)] = FALSE]
      /\ UNCHANGED <<now, acked, events, rue, decreasedAt>>
  BY DEF HandleNextResponse, Key
<1>2. responses # <<>> /\ GoodResponse(r) /\ Key(r) \in Keys /\ r.cid \in Conns
  BY OldestAnswer DEF GoodResponse
<1> HIDE DEF r
<1>3. GoodMetadata(new)
  BY <1>2, UpdateIs DEF EngineTypes
<1> HIDE DEF new
<1>4. IsSeq(responses') /\ \A x \in Entries(responses') : GoodResponse(x)
  BY <1>1, <1>2, SeqTail DEF EngineTypes
<1>5. DOMAIN meta' = Conns /\ \A c \in Conns : GoodMetadata(meta'[c])
  BY <1>1, <1>2, <1>3 DEF EngineTypes
<1>6. outstanding' \in [Keys -> BOOLEAN]
  BY <1>1 DEF EngineTypes
<1> QED
  BY <1>1, <1>4, <1>5, <1>6 DEF EngineTypes
-----------------------------------------------------------------------------
(* The connection's window follows its flows'. *)

LEMMA WholeUnchanged ==
  ASSUME WholeTracked, UNCHANGED <<meta, responses, rue>>
  PROVE  WholeTracked'
<1>1. \A c : Whole(c)' = Whole(c)
  BY DEF Whole
<1> QED
  BY <1>1 DEF WholeTracked

LEMMA WholeProcessed ==
  ASSUME EngineAssumption, EngineTypes, WholeTracked, Multipath, Processed,
         NEW c \in Conns
  PROVE  /\ (\A x \in Entries(responses') : x.cid # c) => meta'[c].fcwnd = Whole(c)'
         /\ \A i : Latest(responses', c, i) => responses'[i].fcwnd = Whole(c)'
<1> DEFINE e == Head(events)
           result == Process(e, rue[e.cid], now)
           r == result.response
           n == Len(responses)
<1>1. /\ events # <<>> /\ responses' = Append(responses, r)
      /\ rue' = [rue EXCEPT ![e.cid] = result.state] /\ meta' = meta
  BY DEF Processed
<1>2. /\ e.cid \in Conns /\ r.cid = e.cid
      /\ r.fcwnd = FloatToFixed(ConnectionWindow(result.state.fcwnd))
  BY <1>1, AnswerOf DEF GoodEvent, Key
<1> HIDE DEF r, result, e
<1>3. IsSeq(responses) /\ DOMAIN rue = Conns
  BY DEF EngineTypes
<1>4. /\ Len(responses') = n + 1 /\ responses'[n + 1] = r /\ n \in Nat
      /\ \A i \in 1..n : responses'[i] = responses[i]
      /\ Entries(responses') = Entries(responses) \cup {r}
  BY <1>1, <1>3, SeqAppend, SeqShape
<1>5. \A i \in 1..(n + 1) : i \in 1..n \/ i = n + 1
  BY <1>4
<1>6. n + 1 \in 1..(n + 1) /\ \A i \in 1..n : n + 1 > i /\ i \in 1..(n + 1)
  BY <1>4
<1> HIDE DEF n
<1>7. CASE c = e.cid
  <2>1. rue'[c] = result.state
    BY <1>1, <1>2, <1>3, <1>7
  <2>2. Whole(c)' = r.fcwnd
    BY <1>2, <2>1 DEF Whole
  <2>3. r \in Entries(responses') /\ r.cid = c
    BY <1>2, <1>4, <1>7
  <2>4. \A i : Latest(responses', c, i) => i = n + 1
    BY <1>4, <1>5, <1>6, <2>3 DEF Latest
  <2> QED
    BY <1>4, <2>2, <2>3, <2>4
<1>8. CASE c # e.cid
  <2>1. rue'[c] = rue[c]
    BY <1>1, <1>2, <1>3, <1>8
  <2>2. Whole(c)' = Whole(c)
    BY <2>1 DEF Whole
  <2>3. \A i : Latest(responses', c, i) => i \in 1..n /\ Latest(responses, c, i)
    <3> SUFFICES ASSUME NEW i, Latest(responses', c, i)
                 PROVE  i \in 1..n /\ Latest(responses, c, i)
      OBVIOUS
    <3>1. i \in 1..(n + 1) /\ responses'[i].cid = c
      BY <1>4 DEF Latest
    <3>2. i \in 1..n
      BY <1>2, <1>4, <1>5, <1>8, <3>1
    <3>3. \A j \in 1..n : j > i => responses[j].cid # c
      BY <1>4, <1>6 DEF Latest
    <3> QED
      BY <1>4, <3>1, <3>2, <3>3 DEF Latest, n
  <2>4. \A i : Latest(responses', c, i) => responses'[i].fcwnd = Whole(c)'
    BY <1>4, <2>2, <2>3 DEF WholeTracked
  <2>5. (\A x \in Entries(responses') : x.cid # c) => meta'[c].fcwnd = Whole(c)'
    BY <1>1, <1>4, <2>2 DEF WholeTracked
  <2> QED
    BY <2>4, <2>5
<1> QED
  BY <1>7, <1>8

LEMMA WholeAnswered ==
  ASSUME EngineTypes, EventsAccounted, WholeTracked, Multipath,
         NEW label, HandleNextResponse(label), NEW c \in Conns
  PROVE  /\ (\A x \in Entries(responses') : x.cid # c) => meta'[c].fcwnd = Whole(c)'
         /\ \A i : Latest(responses', c, i) => responses'[i].fcwnd = Whole(c)'
<1> DEFINE r == Head(responses)
           new == UpdateConnectionStateFromResponse(meta[r.cid], r, label)
           n == Len(responses')
<1>1. /\ responses' = Tail(responses) /\ meta' = [meta EXCEPT ![r.cid] = new] /\ rue' = rue
  BY DEF HandleNextResponse
<1>2. responses # <<>> /\ GoodResponse(r) /\ r.cid \in Conns
  BY OldestAnswer DEF GoodResponse
<1> HIDE DEF r
<1>3. new.fcwnd = r.fcwnd
  BY <1>2, UpdateIs DEF EngineTypes
<1> HIDE DEF new
<1>4. IsSeq(responses) /\ DOMAIN meta = Conns
  BY DEF EngineTypes
<1>5. /\ n \in Nat /\ Len(responses) = n + 1 /\ responses[1] = r
      /\ IsSeq(responses') /\ \A i \in 1..n : responses'[i] = responses[i + 1]
  BY <1>1, <1>2, <1>4, SeqTail DEF r
<1>6. \A i \in 1..n : responses'[i] \in Entries(responses')
  BY <1>5, SeqShape
<1>7. /\ \A i \in 1..n : i + 1 \in 1..(n + 1) /\ i + 1 > 1
      /\ \A j \in 1..(n + 1) : j > 1 => j - 1 \in 1..n /\ (j - 1) + 1 = j
      /\ \A i \in 1..n, j \in 1..(n + 1) : j > i + 1 => j - 1 > i /\ j > 1
      /\ 1 \in 1..(n + 1)
  BY <1>5
<1>8. Whole(c)' = Whole(c)
  BY <1>1 DEF Whole
<1> HIDE DEF n
<1>9. \A i : Latest(responses', c, i) => responses'[i].fcwnd = Whole(c)'
  <2> SUFFICES ASSUME NEW i, Latest(responses', c, i)
               PROVE  responses'[i].fcwnd = Whole(c)'
    OBVIOUS
  <2>1. i \in 1..n /\ responses'[i].cid = c
    BY DEF Latest, n
  <2>2. \A j \in 1..n : j > i => responses'[j].cid # c
    BY DEF Latest, n
  <2>3. ASSUME NEW j \in 1..(n + 1), j > i + 1 PROVE responses[j].cid # c
    <3>1. j - 1 > i /\ j > 1
      BY <1>7, <2>1, <2>3
    <3>2. j - 1 \in 1..n /\ (j - 1) + 1 = j
      BY <1>7, <3>1
    <3> DEFINE h == j - 1
    <3> HIDE DEF h
    <3>3. h \in 1..n /\ h > i /\ h + 1 = j
      BY <3>1, <3>2 DEF h
    <3>4. responses'[h].cid # c /\ responses'[h] = responses[h + 1]
      BY <1>5, <2>2, <3>3
    <3> QED
      BY <3>3, <3>4
  <2>4. Latest(responses, c, i + 1)
    BY <1>5, <1>7, <2>1, <2>3 DEF Latest
  <2> QED
    BY <1>5, <1>8, <2>1, <2>4 DEF WholeTracked
<1>10. ASSUME \A x \in Entries(responses') : x.cid # c
       PROVE  meta'[c].fcwnd = Whole(c)'
  <2>1. \A j \in 1..(n + 1) : j > 1 => responses[j].cid # c
    BY <1>5, <1>6, <1>7, <1>10
  <2>2. CASE c = r.cid
    <3>1. Latest(responses, c, 1)
      BY <1>5, <1>7, <2>1, <2>2 DEF Latest
    <3>2. r.fcwnd = Whole(c)
      BY <1>5, <3>1 DEF WholeTracked
    <3>3. meta'[c] = new
      BY <1>1, <1>2, <1>4, <2>2
    <3> QED
      BY <1>3, <1>8, <3>2, <3>3
  <2>3. CASE c # r.cid
    <3>1. \A x \in Entries(responses) : x.cid # c
      <4>1. \A j \in 1..(n + 1) : j = 1 \/ j > 1
        BY <1>5
      <4>2. \A j \in 1..(n + 1) : responses[j].cid # c
        BY <1>5, <2>1, <2>3, <4>1
      <4> QED
        BY <1>4, <1>5, <4>2, SeqShape
    <3>2. meta'[c] = meta[c]
      BY <1>1, <1>2, <1>4, <2>3
    <3> QED
      BY <1>8, <3>1, <3>2 DEF WholeTracked
  <2> QED
    BY <2>2, <2>3
<1> QED
  BY <1>9, <1>10
-----------------------------------------------------------------------------
(* The marker in use covers the last decrease of a connection with one path. *)

LEMMA CoveredQuiet ==
  ASSUME EngineTypes, EngineAssumption, Covered, Quiet
  PROVE  Covered'
<1>1. now \in Int /\ now' \in Int /\ now <= now' /\ MaxTime \in Int
  BY ConstantsAre DEF EngineTypes, Quiet
<1>2. UNCHANGED <<meta, outstanding, events, responses, decreasedAt>>
  BY DEF Quiet
<1>3. \A m, d : Covers(now, m, d) => Covers(now', m, d)
  BY <1>1, CoversLater
<1> QED
  BY <1>2, <1>3 DEF Covered

LEMMA CoveredQueued ==
  ASSUME EngineTypes, Covered, NEW k \in Keys, NEW e, Filled(k, e), Queued(k, e)
  PROVE  Covered'
<1>1. /\ ~outstanding[k] /\ outstanding' = [outstanding EXCEPT ![k] = TRUE]
      /\ events' = Append(events, e) /\ responses' = responses /\ meta' = meta
      /\ now' = now /\ decreasedAt' = decreasedAt
      /\ Key(e) = k /\ e.fmarker = meta[k[1]].fmarker
  BY DEF Queued, Filled, Snapshot
<1>2. outstanding \in [Keys -> BOOLEAN] /\ Entries(events') = Entries(events) \cup {e}
  BY <1>1, SeqAppend DEF EngineTypes
<1>3. \A j \in Keys : ~outstanding'[j] => ~outstanding[j]
  BY <1>1, <1>2
<1> QED
  BY <1>1, <1>2, <1>3 DEF Covered

\* A decrease that the engine computes is due.
LEMMA DecreaseCovered ==
  ASSUME EngineAssumption, EngineTypes, Covered, ~Multipath, events # <<>>,
         Decreases(Head(events))
  PROVE  LET e == Head(events)
         IN  /\ now - decreasedAt[Key(e)] >= RoundTrip(e)
             /\ Process(e, rue[e.cid], now).response.fmarker = now
<1> DEFINE e == Head(events)
           r == Process(e, rue[e.cid], now).response
           d == decreasedAt[Key(e)]
<1>1. e \in Entries(events) /\ Key(e) \in Keys /\ Answers(e, r, now) /\ GoodEvent(e)
  BY AnswerOf
<1>2. r.fcwnd < e.fcwnd
  BY DEF Decreases, NewFlowWindow, FlowWindow
<1>3. RoundTrip(e) <= TimeBits(now - e.fmarker) /\ r.fmarker = now
  BY <1>1, <1>2 DEF Answers
<1> HIDE DEF e, r
<1>4. now \in 0..MaxTime /\ MaxTime \in Int /\ d \in Int
  BY <1>1, ConstantsAre DEF EngineTypes
<1>5. Covers(now, e.fmarker, d)
  BY <1>1 DEF Covered
<1> HIDE DEF d
<1>6. now \in now..MaxTime
  BY <1>4
<1>7. TimeBits(now - e.fmarker) <= now - d
  BY <1>5, <1>6 DEF Covers
<1>8. e.fmarker \in Int /\ now - e.fmarker \in Int
  BY <1>1, <1>4 DEF GoodEvent
<1>9. TimeBits(now - e.fmarker) \in Int
  BY <1>8, TimeBitsIs
<1>10. RoundTrip(e) \in Int
  <2>1. e.rtt \in Int /\ e.t4 - e.t1 \in Int
    BY <1>1 DEF GoodEvent
  <2> QED
    BY <2>1, TimeBitsIs DEF RoundTrip
<1>11. now - d >= RoundTrip(e)
  BY <1>3, <1>4, <1>7, <1>9, <1>10
<1> QED
  BY <1>3, <1>11 DEF e, r, d

LEMMA CoveredProcessed ==
  ASSUME EngineAssumption, EngineTypes, EventsAccounted, Covered, ~Multipath, Processed
  PROVE  Covered'
<1> DEFINE e == Head(events)
           r == Process(e, rue[e.cid], now).response
           k == Key(e)
<1>1. /\ events # <<>> /\ events' = Tail(events) /\ responses' = Append(responses, r)
      /\ decreasedAt' = IF Decreases(e) THEN [decreasedAt EXCEPT ![k] = now] ELSE decreasedAt
      /\ UNCHANGED <<now, meta, outstanding>>
  BY DEF Processed, Key
<1>2. /\ e \in Entries(events) /\ k \in Keys /\ Answers(e, r, now) /\ Key(r) = k
      /\ e.fmarker \in Int
  BY <1>1, AnswerOf DEF GoodEvent
<1>3. Decreases(e) => r.fmarker = now
  BY <1>1, DecreaseCovered
<1> HIDE DEF r
<1>4. IsSeq(events) /\ IsSeq(responses) /\ now \in 0..MaxTime /\ decreasedAt \in [Keys -> Int]
  BY DEF EngineTypes
<1>5. /\ outstanding[k] /\ KeyCount(events', k) = 0 /\ KeyCount(responses, k) = 0
      /\ IsSeq(events')
  <2>1. /\ KeyCount(events, k) = KeyCount(events', k) + 1 /\ KeyCount(events', k) \in Nat
        /\ KeyCount(responses, k) \in Nat
    BY <1>1, <1>4, CountTail, CountIsNat
  <2>2. KeyCount(events, k) + KeyCount(responses, k) = IF outstanding[k] THEN 1 ELSE 0
    BY <1>2, InFlightIs DEF EventsAccounted
  <2>3. outstanding[k]
    BY <2>1, <2>2
  <2> QED
    BY <1>1, <1>4, <2>1, <2>2, <2>3, SeqTail
<1>6. /\ \A x \in Entries(events') : Key(x) # k
      /\ \A x \in Entries(responses) : Key(x) # k
  BY <1>4, <1>5, CountZero
<1>7. /\ Entries(responses') = Entries(responses) \cup {r}
      /\ Entries(events') \subseteq Entries(events)
  BY <1>1, <1>4, SeqAppend, SeqTail
<1> HIDE DEF e, k
<1>8. Covers(now, r.fmarker, decreasedAt'[k])
  <2>1. CASE Decreases(e)
    <3>1. decreasedAt'[k] = now
      BY <1>1, <1>2, <1>4, <2>1
    <3>2. now \in Nat /\ now \in Int /\ now <= now
      BY <1>4, ConstantsAre
    <3> QED
      BY <1>3, <2>1, <3>1, <3>2, CoversNow
  <2>2. CASE ~Decreases(e)
    <3>1. decreasedAt'[k] = decreasedAt[k] /\ decreasedAt[k] \in Int /\ decreasedAt[k] <= now
      BY <1>1, <1>2, <1>4, <2>2 DEF EngineTypes
    <3>2. Covers(now, e.fmarker, decreasedAt[k])
      BY <1>2 DEF Covered, k
    <3> QED
      BY <1>2, <3>1, <3>2 DEF Answers
  <2> QED
    BY <2>1, <2>2
<1>9. \A j \in Keys : j # k => decreasedAt'[j] = decreasedAt[j]
  BY <1>1, <1>2, <1>4
<1>10. ASSUME NEW j \in Keys
       PROVE  /\ ~outstanding'[j] => Covers(now', meta'[j[1]].fmarker, decreasedAt'[j])
              /\ \A x \in Entries(events') \cup Entries(responses') :
                   Key(x) = j => Covers(now', x.fmarker, decreasedAt'[j])
  <2>1. CASE j = k
    BY <1>1, <1>2, <1>5, <1>6, <1>7, <1>8, <2>1
  <2>2. CASE j # k
    BY <1>1, <1>2, <1>7, <1>9, <2>2 DEF Covered
  <2> QED
    BY <2>1, <2>2
<1> QED
  BY <1>10 DEF Covered

LEMMA CoveredAnswered ==
  ASSUME EngineTypes, EventsAccounted, Covered, ~Multipath, NEW label,
         HandleNextResponse(label)
  PROVE  Covered'
<1> DEFINE r == Head(responses)
           k == Key(r)
           new == UpdateConnectionStateFromResponse(meta[r.cid], r, label)
<1>1. /\ responses' = Tail(responses) /\ meta' = [meta EXCEPT ![r.cid] = new]
      /\ outstanding' = [outstanding EXCEPT ![k] = FALSE]
      /\ UNCHANGED <<now, events, decreasedAt>>
  BY DEF HandleNextResponse, Key
<1>2. /\ responses # <<>> /\ r \in Entries(responses) /\ GoodResponse(r) /\ k \in Keys
      /\ r.cid \in Conns
  BY OldestAnswer DEF GoodResponse
<1>3. k[1] = r.cid
  BY DEF Key
<1> HIDE DEF r
<1>4. new.fmarker = r.fmarker
  BY <1>2, UpdateIs DEF EngineTypes
<1> HIDE DEF new
<1>5. /\ outstanding \in [Keys -> BOOLEAN] /\ DOMAIN meta = Conns
      /\ Entries(responses') \subseteq Entries(responses)
  BY <1>1, <1>2, SeqTail DEF EngineTypes
<1>6. Covers(now, r.fmarker, decreasedAt[k])
  BY <1>2 DEF Covered
<1> HIDE DEF k
<1>7. ASSUME NEW j \in Keys
      PROVE  /\ ~outstanding'[j] => Covers(now', meta'[j[1]].fmarker, decreasedAt'[j])
             /\ \A x \in Entries(events') \cup Entries(responses') :
                  Key(x) = j => Covers(now', x.fmarker, decreasedAt'[j])
  <2>1. \A x \in Entries(events') \cup Entries(responses') :
          Key(x) = j => Covers(now', x.fmarker, decreasedAt'[j])
    BY <1>1, <1>5 DEF Covered
  <2>2. CASE j = k
    <3>1. meta'[j[1]] = new
      BY <1>1, <1>2, <1>3, <1>5, <2>2
    <3> QED
      BY <1>1, <1>4, <1>6, <2>1, <2>2, <3>1
  <2>3. CASE j # k
    <3>1. j[1] # k[1]
      <4>1. \A i \in Keys : i = <<i[1], 0>>
        BY DEF Keys, Multipath
      <4> QED
        BY <1>2, <2>3, <4>1
    <3>2. meta'[j[1]] = meta[j[1]] /\ outstanding'[j] = outstanding[j]
      BY <1>1, <1>3, <1>5, <2>3, <3>1
    <3> QED
      BY <1>1, <2>1, <3>2 DEF Covered
  <2> QED
    BY <2>2, <2>3
<1> QED
  BY <1>7 DEF Covered
-----------------------------------------------------------------------------
(* The first state. *)

LEMMA Nothing ==
  /\ IsSeq(<<>>) /\ Entries(<<>>) = {} /\ Len(<<>>) = 0
  /\ \A k : KeyCount(<<>>, k) = 0
<1>1. Entries(<<>>) = {}
  BY DEF Entries
<1>2. \A k : At(<<>>, k) = {}
  BY DEF At
<1> QED
  BY <1>1, <1>2, FS_EmptySet DEF IsSeq, KeyCount

LEMMA SharesAre ==
  ASSUME EngineAssumption
  PROVE  /\ InitialFcwnd \in 0..MaxFixed /\ GoodMemory(InitialRueState)
         /\ FloatToFixed(ConnectionWindow(InitialRueState.fcwnd)) = InitialFcwnd
<1> DEFINE n == Cardinality(Flows)
<1>1. /\ InitialFcwnd \in Nat /\ InitialRtt \in Nat
      /\ FixedToFloat(InitialFcwnd) \in P.min_fcwnd..P.max_fcwnd
      /\ IsFiniteSet(Flows) /\ 0 \in Flows
  BY DEF EngineAssumption, SwiftAssumption
<1>2. n \in Nat \ {0}
  BY <1>1, FS_CardinalityType, FS_EmptySet
<1>3. /\ FloatToFixed(FixedToFloat(InitialFcwnd)) = InitialFcwnd
      /\ FixedToFloat(InitialFcwnd) \in Nat
  BY <1>1, FixedIs
<1>4. InitialFcwnd \in 0..MaxFixed
  <2>1. {P.min_fcwnd, P.max_fcwnd} \subseteq Nat
    BY ConstantsAre
  <2>2. FixedToFloat(InitialFcwnd) <= P.max_fcwnd
    BY <1>1, <2>1
  <2>3. InitialFcwnd <= MaxFixed
    BY <1>3, <2>1, <2>2, FixedIs DEF MaxFixed
  <2> QED
    BY <1>1, <2>3, FixedIs
<1>5. PICK share \in 0..InitialFcwnd : InitialFcwnd = share * n
  BY DEF EngineAssumption
<1>6. share \in Nat /\ share \in 0..MaxFixed /\ (share * n) \div n = share
  <2>1. share \in Nat /\ share <= InitialFcwnd /\ MaxFixed \in Nat
    BY <1>1, FixedIs
  <2> HIDE DEF n
  <2>2. (share * n) \div n = share
    BY <1>2, <2>1
  <2> QED
    BY <1>4, <2>1, <2>2
<1> DEFINE windows == [f \in Flows |-> share]
<1>7. InitialRueState.fcwnd = windows
  BY <1>5, <1>6 DEF InitialRueState
<1>8. TotalWindow(windows) = InitialFcwnd
  <2>1. TotalWindow(windows) = n * share
    BY <1>6, EqualShares
  <2> HIDE DEF n, windows
  <2>2. n * share = share * n
    BY <1>2, <1>6
  <2> QED
    BY <1>5, <2>1, <2>2
<1>9. ConnectionWindow(windows) = FixedToFloat(InitialFcwnd)
  <2> HIDE DEF windows
  <2>1. ConnectionWindow(windows) = ClampFabric(FixedToFloat(InitialFcwnd))
    BY <1>8 DEF ConnectionWindow
  <2>2. FixedToFloat(InitialFcwnd) \in Int
    BY <1>3
  <2> QED
    BY <1>1, <2>1, <2>2, ClampFabricIs
<1>10. windows \in [Flows -> 0..MaxFixed]
  BY <1>6
<1>11. /\ DOMAIN InitialRueState.flows = Flows \ {0}
       /\ \A f \in Flows \ {0} : GoodFlow(InitialRueState.flows[f])
  BY <1>1 DEF InitialRueState, InitialFlow, GoodFlow
<1>12. GoodMemory(InitialRueState)
  BY <1>7, <1>10, <1>11 DEF GoodMemory
<1> QED
  BY <1>3, <1>4, <1>7, <1>9, <1>12

LEMMA EngineInitHolds ==
  ASSUME EngineAssumption, EngineInit
  PROVE  EngineIInv
<1>1. MaxTime \in Nat
  BY ConstantsAre
<1>2. EngineTypes
  <2>1. GoodMetadata(InitialMetadata)
    <3>1. GoodDelay(InitialDelayState)
      BY ConstantsAre DEF GoodDelay, InitialDelayState
    <3>2. InitialRtt \in Nat /\ 0 \in Flows
      BY DEF EngineAssumption, SwiftAssumption
    <3> QED
      BY <3>1, <3>2, SharesAre DEF InitialMetadata, GoodMetadata
  <2>2. DOMAIN meta = Conns /\ \A c \in Conns : GoodMetadata(meta[c])
    BY <2>1 DEF EngineInit
  <2>3. DOMAIN rue = Conns /\ \A c \in Conns : GoodMemory(rue[c])
    BY SharesAre DEF EngineInit
  <2>4. now \in 0..MaxTime /\ acked \in [Keys -> Nat] /\ outstanding \in [Keys -> BOOLEAN]
    BY <1>1 DEF EngineInit
  <2>5. decreasedAt \in [Keys -> Int] /\ \A k \in Keys : decreasedAt[k] <= now
    BY <1>1 DEF EngineInit, Never
  <2> QED
    BY <2>2, <2>3, <2>4, <2>5, Nothing DEF EngineTypes, EngineInit
<1>3. EventsAccounted
  <2>1. \A k \in Keys : InFlight(k) = (IF outstanding[k] THEN 1 ELSE 0)
    BY Nothing, InFlightIs DEF EngineInit
  <2> QED
    BY <2>1, Nothing DEF EventsAccounted, EngineInit
<1>4. WholeTracked
  <2>1. \A c \in Conns : meta[c].fcwnd = Whole(c)
    BY SharesAre DEF EngineInit, InitialMetadata, Whole
  <2>2. \A c, i : ~Latest(responses, c, i)
    BY Nothing DEF EngineInit, Latest
  <2> QED
    BY <2>1, <2>2 DEF WholeTracked
<1>5. Covered
  <2>1. Covers(0, 0, -MaxTime)
    BY <1>1, CoversNow
  <2>2. ASSUME NEW k \in Keys
        PROVE  now = 0 /\ meta[k[1]].fmarker = 0 /\ decreasedAt[k] = -MaxTime
    BY DEF EngineInit, InitialMetadata, Keys, Never
  <2> QED
    BY <2>1, <2>2, Nothing DEF Covered, EngineInit
<1> QED
  BY <1>2, <1>3, <1>4, <1>5 DEF EngineIInv

LEMMA EngineStepKeeps ==
  ASSUME EngineAssumption, EngineIInv, [EngineNext]_engineVars
  PROVE  EngineIInv'
<1> USE DEF EngineIInv
<1>1. CASE Quiet
  <2>1. EventsAccounted'
    BY <1>1, AccountedUnchanged DEF Quiet, EventsAccounted
  <2>2. WholeTracked'
    BY <1>1, WholeUnchanged DEF Quiet
  <2> QED
    BY <1>1, <2>1, <2>2, TypesQuiet, CoveredQuiet
<1>2. ASSUME NEW k \in Keys, NEW e, Filled(k, e), Queued(k, e) PROVE EngineIInv'
  <2>1. WholeTracked'
    BY <1>2, WholeUnchanged DEF Queued
  <2> QED
    BY <1>2, <2>1, TypesQueued, AccountedQueued, CoveredQueued
<1>3. CASE Emptied
  <2>1. EventsAccounted'
    BY <1>3, AccountedUnchanged DEF Emptied
  <2>2. WholeTracked'
    BY <1>3, WholeUnchanged DEF Emptied
  <2>3. EngineTypes'
    BY <1>3 DEF Emptied, EngineTypes
  <2>4. Covered'
    BY <1>3 DEF Emptied, Covered
  <2> QED
    BY <2>1, <2>2, <2>3, <2>4
<1>4. CASE Processed
  <2>1. WholeTracked'
    BY <1>4, WholeProcessed DEF WholeTracked
  <2>2. Covered'
    BY <1>4, CoveredProcessed DEF Covered
  <2> QED
    BY <1>4, <2>1, <2>2, TypesProcessed, AccountedProcessed
<1>5. ASSUME NEW label, HandleNextResponse(label) PROVE EngineIInv'
  <2>1. WholeTracked'
    BY <1>5, WholeAnswered DEF WholeTracked
  <2>2. Covered'
    BY <1>5, CoveredAnswered DEF Covered
  <2> QED
    BY <1>5, <2>1, <2>2, TypesAnswered, AccountedAnswered
<1> QED
  BY <1>1, <1>2, <1>3, <1>4, <1>5, EngineSteps

\* The invariant that carries the three theorems.
THEOREM EngineInvariant == EngineAssumption => (EngineSpec => []EngineIInv)
<1> SUFFICES ASSUME EngineAssumption PROVE EngineSpec => []EngineIInv
  OBVIOUS
<1>1. EngineInit => EngineIInv
  BY EngineInitHolds
<1>2. EngineIInv /\ [EngineNext]_engineVars => EngineIInv'
  BY EngineStepKeeps
<1> QED
  BY <1>1, <1>2, PTL DEF EngineSpec

\* PrepareForEnqueueEvent, HandleNextResponse: whatever the latencies, at most one
\* event or response of a key is under way, exactly while its flag says so; every
\* response has its callback; and a mailbox with events is worked off.
THEOREM EventsAlwaysAccounted == EngineAssumption => (EngineSpec => []EventsAccounted)
<1>1. EngineIInv => EventsAccounted
  BY DEF EngineIInv
<1> QED
  BY <1>1, EngineInvariant, PTL

\* ProcessAckNackMultipath, ProcessRetransmitMultipath: with any number of flows,
\* events and responses of one connection under way, its window is the sum of
\* its flows' once they have been answered, and never does every flow lose its weight.
THEOREM WindowsAddUp == EngineAssumption => (EngineSpec => []WindowIsSumOfFlows)
<1>1. EngineIInv => WindowIsSumOfFlows
  <2> SUFFICES ASSUME EngineIInv, NEW c \in Conns
               PROVE  /\ Multipath /\ (\A i \in DOMAIN responses : responses[i].cid # c)
                           => meta[c].fcwnd = Whole(c)
                      /\ \E f \in Flows : meta[c].weights[f] > 0
    BY DEF WindowIsSumOfFlows, Whole, ConnectionWindow
  <2>1. \E f \in Flows : meta[c].weights[f] > 0
    BY DEF EngineIInv, EngineTypes, GoodMetadata
  <2>2. ASSUME Multipath, \A i \in DOMAIN responses : responses[i].cid # c
        PROVE  meta[c].fcwnd = Whole(c)
    <3>1. \A x \in Entries(responses) : x.cid # c
      BY <2>2 DEF Entries
    <3> QED
      BY <2>2, <3>1 DEF EngineIInv, WholeTracked
  <2> QED
    BY <2>1, <2>2
<1> QED
  BY <1>1, EngineInvariant, PTL

\* "At most one decrease per round-trip time" (ComputeAckFabricCongestionWindow),
\* although the marker that says so is a snapshot of the metadata that waits in the
\* mailbox, wraps around and is moved by windows that do not fall.
THEOREM OneDecreaseARoundTrip ==
  EngineAssumption => (EngineSpec => [][DecreaseIsDue]_engineVars)
<1> SUFFICES ASSUME EngineAssumption
             PROVE  EngineSpec => [][DecreaseIsDue]_engineVars
  OBVIOUS
<1>1. EngineIInv /\ [EngineNext]_engineVars => [DecreaseIsDue]_engineVars
  <2> SUFFICES ASSUME EngineIInv, ~Multipath, events # <<>>, Decreases(Head(events))
               PROVE  LET e == Head(events)
                      IN  now - decreasedAt[<<e.cid, e.flow>>] >= RoundTrip(e)
    BY DEF DecreaseIsDue
  <2> QED
    BY DecreaseCovered DEF EngineIInv, Key
<1> QED
  BY <1>1, EngineInvariant, PTL DEF EngineSpec
=============================================================================
