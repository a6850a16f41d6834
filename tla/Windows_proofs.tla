--------------------------- MODULE Windows_proofs ---------------------------
(* Proofs about the packet windows, for every value of their constants:    *)
(* SlidingWindow first, then RetransmitTimer.                              *)
EXTENDS SlidingWindow, RetransmitTimer, WellFoundedInduction, TLAPS

\* The network invents no packets.
LEMMA TransfersSubset ==
  ASSUME NEW out, net' \in Transfers(out)
  PROVE  net' \subseteq net \cup out
BY DEF Transfers

LEMMA InitIInv == Init => IInv
<1> SUFFICES ASSUME Init PROVE IInv
  OBVIOUS
<1> USE SizesAssumption DEF Init
<1>1. TypeOK
  <2>1. TxTypeOK BY DEF TxTypeOK, Psns
  <2>2. RxTypeOK BY DEF RxTypeOK, Psns
  <2>3. FlagsTypeOK BY DEF FlagsTypeOK
  <2> QED BY <2>1, <2>2, <2>3 DEF TypeOK
<1>2. WaitsInOnePlace
  BY DEF WaitsInOnePlace
<1>3. AdmittedOnce
  BY DEF AdmittedOnce, Psns
<1>4. BasesOrdered /\ CompletedByWindow
  BY DEF BasesOrdered, CompletedByWindow
<1>5. PacketsTruthful /\ NeverBoth
  BY DEF PacketsTruthful, NeverBoth, OutOfOrder
<1> QED
  BY <1>1, <1>2, <1>3, <1>4, <1>5 DEF IInv

\* What a transmitter step has to preserve.
LEMMA TransmitNewStep ==
  ASSUME IInv, NEW f \in 1..TxSize, TransmitNew(f)
  PROVE  IInv'
<1> USE SizesAssumption DEF TransmitNew, SetupRetransmission, MeetsInitialTransmissionCCTxGatingCriteria, rxVars
<1>0. net' \subseteq net \cup {DataPacket(txNext)}
  BY TransfersSubset DEF TransmitNew, SetupRetransmission, MeetsInitialTransmissionCCTxGatingCriteria
<1>1. TypeOK'
  <2>1. TxTypeOK' BY DEF IInv, TypeOK, TxTypeOK, Psns
  <2>2. RxTypeOK' BY DEF IInv, TypeOK, RxTypeOK
  <2>3. FlagsTypeOK' BY DEF IInv, TypeOK, FlagsTypeOK
  <2> QED BY <2>1, <2>2, <2>3 DEF TypeOK
<1>2. WaitsInOnePlace'
  BY DEF IInv, TypeOK, TxTypeOK, WaitsInOnePlace
<1>3. AdmittedOnce'
  BY DEF IInv, AdmittedOnce
<1>4. BasesOrdered' /\ CompletedByWindow'
  BY DEF IInv, TypeOK, TxTypeOK, RxTypeOK, BasesOrdered, CompletedByWindow
<1>5. PacketsTruthful'
  BY <1>0 DEF IInv, TypeOK, TxTypeOK, PacketsTruthful, Acknowledged, DataPacket, BasesOrdered
<1>6. NeverBoth'
  BY <1>0 DEF IInv, NeverBoth, OutOfOrder, SomeBase, DataPacket
<1>7. (\A p \in txAcked : Acknowledged(p))' /\ (\A p \in rxReceived : p < txNext)'
  BY DEF IInv, TypeOK, TxTypeOK, RxTypeOK, Acknowledged
<1> QED
  BY <1>1, <1>2, <1>3, <1>4, <1>5, <1>6, <1>7 DEF IInv

\* Packets stay truthful when the transmitter moves and sends nothing new.
LEMMA PacketsStayTruthful ==
  ASSUME IInv, net' \subseteq net, UNCHANGED <<rxBase, rxAck, txNext>>
  PROVE  PacketsTruthful'
BY DEF IInv, PacketsTruthful, Acknowledged

\* NeverBoth survives a transmitter step whose base and bits were known.
LEMMA KnownStaysNeverBoth ==
  ASSUME IInv, net' \subseteq net, UNCHANGED <<rxBase, rxAck>>,
         SomeBase(txBase'), \A p \in txAcked' : OutOfOrder(p)
  PROVE  NeverBoth'
<1> SUFFICES ASSUME NEW p \in Psns, OutOfOrder(p)' PROVE ~SomeBase(p)'
  BY DEF NeverBoth
<1>1. OutOfOrder(p)
  BY DEF OutOfOrder
<1>2. ASSUME SomeBase(p)' PROVE SomeBase(p)
  BY <1>2 DEF SomeBase
<1> QED
  BY <1>1, <1>2 DEF IInv, NeverBoth

\* What is queued and what is outstanding trade places: no other part of the
\* invariant sees it.
LEMMA MoveStep ==
  ASSUME IInv,
         UNCHANGED <<txBase, txNext, txAcked, contexts, txOow, rxVars, answered,
                     completed>>,
         net' \subseteq net \/ \E p \in contexts : net' \subseteq net \cup {DataPacket(p)},
         outstanding' \cup retxQ' = outstanding \cup retxQ,
         outstanding' \cap retxQ' = {}
  PROVE  IInv'
<1> USE SizesAssumption DEF rxVars
<1>1. TypeOK'
  <2>1. TxTypeOK' BY DEF IInv, TypeOK, TxTypeOK
  <2>2. RxTypeOK' BY DEF IInv, TypeOK, RxTypeOK
  <2>3. FlagsTypeOK' BY DEF IInv, TypeOK, FlagsTypeOK
  <2> QED BY <2>1, <2>2, <2>3 DEF TypeOK
<1>2. WaitsInOnePlace'
  BY DEF IInv, WaitsInOnePlace
<1>3. AdmittedOnce' /\ BasesOrdered' /\ CompletedByWindow'
  BY DEF IInv, AdmittedOnce, BasesOrdered, CompletedByWindow
<1>4. \A m \in net' : m \in net \/ \E p \in 0..(txNext - 1) : m = DataPacket(p)
  BY DEF IInv, WaitsInOnePlace, TypeOK, TxTypeOK
<1>5. PacketsTruthful'
  BY <1>4 DEF IInv, PacketsTruthful, Acknowledged, DataPacket
<1>6. NeverBoth'
  <2> SUFFICES ASSUME NEW p \in Psns, OutOfOrder(p)', SomeBase(p)' PROVE FALSE
    BY DEF NeverBoth
  <2>1. OutOfOrder(p)
    BY <1>4 DEF OutOfOrder, DataPacket
  <2>2. SomeBase(p)
    BY <1>4 DEF SomeBase, DataPacket
  <2> QED
    BY <2>1, <2>2 DEF IInv, NeverBoth
<1>7. (\A p \in txAcked : Acknowledged(p))' /\ (\A p \in rxReceived : p < txNext)'
  BY DEF IInv, Acknowledged
<1> QED
  BY <1>1, <1>2, <1>3, <1>5, <1>6, <1>7 DEF IInv

LEMMA RetransmitStep ==
  ASSUME IInv, NEW p \in Psns, NEW f \in 1..TxSize, Retransmit(p, f)
  PROVE  IInv'
<1>1. net' \subseteq net \cup {DataPacket(p)}
  BY TransfersSubset DEF Retransmit, SetupRetransmission
<1>2. p \in contexts
  BY DEF Retransmit, SetupRetransmission, IInv, WaitsInOnePlace
<1>3. UNCHANGED <<txBase, txNext, txAcked, contexts, txOow, rxVars, answered, completed>>
  BY <1>2 DEF Retransmit, SetupRetransmission
<1>4. outstanding' \cup retxQ' = outstanding \cup retxQ /\ outstanding' \cap retxQ' = {}
  BY DEF Retransmit, SetupRetransmission, IInv, WaitsInOnePlace
<1> QED
  BY <1>1, <1>2, <1>3, <1>4, MoveStep

LEMMA TimeoutStep ==
  ASSUME IInv, HandleRetransmitTimeout
  PROVE  IInv'
<1>1. PICK S \in Prefixes(outstanding) :
         /\ outstanding' = outstanding \ S
         /\ retxQ' = retxQ \cup S
         /\ UNCHANGED <<txBase, txNext, txAcked, contexts, txOow, rxVars, answered,
                        net, completed>>
  BY DEF HandleRetransmitTimeout, InitiateRetransmission
<1>2. S \subseteq outstanding
  BY DEF Prefixes
<1>3. outstanding' \cup retxQ' = outstanding \cup retxQ /\ outstanding' \cap retxQ' = {}
  BY <1>1, <1>2 DEF IInv, WaitsInOnePlace
<1> QED
  BY <1>1, <1>3, MoveStep

LEMMA TlpStep ==
  ASSUME IInv, NEW p \in Psns, HandleTlpTimeout(p)
  PROVE  IInv'
<1>1. outstanding' \cup retxQ' = outstanding \cup retxQ /\ outstanding' \cap retxQ' = {}
  BY DEF HandleTlpTimeout, InitiateRetransmission, IInv, WaitsInOnePlace
<1> QED
  BY <1>1, MoveStep DEF HandleTlpTimeout, InitiateRetransmission

LEMMA DropStep ==
  ASSUME IInv, Drop
  PROVE  IInv'
<1>1. net' \subseteq net
  BY TransfersSubset DEF Drop
<1>2. outstanding' \cup retxQ' = outstanding \cup retxQ /\ outstanding' \cap retxQ' = {}
  BY DEF Drop, txVars, IInv, WaitsInOnePlace
<1> QED
  BY <1>1, <1>2, MoveStep DEF Drop, txVars

\* Whatever an ACK, a NACK or a response acknowledges: a set A of PSNs the
\* receiver has acknowledged, all those below the new base that are still
\* unacknowledged among them.
LEMMA AcknowledgeStep ==
  ASSUME IInv, NEW A \in SUBSET Nat, NEW c \in Nat, txBase <= c, c <= rxBase,
         txBase' = c,
         txAcked' = {p \in txAcked \cup A : p >= c},
         \A p \in A : p >= txBase /\ (p < rxBase \/ p \in rxAck),
         \A p \in txBase..(c - 1) : p \in txAcked \/ p \in A,
         contexts' = contexts \ A, completed' = completed \cup A,
         outstanding' \cup retxQ' = (outstanding \cup retxQ) \ A,
         outstanding' \cap retxQ' = {},
         net' \subseteq net, SomeBase(c),
         \A p \in txAcked' : OutOfOrder(p),
         answered' \subseteq Psns, txOow' \in BOOLEAN,
         UNCHANGED <<txNext, rxVars>>
  PROVE  IInv'
<1>0. \A p \in A : p >= txBase /\ p < txNext
  BY DEF IInv, BasesOrdered, TypeOK, TxTypeOK, RxTypeOK
<1>1. /\ txAcked' \subseteq c..(txNext - 1)
      /\ ((txBase..(txNext - 1)) \ txAcked) \ A = (c..(txNext - 1)) \ txAcked'
      /\ (0..(txBase - 1)) \cup txAcked \cup A = (0..(c - 1)) \cup txAcked'
  <2>1. txBase \in Nat /\ txNext \in Nat /\ txAcked \in SUBSET (txBase..(txNext - 1))
    BY DEF IInv, TypeOK, TxTypeOK
  <2>2. txBase <= c /\ c \in Nat /\ A \in SUBSET Nat
    OBVIOUS
  <2>3. \A p \in txBase..(c - 1) : p \in txAcked \/ p \in A
    OBVIOUS
  <2>4. txAcked' = {p \in txAcked \cup A : p >= c}
    OBVIOUS
  <2> QED
    <3> SUFFICES ASSUME NEW b, NEW n, NEW T, NEW U,
                        b = txBase, n = txNext, T = txAcked, U = txAcked'
                 PROVE  /\ U \subseteq c..(n - 1)
                        /\ ((b..(n - 1)) \ T) \ A = (c..(n - 1)) \ U
                        /\ (0..(b - 1)) \cup T \cup A = (0..(c - 1)) \cup U
      OBVIOUS
    <3>1. /\ b \in Nat /\ c \in Nat /\ n \in Nat /\ b <= c
          /\ T \in SUBSET (b..(n - 1)) /\ A \in SUBSET Nat
          /\ U = {p \in T \cup A : p >= c}
          /\ \A p \in A : p >= b /\ p < n
          /\ \A p \in b..(c - 1) : p \in T \/ p \in A
      BY <1>0, <2>1, <2>2, <2>3, <2>4
    <3>2. ASSUME NEW p \in U PROVE p \in c..(n - 1)
      BY ONLY <3>1, <3>2
    <3>3. ASSUME NEW p \in ((b..(n - 1)) \ T) \ A PROVE p \in (c..(n - 1)) \ U
      <4>1. p \notin b..(c - 1)
        BY ONLY <3>1, <3>3
      <4> QED
        BY ONLY <3>1, <3>3, <4>1
    <3>4. ASSUME NEW p \in (c..(n - 1)) \ U PROVE p \in ((b..(n - 1)) \ T) \ A
      BY ONLY <3>1, <3>4
    <3>5. ASSUME NEW p \in (0..(b - 1)) \cup T \cup A PROVE p \in (0..(c - 1)) \cup U
      BY ONLY <3>1, <3>5
    <3>6. ASSUME NEW p \in (0..(c - 1)) \cup U PROVE p \in (0..(b - 1)) \cup T \cup A
      <4>1. p \in 0..(b - 1) \/ p \in b..(c - 1) \/ p \in U
        BY ONLY <3>1, <3>6
      <4> QED
        BY ONLY <3>1, <4>1
    <3> QED
      BY ONLY <3>2, <3>3, <3>4, <3>5, <3>6
<1>2. WaitsInOnePlace'
  BY <1>1 DEF IInv, WaitsInOnePlace
<1>3. CompletedByWindow'
  BY <1>1 DEF IInv, CompletedByWindow
<1>4. TypeOK'
  <2>1. A \subseteq Psns
    BY <1>0, SizesAssumption DEF IInv, TypeOK, TxTypeOK, Psns
  <2>2. TxTypeOK'
    <3>1. txNext' = txNext /\ c <= txNext /\ txNext <= c + TxSize
      BY SizesAssumption DEF IInv, TypeOK, TxTypeOK, RxTypeOK, BasesOrdered
    <3>2. /\ contexts' \subseteq Psns /\ completed' \subseteq Psns
          /\ outstanding' \subseteq Psns /\ retxQ' \subseteq Psns
      BY <2>1 DEF IInv, TypeOK, TxTypeOK
    <3> QED
      BY <1>1, <3>1, <3>2 DEF IInv, TypeOK, TxTypeOK
  <2>3. RxTypeOK' BY DEF rxVars, IInv, TypeOK, RxTypeOK
  <2>4. FlagsTypeOK' BY DEF rxVars, IInv, TypeOK, FlagsTypeOK
  <2> QED BY <2>2, <2>3, <2>4 DEF TypeOK
<1>5. AdmittedOnce' /\ BasesOrdered'
  BY DEF rxVars, IInv, AdmittedOnce, BasesOrdered, TypeOK, TxTypeOK, RxTypeOK
<1>6. PacketsTruthful'
  BY PacketsStayTruthful DEF rxVars
<1>7. NeverBoth'
  BY KnownStaysNeverBoth DEF rxVars
<1>8. (\A p \in txAcked : Acknowledged(p))' /\ (\A p \in rxReceived : p < txNext)'
  BY DEF rxVars, IInv, Acknowledged
<1> QED
  BY <1>2, <1>3, <1>4, <1>5, <1>6, <1>7, <1>8 DEF IInv

LEMMA AckStep ==
  ASSUME IInv, NEW m \in net, HandleACK(m)
  PROVE  IInv'
<1> DEFINE below == NewlyBelow(txBase, m.bpsn, txAcked)
           above == m.acked \ txAcked
           left  == outstanding \ (below \cup above)
           A     == below \cup above
<1>1. PICK S \in EackRetransmissions(m, left) :
         /\ outstanding' = left \ S
         /\ retxQ' = (retxQ \ A) \cup S
  BY DEF HandleACK, InitiateRetransmission
<1>2. S \subseteq left
  <2> DEFINE holes == {p \in left : EarlyRetransmissionHole(m, p)}
  <2>1. holes \subseteq left
    OBVIOUS
  <2>2. S = {} \/ S \in SUBSET holes
    BY <1>1 DEF EackRetransmissions, Prefixes
  <2> QED
    BY <2>1, <2>2
<1>3. /\ m.bpsn \in 0..rxBase /\ m.bpsn >= txBase
      /\ \A p \in m.acked : p \in Nat /\ p >= m.bpsn /\ Acknowledged(p)
      /\ txBase \in Nat /\ rxBase \in Nat
  BY DEF HandleACK, InitiateRetransmission, IInv, PacketsTruthful, TypeOK, TxTypeOK, RxTypeOK
<1>4. /\ txBase' = m.bpsn /\ contexts' = contexts \ A /\ completed' = completed \cup A
      /\ txAcked' = {p \in txAcked : p >= m.bpsn} \cup above
      /\ UNCHANGED <<txNext, rxVars, answered>>
  BY DEF HandleACK, InitiateRetransmission, EnqueueAckToUlp
<1>5. A \in SUBSET Nat /\ \A p \in A : p >= txBase /\ (p < rxBase \/ p \in rxAck)
  BY <1>3 DEF NewlyBelow, Acknowledged
<1>6. txAcked' = {p \in txAcked \cup A : p >= m.bpsn}
  BY <1>3, <1>4 DEF NewlyBelow
<1>7. \A p \in txBase..(m.bpsn - 1) : p \in txAcked \/ p \in A
  BY <1>4 DEF NewlyBelow
<1>8. /\ outstanding' \cup retxQ' = (outstanding \cup retxQ) \ A
      /\ outstanding' \cap retxQ' = {}
  BY <1>1, <1>2 DEF IInv, WaitsInOnePlace
<1>9. net' \subseteq net
  BY TransfersSubset DEF HandleACK, InitiateRetransmission
<1>10. SomeBase(m.bpsn) /\ \A p \in txAcked' : OutOfOrder(p)
  BY <1>4 DEF SomeBase, OutOfOrder, HandleACK, InitiateRetransmission
<1>11. txOow' \in BOOLEAN
  <2>1. m.own \in BOOLEAN
    BY DEF HandleACK, InitiateRetransmission, IInv, PacketsTruthful
  <2> QED
    BY <2>1 DEF HandleACK, InitiateRetransmission, OowAfterAdvance, IInv, TypeOK, FlagsTypeOK
<1>12. answered' \subseteq Psns
  BY <1>4 DEF IInv, TypeOK, RxTypeOK
<1>13. m.bpsn \in Nat /\ txBase <= m.bpsn /\ m.bpsn <= rxBase
  BY <1>3, <1>4
<1>14. txBase' = m.bpsn /\ contexts' = contexts \ A /\ completed' = completed \cup A
       /\ UNCHANGED <<txNext, rxVars>>
  BY <1>4
<1> HIDE DEF A
<1> QED
  BY <1>5, <1>6, <1>7, <1>8, <1>9, <1>10, <1>11, <1>12, <1>13, <1>14, AcknowledgeStep

LEMMA NackStep ==
  ASSUME IInv, NEW m \in net, HandleNack(m)
  PROVE  IInv'
<1> DEFINE base  == IF m.bpsn > txBase THEN m.bpsn ELSE txBase
           A     == NewlyBelow(txBase, base, txAcked)
           left  == outstanding \ A
           holes == {p \in left : p - base < NackLimit}
<1>1. PICK S \in Prefixes(holes) :
         /\ outstanding' = left \ S
         /\ retxQ' = (retxQ \ A) \cup S
  BY DEF HandleNack, InitiateRetransmission, NackRetransmissions
<1>2. S \subseteq left
  BY DEF Prefixes
<1>3. m.bpsn \in 0..rxBase /\ txBase \in Nat /\ rxBase \in Nat /\ txBase <= rxBase
  BY DEF HandleNack, InitiateRetransmission, NackRetransmissions, IInv, PacketsTruthful, TypeOK, TxTypeOK, RxTypeOK, BasesOrdered
<1>4. /\ txBase' = base /\ contexts' = contexts \ A /\ completed' = completed \cup A
      /\ txAcked' = {p \in txAcked : p >= base}
      /\ UNCHANGED <<txNext, rxVars, answered>>
  BY DEF HandleNack, InitiateRetransmission, NackRetransmissions, EnqueueAckToUlp
<1>5. base \in Nat /\ txBase <= base /\ base <= rxBase
  BY <1>3
<1>6. A \in SUBSET Nat /\ \A p \in A : p >= txBase /\ (p < rxBase \/ p \in rxAck)
  BY <1>3, <1>5 DEF NewlyBelow
<1>7. txAcked' = {p \in txAcked \cup A : p >= base}
  BY <1>3, <1>4, <1>5 DEF NewlyBelow
<1>8. \A p \in txBase..(base - 1) : p \in txAcked \/ p \in A
  BY DEF NewlyBelow
<1>9. /\ outstanding' \cup retxQ' = (outstanding \cup retxQ) \ A
      /\ outstanding' \cap retxQ' = {}
  BY <1>1, <1>2 DEF IInv, WaitsInOnePlace
<1>10. net' \subseteq net
  BY TransfersSubset DEF HandleNack, InitiateRetransmission, NackRetransmissions
<1>11. SomeBase(base) /\ \A p \in txAcked' : OutOfOrder(p)
  BY <1>4 DEF SomeBase, OutOfOrder, HandleNack, InitiateRetransmission, NackRetransmissions
<1>12. txOow' \in BOOLEAN
  BY DEF HandleNack, InitiateRetransmission, NackRetransmissions, OowAfterAdvance, IInv, TypeOK, FlagsTypeOK
<1>13. answered' \subseteq Psns
  BY <1>4 DEF IInv, TypeOK, RxTypeOK
<1>14. txBase' = base /\ contexts' = contexts \ A /\ completed' = completed \cup A
       /\ UNCHANGED <<txNext, rxVars>>
  BY <1>4
<1> HIDE DEF A, base
<1> QED
  BY <1>5, <1>6, <1>7, <1>8, <1>9, <1>10, <1>11, <1>12, <1>13, <1>14, AcknowledgeStep

LEMMA ResponseStep ==
  ASSUME IInv, NEW m \in net, HandleResponse(m)
  PROVE  IInv'
<1> DEFINE q      == m.psn
           base1  == ImplicitBase(q)
           acked1 == txAcked \cup ImplicitAcked(q)
           base   == IF m.bpsn > base1 THEN m.bpsn ELSE base1
           A      == ImplicitAcked(q) \cup NewlyBelow(base1, base, acked1)
<1>1. /\ m.bpsn \in 0..rxBase /\ txBase \in Nat /\ rxBase \in Nat /\ txBase <= rxBase
      /\ q \in Psns /\ q \in Nat /\ (q < rxBase \/ q \in rxAck)
      /\ txAcked \subseteq Nat
  BY SizesAssumption DEF HandleResponse, IInv, PacketsTruthful, Acknowledged, TypeOK,
                         TxTypeOK, RxTypeOK, BasesOrdered, Psns
\* A response that acknowledges the base carries a base above it.
<1>2. txBase \in ImplicitAcked(q) => txBase = q /\ q < m.bpsn
  <2>1. ASSUME q = txBase PROVE q < m.bpsn
    <3>1. ~OutOfOrder(q)
      BY <1>1, <2>1 DEF IInv, NeverBoth, SomeBase
    <3> QED
      BY <1>1, <3>1 DEF OutOfOrder, HandleResponse
  <2> QED
    BY <2>1 DEF ImplicitAcked
<1>3. base \in Nat /\ txBase <= base /\ base <= rxBase /\ (base = m.bpsn \/ base = txBase)
      /\ m.bpsn <= base
  BY <1>1, <1>2 DEF ImplicitBase
<1>4. /\ txBase' = base /\ contexts' = contexts \ A /\ completed' = completed \cup A
      /\ txAcked' = {p \in acked1 : p >= base}
      /\ outstanding' = outstanding \ A /\ retxQ' = retxQ \ A
      /\ UNCHANGED <<txNext, rxVars>>
  BY DEF HandleResponse, EnqueueAckToUlp
<1>5. A \in SUBSET Nat /\ \A p \in A : p >= txBase /\ (p < rxBase \/ p \in rxAck)
  BY <1>1, <1>3 DEF NewlyBelow, ImplicitAcked, ImplicitBase
<1>6. txAcked' = {p \in txAcked \cup A : p >= base}
  <2>1. \A p \in NewlyBelow(base1, base, acked1) : ~(p >= base)
    BY <1>1, <1>3 DEF NewlyBelow, ImplicitBase
  <2> QED
    BY <1>4, <2>1
<1>7. \A p \in txBase..(base - 1) : p \in txAcked \/ p \in A
  BY <1>1, <1>2, <1>3 DEF NewlyBelow, ImplicitBase, ImplicitAcked
<1>8. /\ outstanding' \cup retxQ' = (outstanding \cup retxQ) \ A
      /\ outstanding' \cap retxQ' = {}
  BY <1>4 DEF IInv, WaitsInOnePlace
<1>9. net' \subseteq net
  BY TransfersSubset DEF HandleResponse
<1>10. SomeBase(base)
  BY <1>3 DEF SomeBase, HandleResponse
<1>11. \A p \in txAcked' : OutOfOrder(p)
  BY <1>1, <1>3, <1>4 DEF OutOfOrder, HandleResponse, ImplicitAcked
<1>12. txOow' \in BOOLEAN
  BY DEF HandleResponse, OowAfterAdvance, IInv, TypeOK, FlagsTypeOK
<1>13. answered' \subseteq Psns
  BY <1>1 DEF HandleResponse, IInv, TypeOK, RxTypeOK
<1>14. txBase' = base /\ contexts' = contexts \ A /\ completed' = completed \cup A
       /\ UNCHANGED <<txNext, rxVars>> /\ base \in Nat /\ txBase <= base /\ base <= rxBase
  BY <1>3, <1>4
<1> HIDE DEF A, base
<1> QED
  BY <1>5, <1>6, <1>7, <1>8, <1>9, <1>10, <1>11, <1>12, <1>13, <1>14, AcknowledgeStep

LEMMA PiggybackStep ==
  ASSUME IInv, NEW m \in net, HandlePiggybackedACK(m)
  PROVE  IInv'
<1> DEFINE A == NewlyBelow(txBase, m.bpsn, txAcked)
<1>1. m.type # "data" /\ m.bpsn > txBase
  BY DEF HandlePiggybackedACK
<1>2. m.bpsn \in 0..rxBase /\ txBase \in Nat /\ rxBase \in Nat /\ txBase <= rxBase
  BY <1>1 DEF IInv, PacketsTruthful, TypeOK, TxTypeOK, RxTypeOK, BasesOrdered
<1>3. /\ txBase' = m.bpsn /\ contexts' = contexts \ A /\ completed' = completed \cup A
      /\ txAcked' = {p \in txAcked : p >= m.bpsn}
      /\ outstanding' = outstanding \ A /\ retxQ' = retxQ \ A
      /\ UNCHANGED <<txNext, rxVars, answered>>
  BY DEF HandlePiggybackedACK, EnqueueAckToUlp
<1>4. A \in SUBSET Nat /\ \A p \in A : p >= txBase /\ (p < rxBase \/ p \in rxAck)
  BY <1>2 DEF NewlyBelow
<1>5. txAcked' = {p \in txAcked \cup A : p >= m.bpsn}
  BY <1>2, <1>3 DEF NewlyBelow
<1>6. \A p \in txBase..(m.bpsn - 1) : p \in txAcked \/ p \in A
  BY DEF NewlyBelow
<1>7. /\ outstanding' \cup retxQ' = (outstanding \cup retxQ) \ A
      /\ outstanding' \cap retxQ' = {}
  BY <1>3 DEF IInv, WaitsInOnePlace
<1>8. net' \subseteq net
  BY TransfersSubset DEF HandlePiggybackedACK
<1>9. SomeBase(m.bpsn) /\ \A p \in txAcked' : OutOfOrder(p)
  BY <1>1, <1>3 DEF SomeBase, OutOfOrder
<1>10. txOow' \in BOOLEAN
  BY DEF HandlePiggybackedACK, OowAfterAdvance, IInv, TypeOK, FlagsTypeOK
<1>11. answered' \subseteq Psns
  BY <1>3 DEF IInv, TypeOK, RxTypeOK
<1>12. /\ txBase' = m.bpsn /\ contexts' = contexts \ A /\ completed' = completed \cup A
       /\ UNCHANGED <<txNext, rxVars>>
       /\ m.bpsn \in Nat /\ txBase <= m.bpsn /\ m.bpsn <= rxBase
  BY <1>1, <1>2, <1>3
<1> HIDE DEF A
<1> QED
  BY <1>4, <1>5, <1>6, <1>7, <1>8, <1>9, <1>10, <1>11, <1>12, AcknowledgeStep

\* The packets the receiver may send in a step describe its state after it.
Describes(m) ==
  \/ \E o \in BOOLEAN : m = AckPacket(rxBase', rxAck', rxReceived', o)
  \/ m = NackPacket(rxBase')
  \/ m = OtherPacket(rxBase')
  \/ \E p \in Psns : m = Response(p, rxBase') /\ (p < rxBase' \/ p \in rxAck')

\* A receiver step that moves the window forward and sends what it describes.
LEMMA ReceiverStep ==
  ASSUME IInv, UNCHANGED <<txVars, answered, completed>>,
         rxBase' \in Nat, rxBase <= rxBase', rxBase' <= txNext,
         rxBase' = rxBase \/ rxBase' \notin rxAck,
         rxReceived' \subseteq rxBase'..(rxBase' + RxSize - 1),
         rxAck' \subseteq rxReceived',
         \A p \in rxReceived' : p < txNext,
         \A p \in rxAck : p < rxBase' \/ p \in rxAck',
         \A p \in rxAck' : p \in rxAck \/ p > rxBase,
         rxBase' \notin rxAck',
         accepts' \in [Psns -> Nat], AdmittedOnce',
         rxOow' \in BOOLEAN, ackDue' \in BOOLEAN,
         \A m \in net' : m \in net \/ Describes(m)
  PROVE  IInv'
<1> USE DEF txVars
<1>1. TypeOK'
  <2>1. TxTypeOK' BY DEF IInv, TypeOK, TxTypeOK
  <2>2. RxTypeOK' BY DEF IInv, TypeOK, RxTypeOK
  <2>3. FlagsTypeOK' BY DEF IInv, TypeOK, FlagsTypeOK
  <2> QED BY <2>1, <2>2, <2>3 DEF TypeOK
<1>2. WaitsInOnePlace' /\ CompletedByWindow'
  BY DEF IInv, WaitsInOnePlace, CompletedByWindow
<1>3. BasesOrdered'
  BY DEF IInv, BasesOrdered, TypeOK, TxTypeOK, RxTypeOK
<1>4. \A p \in Nat : Acknowledged(p) => Acknowledged(p)'
  BY DEF Acknowledged, IInv, TypeOK, RxTypeOK
<1>5. rxAck' \subseteq Nat /\ \A p \in rxAck' : p >= rxBase'
  BY DEF IInv, TypeOK, RxTypeOK
<1>6. ASSUME NEW m \in net'
      PROVE  /\ m.type \in {"data", "ack", "nack", "resp", "other"}
             /\ m.type = "data" => m.psn \in 0..(txNext' - 1)
             /\ m.type # "data" => m.bpsn \in 0..rxBase'
             /\ m.type = "ack" => m.own \in BOOLEAN
             /\ m.type = "ack" =>
                  \A p \in m.acked : p \in Nat /\ p >= m.bpsn /\ Acknowledged(p)'
             /\ m.type = "resp" => m.psn \in Psns /\ Acknowledged(m.psn)'
  <2>1. CASE m \in net
    <3>1. m.type # "data" => m.bpsn \in 0..rxBase'
      BY <2>1 DEF IInv, PacketsTruthful, TypeOK, RxTypeOK
    <3>2. m.type = "resp" => m.psn \in Nat
      BY <2>1, SizesAssumption DEF IInv, PacketsTruthful, Psns
    <3> QED
      BY <2>1, <3>1, <3>2, <1>4 DEF IInv, PacketsTruthful
  <2>2. CASE Describes(m)
    <3>1. CASE \E o \in BOOLEAN : m = AckPacket(rxBase', rxAck', rxReceived', o)
      <4>0. PICK o \in BOOLEAN : m = AckPacket(rxBase', rxAck', rxReceived', o)
        BY <3>1
      <4>1. m.type = "ack" /\ m.bpsn = rxBase' /\ m.acked = rxAck' /\ m.own = o
        BY ONLY <4>0 DEF AckPacket
      <4>2. m.own \in BOOLEAN
        BY ONLY <4>1, o \in BOOLEAN, Zenon
      <4>3. rxBase' \in 0..rxBase'
        OBVIOUS
      <4>4. \A p \in rxAck' : p \in Nat /\ p >= rxBase' /\ Acknowledged(p)'
        BY <1>5 DEF Acknowledged
      <4> QED
        BY ONLY <4>1, <4>2, <4>3, <4>4, Zenon
    <3>2. CASE m = NackPacket(rxBase')
      BY <3>2 DEF NackPacket
    <3>4. CASE m = OtherPacket(rxBase')
      BY <3>4 DEF OtherPacket
    <3>3. CASE \E p \in Psns : m = Response(p, rxBase') /\ (p < rxBase' \/ p \in rxAck')
      BY <3>3 DEF Response, Acknowledged
    <3> QED
      BY <2>2, <3>1, <3>2, <3>3, <3>4 DEF Describes
  <2> QED
    BY <2>1, <2>2, <1>6
<1>7. PacketsTruthful'
  BY <1>6 DEF PacketsTruthful
<1>8. NeverBoth'
  <2> SUFFICES ASSUME NEW p \in Psns, OutOfOrder(p)', SomeBase(p)' PROVE FALSE
    BY DEF NeverBoth
  <2>0. p \in Nat /\ rxBase \in Nat /\ txBase \in Nat
    BY SizesAssumption DEF IInv, TypeOK, TxTypeOK, RxTypeOK, Psns
  <2>1. OutOfOrder(p) \/ (p \in rxAck' /\ p > rxBase)
    <3>1. p \in rxAck' \/ OutOfOrder(p)
      BY <2>0 DEF OutOfOrder, Describes, AckPacket, NackPacket, OtherPacket, Response
    <3> QED
      BY <3>1 DEF OutOfOrder
  <2>2. SomeBase(p) \/ p = rxBase'
    BY DEF SomeBase, Describes, AckPacket, NackPacket, OtherPacket, Response
  <2>3. OutOfOrder(p) => p < rxBase \/ p \in rxAck
    BY DEF IInv, OutOfOrder, PacketsTruthful, Acknowledged
  <2>4. SomeBase(p) => p <= rxBase
    BY <2>0 DEF IInv, SomeBase, PacketsTruthful, BasesOrdered
  <2>5. OutOfOrder(p) => ~SomeBase(p)
    BY DEF IInv, NeverBoth
  <2>6. CASE p = rxBase'
    <3>1. OutOfOrder(p)
      BY <2>1, <2>6
    <3>2. rxBase' # rxBase
      BY <2>5, <2>6, <3>1 DEF SomeBase
    <3> QED
      BY <2>0, <2>3, <2>6, <3>1, <3>2
  <2>7. CASE SomeBase(p)
    BY <2>0, <2>1, <2>4, <2>5, <2>7
  <2> QED
    BY <2>2, <2>6, <2>7
<1>9. (\A p \in txAcked : Acknowledged(p))' /\ (\A p \in rxReceived : p < txNext)'
  <2>1. txAcked \subseteq Nat
    BY DEF IInv, TypeOK, TxTypeOK
  <2> QED
    BY <1>4, <2>1 DEF IInv
<1> QED
  BY <1>1, <1>2, <1>3, <1>7, <1>8, <1>9 DEF IInv

\* The base of the receive window is not acknowledged.
LEMMA BaseNotAcked ==
  ASSUME IInv
  PROVE  rxBase \notin rxAck
<1> SUFFICES ASSUME rxBase \in rxAck PROVE FALSE
  OBVIOUS
<1>1. rxBase \in Psns
  BY SizesAssumption DEF IInv, TypeOK, TxTypeOK, RxTypeOK, Psns
<1>2. OutOfOrder(rxBase) /\ SomeBase(rxBase)
  BY DEF OutOfOrder, SomeBase
<1> QED
  BY <1>1, <1>2 DEF IInv, NeverBoth

\* A receiver step that leaves the window alone.
LEMMA QuietReceiverStep ==
  ASSUME IInv, UNCHANGED <<txVars, answered, completed>>,
         UNCHANGED <<rxBase, rxReceived, rxAck, accepts>>,
         rxOow' \in BOOLEAN, ackDue' \in BOOLEAN,
         \A m \in net' : m \in net \/ Describes(m)
  PROVE  IInv'
<1>1. rxBase \notin rxAck
  BY BaseNotAcked
<1>2. /\ rxBase \in Nat /\ rxBase <= txNext
      /\ rxReceived \subseteq rxBase..(rxBase + RxSize - 1)
      /\ rxAck \subseteq rxReceived
      /\ \A p \in rxReceived : p < txNext
      /\ accepts \in [Psns -> Nat]
  BY DEF IInv, TypeOK, RxTypeOK, BasesOrdered
<1>3. AdmittedOnce'
  BY DEF IInv, AdmittedOnce
<1> QED
  BY <1>1, <1>2, <1>3, ReceiverStep

\* UpdateReceiveAckBitmap keeps the bits in the bitmaps, ends at a base whose
\* bit is clear, forgets no acknowledgement and accounts for the new PSN.
LEMMA UpdateKeepsWindow ==
  ASSUME IInv, NEW p \in rxBase..(rxBase + RxSize - 1), p < txNext, p \notin rxAck,
         NEW n \in rxBase..(rxBase + RxSize), UpdateReceiveAckBitmap(p, n)
  PROVE  /\ rxBase' \in Nat /\ rxBase <= rxBase' /\ rxBase' <= txNext
         /\ rxBase' = rxBase \/ rxBase' \notin rxAck
         /\ rxReceived' \subseteq rxBase'..(rxBase' + RxSize - 1)
         /\ rxAck' \subseteq rxReceived'
         /\ \A q \in rxReceived' : q < txNext
         /\ \A q \in rxAck : q < rxBase' \/ q \in rxAck'
         /\ \A q \in rxAck' : q \in rxAck \/ q > rxBase
         /\ rxBase' \notin rxAck'
         /\ \A q \in Nat : (q < rxBase' \/ q \in rxReceived')
                              <=> (q < rxBase \/ q \in rxReceived \/ q = p)
         /\ \A q \in Nat : (q < rxBase' \/ q \in rxAck')
                              <=> (q < rxBase \/ q \in rxAck \/ q = p)
<1>1. rxBase \notin rxAck
  BY BaseNotAcked
<1>2. /\ rxBase \in Nat /\ txNext \in Nat /\ rxBase <= txNext /\ RxSize \in Nat
      /\ rxReceived \subseteq rxBase..(rxBase + RxSize - 1)
      /\ rxAck \subseteq rxReceived
      /\ \A q \in rxReceived : q < txNext
  BY SizesAssumption DEF IInv, TypeOK, TxTypeOK, RxTypeOK, BasesOrdered
<1>3. /\ rxBase' = n
      /\ rxAck' = {q \in rxAck \cup {p} : q >= n}
      /\ rxReceived' = {q \in rxReceived \cup {p} : q >= n}
  BY DEF UpdateReceiveAckBitmap
<1>4. n \in Nat /\ p \in Nat /\ rxBase <= n /\ rxBase <= p
  BY <1>2
<1>5. CASE p = rxBase
  <2>1. n \notin rxAck /\ n # p /\ \A k \in rxBase..(n - 1) : k \in rxAck \/ k = p
    BY <1>5 DEF UpdateReceiveAckBitmap
  <2>2. n > rxBase /\ (n - 1) \in rxBase..(n - 1)
    BY <1>2, <1>4, <1>5, <2>1
  <2>3. n - 1 < txNext
    BY <1>2, <2>1, <2>2
  <2>4. n <= txNext
    BY <1>2, <1>4, <2>3
  <2>5. \A q \in Nat : (q < n \/ q \in rxReceived')
                          <=> (q < rxBase \/ q \in rxReceived \/ q = p)
    BY <1>2, <1>3, <1>4, <2>1, <2>2
  <2>9. \A q \in Nat : (q < n \/ q \in rxAck')
                          <=> (q < rxBase \/ q \in rxAck \/ q = p)
    BY <1>2, <1>3, <1>4, <2>1, <2>2
  <2>6. rxReceived' \subseteq n..(n + RxSize - 1) /\ rxAck' \subseteq rxReceived'
    <3>1. ASSUME NEW q \in rxReceived' PROVE q \in n..(n + RxSize - 1)
      <4>1. q \in rxBase..(rxBase + RxSize - 1) /\ q >= n
        BY <1>2, <1>3, <3>1
      <4> QED
        BY <1>2, <1>4, <4>1
    <3>2. rxAck' \subseteq rxReceived'
      BY <1>2, <1>3
    <3> QED
      BY <3>1, <3>2
  <2>7. \A q \in rxReceived' : q < txNext
    BY <1>2, <1>3
  <2>8. /\ \A q \in rxAck : q < n \/ q \in rxAck'
        /\ \A q \in rxAck' : q \in rxAck \/ q > rxBase
        /\ n \notin rxAck'
    BY <1>2, <1>3, <1>4, <1>5, <2>1, <2>2
  <2> QED
    BY <1>2, <1>3, <1>4, <2>1, <2>4, <2>5, <2>6, <2>7, <2>8, <2>9
<1>6. CASE p # rxBase
  <2>1. n = rxBase
    BY <1>6 DEF UpdateReceiveAckBitmap
  <2>2. \A q \in rxReceived \cup {p} : q >= n
    BY <1>2, <1>4, <2>1
  <2>3. rxAck' = rxAck \cup {p}
    BY <1>2, <1>3, <2>2
  <2>4. rxReceived' = rxReceived \cup {p}
    BY <1>3, <2>2
  <2>5. rxReceived' \subseteq n..(n + RxSize - 1) /\ rxAck' \subseteq rxReceived'
    BY <1>2, <2>1, <2>3, <2>4
  <2>6. \A q \in rxReceived' : q < txNext
    BY <1>2, <2>4
  <2>7. /\ \A q \in rxAck : q < n \/ q \in rxAck'
        /\ \A q \in rxAck' : q \in rxAck \/ q > rxBase
        /\ n \notin rxAck'
    BY <1>1, <1>2, <1>4, <1>6, <2>1, <2>3
  <2>8. \A q \in Nat : (q < n \/ q \in rxReceived')
                          <=> (q < rxBase \/ q \in rxReceived \/ q = p)
    BY <2>1, <2>4
  <2>9. \A q \in Nat : (q < n \/ q \in rxAck')
                          <=> (q < rxBase \/ q \in rxAck \/ q = p)
    BY <2>1, <2>3
  <2> QED
    BY <1>2, <1>3, <1>4, <2>1, <2>5, <2>6, <2>7, <2>8, <2>9
<1> QED
  BY <1>5, <1>6

\* The ACK of AckOrCoalesce describes the state after the step.
LEMMA AckOrCoalesceSends ==
  ASSUME NEW oow \in BOOLEAN, NEW own \in BOOLEAN,
         AckOrCoalesce(oow, AckPacket(rxBase', rxAck', rxReceived', own))
  PROVE  /\ rxOow' \in BOOLEAN /\ ackDue' \in BOOLEAN
         /\ \A m \in net' : m \in net \/ Describes(m)
<1> DEFINE a == AckPacket(rxBase', rxAck', rxReceived', own)
<1>1. net' \subseteq net \cup {a}
  BY DEF AckOrCoalesce, Transfers
<1>2. Describes(a)
  BY Zenon DEF Describes
<1>3. rxOow' \in BOOLEAN /\ ackDue' \in BOOLEAN
  BY Zenon DEF AckOrCoalesce
<1> QED
  BY <1>1, <1>2, <1>3

LEMMA ReceiveDuplicateStep ==
  ASSUME IInv, NEW p \in Psns, ReceiveDuplicate(p)
  PROVE  IInv'
<1>1. /\ UNCHANGED <<txVars, answered, completed>>
      /\ UNCHANGED <<rxBase, rxReceived, rxAck, accepts>>
  BY DEF ReceiveDuplicate
<1>2. rxOow \in BOOLEAN
  BY DEF IInv, TypeOK, FlagsTypeOK
<1>3. AckOrCoalesce(rxOow, AckPacket(rxBase', rxAck', rxReceived', rxOow))
  BY <1>1 DEF ReceiveDuplicate, CurrentAck
<1>4. /\ rxOow' \in BOOLEAN /\ ackDue' \in BOOLEAN
      /\ \A m \in net' : m \in net \/ Describes(m)
  BY <1>2, <1>3, AckOrCoalesceSends
<1> QED
  BY <1>1, <1>4, QuietReceiverStep

LEMMA ReceiveOutOfWindowStep ==
  ASSUME IInv, NEW p \in Psns, ReceiveOutOfWindow(p)
  PROVE  IInv'
<1>1. /\ UNCHANGED <<txVars, answered, completed>>
      /\ UNCHANGED <<rxBase, rxReceived, rxAck, accepts>>
  BY DEF ReceiveOutOfWindow
<1>2. CASE /\ net' \in Transfers({NackPacket(rxBase)})
           /\ rxOow' = FALSE /\ ackDue' \in {ackDue, FALSE}
  <2>1. rxOow' \in BOOLEAN /\ ackDue' \in BOOLEAN
    BY <1>2 DEF IInv, TypeOK, FlagsTypeOK
  <2>2. \A m \in net' : m \in net \/ Describes(m)
    BY <1>1, <1>2 DEF Transfers, Describes
  <2> QED
    BY <1>1, <2>1, <2>2, QuietReceiverStep
<1>3. CASE AckOrCoalesce(TRUE, AckPacket(rxBase, rxAck, rxReceived, TRUE))
  <2>1. AckOrCoalesce(TRUE, AckPacket(rxBase', rxAck', rxReceived', TRUE))
    BY <1>1, <1>3
  <2>2. /\ rxOow' \in BOOLEAN /\ ackDue' \in BOOLEAN
        /\ \A m \in net' : m \in net \/ Describes(m)
    BY <2>1, AckOrCoalesceSends
  <2> QED
    BY <1>1, <2>2, QuietReceiverStep
<1> QED
  BY <1>2, <1>3 DEF ReceiveOutOfWindow

LEMMA AcceptPacketStep ==
  ASSUME IInv, NEW p \in Psns, AcceptPacket(p)
  PROVE  IInv'
<1>1. /\ UNCHANGED <<txVars, answered, completed>>
      /\ accepts' = [accepts EXCEPT ![p] = @ + 1]
      /\ p \in rxBase..(rxBase + RxSize - 1) /\ p \notin rxReceived
      /\ DataPacket(p) \in net
  BY DEF AcceptPacket, IsNew
<1>2. p < txNext
  <2>1. DataPacket(p).type = "data" /\ DataPacket(p).psn = p
    BY DEF DataPacket
  <2> QED
    BY <1>1, <2>1 DEF IInv, PacketsTruthful, TypeOK, TxTypeOK
<1>3. rxOow \in BOOLEAN
  BY DEF IInv, TypeOK, FlagsTypeOK
<1>4. /\ rxOow' \in BOOLEAN /\ ackDue' \in BOOLEAN
      /\ \A m \in net' : m \in net \/ Describes(m)
  BY <1>3, AckOrCoalesceSends DEF AcceptPacket
<1>5. /\ rxBase \in Nat /\ rxBase <= txNext /\ txNext \in Nat
      /\ rxReceived \subseteq rxBase..(rxBase + RxSize - 1)
      /\ rxAck \subseteq rxReceived
      /\ \A q \in rxReceived : q < txNext
      /\ accepts \in [Psns -> Nat] /\ Psns \subseteq Nat
  BY SizesAssumption DEF IInv, TypeOK, TxTypeOK, RxTypeOK, BasesOrdered, Psns
<1>6. /\ rxBase' \in Nat /\ rxBase <= rxBase' /\ rxBase' <= txNext
      /\ rxBase' = rxBase \/ rxBase' \notin rxAck
      /\ rxReceived' \subseteq rxBase'..(rxBase' + RxSize - 1)
      /\ rxAck' \subseteq rxReceived'
      /\ \A q \in rxReceived' : q < txNext
      /\ \A q \in rxAck : q < rxBase' \/ q \in rxAck'
      /\ \A q \in rxAck' : q \in rxAck \/ q > rxBase
      /\ rxBase' \notin rxAck'
      /\ \A q \in Nat : (q < rxBase' \/ q \in rxReceived')
                           <=> (q < rxBase \/ q \in rxReceived \/ q = p)
  <2>1. CASE p \in Deferred
    <3>1. rxReceived' = rxReceived \cup {p} /\ UNCHANGED <<rxBase, rxAck>>
      BY <2>1 DEF AcceptPacket
    <3> QED
      BY <1>1, <1>2, <1>5, <3>1, BaseNotAcked
  <2>2. CASE p \notin Deferred
    <3>1. PICK n \in rxBase..(rxBase + RxSize) : UpdateReceiveAckBitmap(p, n)
      BY <2>2 DEF AcceptPacket
    <3>2. p \notin rxAck
      BY <1>1, <1>5
    <3> QED
      BY <1>1, <1>2, <3>1, <3>2, UpdateKeepsWindow
  <2> QED
    BY <2>1, <2>2
<1>7. accepts' \in [Psns -> Nat]
  BY <1>1, <1>5
<1>8. AdmittedOnce'
  <2> SUFFICES ASSUME NEW q \in Psns
               PROVE  accepts'[q] = IF q < rxBase' \/ q \in rxReceived' THEN 1 ELSE 0
    BY DEF AdmittedOnce
  <2>1. accepts[q] = IF q < rxBase \/ q \in rxReceived THEN 1 ELSE 0
    BY DEF IInv, AdmittedOnce
  <2>2. q \in Nat /\ p >= rxBase
    BY <1>1, <1>5
  <2>3. accepts'[q] = IF q = p THEN accepts[q] + 1 ELSE accepts[q]
    BY <1>1, <1>5
  <2>4. ~(p < rxBase)
    BY <1>5, <2>2
  <2> QED
    BY <1>1, <1>6, <2>1, <2>2, <2>3, <2>4
<1> QED
  BY <1>1, <1>4, <1>6, <1>7, <1>8, ReceiverStep

LEMMA HandleAckFromUlpStep ==
  ASSUME IInv, NEW p \in Psns, HandleAckFromUlp(p)
  PROVE  IInv'
<1>1. /\ UNCHANGED <<txVars, answered, completed>> /\ accepts' = accepts
      /\ p \in rxReceived /\ p \notin rxAck
  BY DEF HandleAckFromUlp
<1>2. rxOow \in BOOLEAN
  BY DEF IInv, TypeOK, FlagsTypeOK
<1>3. /\ rxOow' \in BOOLEAN /\ ackDue' \in BOOLEAN
      /\ \A m \in net' : m \in net \/ Describes(m)
  BY <1>2, AckOrCoalesceSends DEF HandleAckFromUlp
<1>4. /\ p \in rxBase..(rxBase + RxSize - 1) /\ p < txNext
      /\ accepts \in [Psns -> Nat] /\ Psns \subseteq Nat
  BY <1>1, SizesAssumption DEF IInv, TypeOK, RxTypeOK, Psns
<1>5. PICK n \in rxBase..(rxBase + RxSize) : UpdateReceiveAckBitmap(p, n)
  BY DEF HandleAckFromUlp
<1>6. /\ rxBase' \in Nat /\ rxBase <= rxBase' /\ rxBase' <= txNext
      /\ rxBase' = rxBase \/ rxBase' \notin rxAck
      /\ rxReceived' \subseteq rxBase'..(rxBase' + RxSize - 1)
      /\ rxAck' \subseteq rxReceived'
      /\ \A q \in rxReceived' : q < txNext
      /\ \A q \in rxAck : q < rxBase' \/ q \in rxAck'
      /\ \A q \in rxAck' : q \in rxAck \/ q > rxBase
      /\ rxBase' \notin rxAck'
      /\ \A q \in Nat : (q < rxBase' \/ q \in rxReceived')
                           <=> (q < rxBase \/ q \in rxReceived \/ q = p)
  BY <1>1, <1>4, <1>5, UpdateKeepsWindow
<1>7. AdmittedOnce'
  BY <1>1, <1>4, <1>6 DEF IInv, AdmittedOnce
<1> QED
  BY <1>1, <1>3, <1>4, <1>6, <1>7, ReceiverStep

LEMMA HandleAckCoalescingTimeoutStep ==
  ASSUME IInv, HandleAckCoalescingTimeout
  PROVE  IInv'
<1>1. /\ UNCHANGED <<txVars, answered, completed>>
      /\ UNCHANGED <<rxBase, rxReceived, rxAck, accepts>>
  BY DEF HandleAckCoalescingTimeout
<1>2. rxOow \in BOOLEAN
  BY DEF IInv, TypeOK, FlagsTypeOK
<1>3. AckOrCoalesce(rxOow, AckPacket(rxBase', rxAck', rxReceived', rxOow))
  BY <1>1 DEF HandleAckCoalescingTimeout, CurrentAck, AckOrCoalesce
<1>4. /\ rxOow' \in BOOLEAN /\ ackDue' \in BOOLEAN
      /\ \A m \in net' : m \in net \/ Describes(m)
  BY <1>2, <1>3, AckOrCoalesceSends
<1> QED
  BY <1>1, <1>4, QuietReceiverStep

LEMMA TransmitResponseStep ==
  ASSUME IInv, NEW p \in Psns, TransmitResponse(p)
  PROVE  IInv'
<1>1. /\ UNCHANGED <<txVars, answered, completed>>
      /\ UNCHANGED <<rxBase, rxReceived, rxAck, accepts>>
  BY DEF TransmitResponse
<1>2. rxOow' \in BOOLEAN /\ ackDue' \in BOOLEAN
  BY DEF TransmitResponse, IInv, TypeOK, FlagsTypeOK
<1>3. \A m \in net' : m \in net \/ Describes(m)
  BY <1>1 DEF TransmitResponse, Transfers, Describes
<1> QED
  BY <1>1, <1>2, <1>3, QuietReceiverStep

LEMMA TransmitOtherStep ==
  ASSUME IInv, TransmitOther
  PROVE  IInv'
<1>1. /\ UNCHANGED <<txVars, answered, completed>>
      /\ UNCHANGED <<rxBase, rxReceived, rxAck, accepts>>
  BY DEF TransmitOther
<1>2. rxOow' \in BOOLEAN /\ ackDue' \in BOOLEAN
  BY DEF TransmitOther, IInv, TypeOK, FlagsTypeOK
<1>3. \A m \in net' : m \in net \/ Describes(m)
  BY <1>1 DEF TransmitOther, Transfers, Describes
<1> QED
  BY <1>1, <1>2, <1>3, QuietReceiverStep

\* Every step of the system preserves the invariant.
LEMMA NextStep == IInv /\ [Next]_vars => IInv'
<1> SUFFICES ASSUME IInv, [Next]_vars PROVE IInv'
  OBVIOUS
<1>1. CASE Next
  BY <1>1, TransmitNewStep, RetransmitStep, TimeoutStep, TlpStep, AckStep,
     NackStep, ResponseStep, PiggybackStep, ReceiveDuplicateStep, ReceiveOutOfWindowStep,
     AcceptPacketStep, DropStep, HandleAckFromUlpStep,
     HandleAckCoalescingTimeoutStep, TransmitResponseStep, TransmitOtherStep DEF Next
<1>2. CASE UNCHANGED vars
  <2>1. outstanding' \cup retxQ' = outstanding \cup retxQ /\ outstanding' \cap retxQ' = {}
    BY <1>2 DEF vars, txVars, IInv, WaitsInOnePlace
  <2> QED
    BY <1>2, <2>1, MoveStep DEF vars, txVars
<1> QED
  BY <1>1, <1>2

\* The strengthened invariant holds in every reachable state of the window
\* pair, over every lossy, duplicating and reordering network.
THEOREM Invariance == Spec => []IInv
BY InitIInv, NextStep, PTL DEF Spec

\* No index of any bitmap of the reliability manager leaves the bitmap, for
\* every window width and every number of packets.
THEOREM TypeCorrect == Spec => []TypeOK
<1>1. IInv => TypeOK
  BY DEF IInv
<1> QED
  BY Invariance, <1>1, PTL

\* An unacknowledged packet waits in exactly one of outstanding_packets and
\* the retransmission scheduler and has its context, so that no CHECK of
\* EnqueueAckToUlp fails.
THEOREM NothingForgotten == Spec => []WaitsInOnePlace
<1>1. IInv => WaitsInOnePlace
  BY DEF IInv
<1> QED
  BY Invariance, <1>1, PTL

\* HandleIncomingPacketOrResync admits no PSN twice.
THEOREM ExactlyOnce == Spec => []AdmittedOnce
<1>1. IInv => AdmittedOnce
  BY DEF IInv
<1> QED
  BY Invariance, <1>1, PTL

\* EnqueueAckToUlp completes only what the peer has acknowledged.
THEOREM NoEarlyCompletion == Spec => []CompletedIsAcknowledged
<1>1. ASSUME IInv PROVE CompletedIsAcknowledged
  <2> SUFFICES ASSUME NEW p \in completed PROVE Acknowledged(p)
    BY DEF CompletedIsAcknowledged, Acknowledged
  <2>1. CASE p \in txAcked
    BY <1>1, <2>1 DEF IInv
  <2>2. CASE p \in 0..(txBase - 1)
    BY <1>1, <2>2 DEF IInv, BasesOrdered, TypeOK, TxTypeOK, RxTypeOK, Acknowledged
  <2> QED
    BY <1>1, <2>1, <2>2 DEF IInv, CompletedByWindow
<1> QED
  BY Invariance, <1>1, PTL

\* HandleImplicitAck's step by one never leaves the base of the transmit
\* window at an acknowledged PSN.
THEOREM BaseUnacknowledged == Spec => []BaseIsUnacknowledged
<1>1. ASSUME IInv PROVE BaseIsUnacknowledged
  <2> SUFFICES ASSUME txBase \in txAcked PROVE FALSE
    BY DEF BaseIsUnacknowledged
  <2>1. txBase \in Psns
    BY <1>1, SizesAssumption DEF IInv, TypeOK, TxTypeOK, Psns
  <2>2. OutOfOrder(txBase) /\ SomeBase(txBase)
    BY DEF OutOfOrder, SomeBase
  <2> QED
    BY <1>1, <2>1, <2>2 DEF IInv, NeverBoth
<1> QED
  BY Invariance, <1>1, PTL

\* The base PSNs of the two ends never cross.
THEOREM BasesNeverCross == Spec => []BasesOrdered
<1>1. IInv => BasesOrdered
  BY DEF IInv
<1> QED
  BY Invariance, <1>1, PTL

----------------------------------------------------------------------------
(* Refinement.                                                             *)

LEMMA BelowIsMonotonic ==
  ASSUME NEW a \in Nat, NEW b \in Nat, a <= b
  PROVE  \A q \in 0..(a - 1) : q < b
OBVIOUS

\* An acknowledging step of the transmitter completes acknowledged packets.
LEMMA CompletingStep ==
  ASSUME IInv', NEW A, EnqueueAckToUlp(A), UNCHANGED <<txNext, rxVars>>
  PROVE  Channel!ChanNext
<1> DEFINE K == {p \in Psns : Acknowledged(p)}
<1>0. \A q \in 0..(txBase' - 1) : q < rxBase'
  <2>1. txBase' \in Nat /\ rxBase' \in Nat /\ txBase' <= rxBase'
    BY DEF IInv, BasesOrdered, TypeOK, TxTypeOK, RxTypeOK
  <2> QED
    BY <2>1, BelowIsMonotonic
<1>1. completed' \subseteq K
  <2> SUFFICES ASSUME NEW p \in completed' PROVE p \in Psns /\ Acknowledged(p)'
    BY DEF Acknowledged, rxVars
  <2>1. p \in Psns
    BY DEF IInv, TypeOK, TxTypeOK
  <2>2. p \in txAcked' \/ (p \in 0..(txBase' - 1))
    BY DEF IInv, CompletedByWindow
  <2>3. CASE p \in txAcked'
    BY <2>1, <2>3 DEF IInv
  <2>4. CASE p \in 0..(txBase' - 1)
    BY <1>0, <2>1, <2>4, Zenon DEF Acknowledged
  <2> QED
    BY <2>2, <2>3, <2>4
<1>2. completed' = completed \cup completed'
  BY DEF EnqueueAckToUlp
<1>3. K' = K
  BY DEF Acknowledged, rxVars
<1>4. Channel!Complete(completed')
  BY <1>1, <1>2, <1>3 DEF Channel!Complete, rxVars
<1> QED
  BY <1>1, <1>4 DEF Channel!ChanNext

\* A step that changes neither what is sent nor what the receiver has
\* accounted for is no step of the channel.
LEMMA QuietStep ==
  ASSUME UNCHANGED <<txNext, rxBase, rxAck, accepts, completed>>
  PROVE  UNCHANGED Channel!chanVars
BY DEF Channel!chanVars, Acknowledged

LEMMA AdmitStep ==
  ASSUME IInv, NEW p \in Psns, AcceptPacket(p)
  PROVE  Channel!ChanNext
<1> DEFINE K == {q \in Psns : Acknowledged(q)}
<1>1. /\ UNCHANGED <<txVars, completed>>
      /\ accepts' = [accepts EXCEPT ![p] = @ + 1]
      /\ p \in rxBase..(rxBase + RxSize - 1) /\ p \notin rxReceived
      /\ DataPacket(p) \in net
  BY DEF AcceptPacket, IsNew
<1>2. p < txNext
  <2>1. DataPacket(p).type = "data" /\ DataPacket(p).psn = p
    BY DEF DataPacket
  <2> QED
    BY <1>1, <2>1 DEF IInv, PacketsTruthful, TypeOK, TxTypeOK
<1>3. rxBase \in Nat /\ Psns \subseteq Nat /\ rxAck \subseteq rxReceived
      /\ accepts \in [Psns -> Nat]
  BY SizesAssumption DEF IInv, TypeOK, RxTypeOK, Psns
<1>4. accepts[p] = 0
  BY <1>1, <1>3 DEF IInv, AdmittedOnce
<1>5. accepts' = [accepts EXCEPT ![p] = 1]
  BY <1>1, <1>3, <1>4
<1>6. K' = IF p \in Deferred THEN K ELSE K \cup {p}
  <2>1. CASE p \in Deferred
    BY <2>1 DEF AcceptPacket, Acknowledged
  <2>2. CASE p \notin Deferred
    <3>1. PICK n \in rxBase..(rxBase + RxSize) : UpdateReceiveAckBitmap(p, n)
      BY <2>2 DEF AcceptPacket
    <3>2. p \notin rxAck
      BY <1>1, <1>3
    <3>3. \A q \in Nat : (q < rxBase' \/ q \in rxAck')
                            <=> (q < rxBase \/ q \in rxAck \/ q = p)
      BY <1>1, <1>2, <3>1, <3>2, UpdateKeepsWindow
    <3> QED
      BY <1>3, <2>2, <3>3 DEF Acknowledged
  <2> QED
    BY <2>1, <2>2
<1>7. Channel!Admit(p)
  BY <1>1, <1>2, <1>4, <1>5, <1>6 DEF Channel!Admit, txVars
<1> QED
  BY <1>7 DEF Channel!ChanNext, Psns

LEMMA UlpStep ==
  ASSUME IInv, NEW p \in Psns, HandleAckFromUlp(p)
  PROVE  Channel!ChanNext
<1> DEFINE K == {q \in Psns : Acknowledged(q)}
<1>1. /\ UNCHANGED <<txVars, completed, accepts>>
      /\ p \in Deferred /\ p \in rxReceived /\ p \notin rxAck
  BY DEF HandleAckFromUlp
<1>2. /\ p \in rxBase..(rxBase + RxSize - 1) /\ p < txNext
      /\ rxBase \in Nat /\ Psns \subseteq Nat
  BY <1>1, SizesAssumption DEF IInv, TypeOK, RxTypeOK, Psns
<1>3. PICK n \in rxBase..(rxBase + RxSize) : UpdateReceiveAckBitmap(p, n)
  BY DEF HandleAckFromUlp
<1>4. \A q \in Nat : (q < rxBase' \/ q \in rxAck')
                        <=> (q < rxBase \/ q \in rxAck \/ q = p)
  BY <1>1, <1>2, <1>3, UpdateKeepsWindow
<1>5. K' = K \cup {p}
  BY <1>2, <1>4 DEF Acknowledged
<1>6. accepts[p] = 1 /\ p \notin K
  BY <1>1, <1>2 DEF IInv, AdmittedOnce, Acknowledged
<1>7. Channel!Acknowledge(p)
  BY <1>1, <1>5, <1>6 DEF Channel!Acknowledge, txVars
<1> QED
  BY <1>7 DEF Channel!ChanNext, Psns

LEMMA ChannelStep ==
  ASSUME IInv, IInv', [Next]_vars
  PROVE  [Channel!ChanNext]_(Channel!chanVars)
<1>1. ASSUME NEW f \in 1..TxSize, TransmitNew(f) PROVE Channel!ChanNext
  <2>1. Channel!Send
    BY <1>1 DEF TransmitNew, SetupRetransmission, MeetsInitialTransmissionCCTxGatingCriteria, rxVars, Channel!Send, Acknowledged
  <2> QED
    BY <2>1 DEF Channel!ChanNext
<1>2. ASSUME NEW m \in net, HandleACK(m) PROVE Channel!ChanNext
  <2>1. PICK A : EnqueueAckToUlp(A)
    BY <1>2 DEF HandleACK, InitiateRetransmission
  <2> QED
    BY <1>2, <2>1, CompletingStep DEF HandleACK, InitiateRetransmission
<1>3. ASSUME NEW m \in net, HandleNack(m) PROVE Channel!ChanNext
  <2>1. PICK A : EnqueueAckToUlp(A)
    BY <1>3 DEF HandleNack, InitiateRetransmission, NackRetransmissions
  <2> QED
    BY <1>3, <2>1, CompletingStep DEF HandleNack, InitiateRetransmission, NackRetransmissions
<1>4. ASSUME NEW m \in net, HandleResponse(m) PROVE Channel!ChanNext
  <2>1. PICK A : EnqueueAckToUlp(A)
    BY <1>4 DEF HandleResponse
  <2> QED
    BY <1>4, <2>1, CompletingStep DEF HandleResponse
<1>5. ASSUME NEW m \in net, HandlePiggybackedACK(m) PROVE Channel!ChanNext
  <2>1. PICK A : EnqueueAckToUlp(A)
    BY <1>5 DEF HandlePiggybackedACK
  <2> QED
    BY <1>5, <2>1, CompletingStep DEF HandlePiggybackedACK
<1>6. ASSUME NEW p \in Psns,
             \/ \E f \in 1..TxSize : Retransmit(p, f)
             \/ HandleTlpTimeout(p) \/ ReceiveDuplicate(p)
             \/ ReceiveOutOfWindow(p) \/ TransmitResponse(p)
      PROVE  UNCHANGED Channel!chanVars
  BY <1>6, QuietStep DEF Retransmit, SetupRetransmission, HandleTlpTimeout, InitiateRetransmission, ReceiveDuplicate,
     ReceiveOutOfWindow, TransmitResponse, rxVars, txVars
<1>7. ASSUME \/ HandleRetransmitTimeout \/ HandleAckCoalescingTimeout
             \/ Drop \/ TransmitOther \/ UNCHANGED vars
      PROVE  UNCHANGED Channel!chanVars
  BY <1>7, QuietStep DEF HandleRetransmitTimeout, InitiateRetransmission, HandleAckCoalescingTimeout,
     Drop, TransmitOther, vars, rxVars, txVars
<1> QED
  BY <1>1, <1>2, <1>3, <1>4, <1>5, <1>6, <1>7, AdmitStep, UlpStep DEF Next

\* The window pair implements the reliable channel, whatever the widths of
\* its bitmaps, the thresholds of its loss recovery and the network's losses.
THEOREM Refinement == Spec => ImplementsChannel
<1>1. Init => Channel!ChanInit
  BY SizesAssumption DEF Init, Channel!ChanInit, Psns, Acknowledged
<1>2. IInv /\ IInv' /\ [Next]_vars => [Channel!ChanNext]_(Channel!chanVars)
  BY ChannelStep
<1> QED
  BY <1>1, <1>2, Invariance, PTL DEF Spec, ImplementsChannel, Channel!ChanSpec

-----------------------------------------------------------------------------
(* RetransmitTimer. *)

\* A set of naturals that is not empty has a least element.
LEMMA LeastTime ==
  ASSUME NEW T, T \subseteq Nat, T # {}
  PROVE  \E x \in T : \A y \in T : x <= y
<1>1. PICK x \in T : \A y \in T : ~(<<y, x>> \in OpToRel(<, Nat))
  BY NatLessThanWellFounded, WFMin
<1>2. \A y \in T : ~(y < x)
  BY <1>1 DEF OpToRel
<1> QED
  BY <1>2

LEMMA MinOfTimes ==
  ASSUME NEW T, T \subseteq Nat, T # {}
  PROVE  Min(T) \in T /\ \A y \in T : Min(T) <= y
<1>1. \E x \in T : \A y \in T : x <= y
  BY LeastTime
<1> QED
  BY <1>1 DEF Min

LEMMA MaxOfTimes ==
  ASSUME NEW n \in Nat, NEW T, T \subseteq 0..n, T # {}
  PROVE  Max(T) \in T /\ \A y \in T : Max(T) >= y
<1> DEFINE D == {n - y : y \in T}
<1>1. D \subseteq Nat /\ D # {}
  <2>1. \A y \in T : n - y \in Nat
    OBVIOUS
  <2> QED
    BY <2>1
<1>2. PICK d \in D : \A e \in D : d <= e
  <2> HIDE DEF D
  <2> QED
    BY <1>1, LeastTime
<1>3. PICK x \in T : d = n - x
  BY <1>2
<1>4. \A y \in T : x >= y
  <2> SUFFICES ASSUME NEW y \in T PROVE x >= y
    OBVIOUS
  <2>1. d <= n - y
    BY <1>2
  <2> QED
    BY <1>3, <2>1
<1> QED
  BY <1>4 DEF Max

LEMMA MaxOfPair ==
  ASSUME NEW a \in Nat, NEW b \in Nat
  PROVE  /\ Max({a, b}) \in {a, b} /\ Max({a, b}) >= a /\ Max({a, b}) >= b
<1>1. {a, b} \subseteq 0..(a + b) /\ a + b \in Nat
  OBVIOUS
<1> QED
  BY <1>1, MaxOfTimes

LEMMA MinOfPair ==
  ASSUME NEW a \in Nat, NEW b \in Nat
  PROVE  Min({a, b}) = IF a <= b THEN a ELSE b
<1>1. {a, b} \subseteq Nat
  OBVIOUS
<1>2. Min({a, b}) \in {a, b} /\ Min({a, b}) <= a /\ Min({a, b}) <= b
  BY <1>1, MinOfTimes
<1> QED
  BY <1>2
-----------------------------------------------------------------------------
(* The head of line and its timeout.                                       *)

\* What the timeout of a packet is computed from.
TimeoutTypes ==
  /\ TimerAssumption /\ rto \in Rtos /\ rackRto \in Nat
  /\ \A p \in Packets : xmit[p] \in Nat
  /\ \A p \in Outstanding : xmit[p] > 0

LEMMA TimeoutIsTime == TimeoutTypes => \A p \in Packets : TimeoutOf(p) \in Nat
<1> SUFFICES ASSUME TimeoutTypes, NEW p \in Packets PROVE TimeoutOf(p) \in Nat
  OBVIOUS
<1>1. RnrTimeout \in Nat /\ UlpRto \in Nat /\ rto \in Nat /\ rackRto \in Nat
  BY DEF TimeoutTypes, TimerAssumption
<1>2. Min({rto, rackRto}) \in Nat
  BY <1>1, MinOfPair
<1> QED
  BY <1>1, <1>2 DEF TimeoutOf

\* The base time is that of a head, and no head's is earlier.
BaseOfHead ==
  /\ BaseTime \in Nat \ {0}
  /\ \E p \in Heads : BaseTime = xmit[p] + TimeoutOf(p)
  /\ \A p \in Heads : BaseTime <= xmit[p] + TimeoutOf(p)

LEMMA HeadExists == TimeoutTypes /\ Outstanding # {} => BaseOfHead
<1> SUFFICES ASSUME TimeoutTypes, Outstanding # {} PROVE BaseOfHead
  OBVIOUS
<1>1. Packets \subseteq Nat /\ Outstanding \subseteq Packets
  BY DEF TimeoutTypes, TimerAssumption, Outstanding
<1>2. Heads # {}
  <2>1. PICK p \in Outstanding : \A q \in Outstanding : p <= q
    BY <1>1, LeastTime
  <2> QED
    BY <2>1 DEF Heads
<1> DEFINE T == {xmit[p] + TimeoutOf(p) : p \in Heads}
<1>3. \A p \in Heads : xmit[p] + TimeoutOf(p) \in Nat \ {0}
  <2> SUFFICES ASSUME NEW p \in Heads PROVE xmit[p] + TimeoutOf(p) \in Nat \ {0}
    OBVIOUS
  <2>1. p \in Outstanding /\ p \in Packets
    BY <1>1 DEF Heads
  <2>2. xmit[p] \in Nat /\ xmit[p] > 0 /\ TimeoutOf(p) \in Nat
    BY <2>1, TimeoutIsTime DEF TimeoutTypes
  <2> QED
    BY <2>2
<1>4. T \subseteq Nat /\ T # {}
  BY <1>2, <1>3
<1>5. Min(T) \in T /\ \A y \in T : Min(T) <= y
  <2> HIDE DEF T
  <2> QED
    BY <1>4, MinOfTimes
<1>6. BaseTime = Min(T)
  BY DEF BaseTime
<1> QED
  BY <1>3, <1>5, <1>6 DEF BaseOfHead

LEMMA HeadExistsNext == (TimeoutTypes /\ Outstanding # {})' => BaseOfHead'
BY HeadExists, PTL
-----------------------------------------------------------------------------
(* The invariant in two parts: what the packets and the other timer keep,  *)
(* and the expiration time with its events.                                *)

PacketsOK ==
  /\ TimerAssumption /\ AttemptsAgree
  /\ now \in 1..MaxTime /\ rto \in Rtos
  /\ windowOf \in [Packets -> Windows]
  /\ place \in [Packets -> {"unsent", "outstanding", "queued", "acked"}]
  /\ xmit \in [Packets -> 0..MaxTime]
  /\ attempts \in [Packets -> 0..MaxAttempts] /\ early \in [Packets -> 0..MaxAttempts]
  /\ received \subseteq Packets /\ rnr \subseteq Packets
  /\ rackXmit \in Nat /\ rackRto \in Nat
  /\ pto \in Nat /\ tlpEvents \subseteq Nat /\ \A t \in tlpEvents : t >= now

\* Expiration time b + j and events q.
Expiration(b, j, q) ==
  /\ b \in Nat /\ j \in Nat /\ q \subseteq Nat /\ \A t \in q : t >= now
  /\ b # 0 => b + j \in q

LEMMA IInvParts ==
  ASSUME TimerAssumption
  PROVE  TimerIInv <=> /\ PacketsOK /\ Expiration(rtoBase, rtoJitter, rtoEvents)
                       /\ Outstanding # {} => rtoBase # 0
                       /\ TimerCoversHead
BY DEF TimerIInv, TimerSound, TimerTypeOK, TimerTypes, ExpirationHasEvent, TimerPending,
       PacketsOK, Expiration

LEMMA IInvPartsNext ==
  ASSUME PacketsOK', Expiration(rtoBase, rtoJitter, rtoEvents)',
         Outstanding' # {} => rtoBase' # 0, TimerCoversHead'
  PROVE  TimerIInv'
BY DEF TimerIInv, TimerSound, TimerTypeOK, TimerTypes, ExpirationHasEvent, TimerPending,
       PacketsOK, Expiration

LEMMA PacketsGiveTimeouts == PacketsOK => TimeoutTypes
<1> SUFFICES ASSUME PacketsOK PROVE TimeoutTypes
  OBVIOUS
<1>1. \A p \in Outstanding : p \in Packets /\ place[p] = "outstanding"
  BY DEF Outstanding
<1>2. \A p \in Packets : xmit[p] \in Nat
  BY DEF PacketsOK
<1> QED
  BY <1>1, <1>2 DEF PacketsOK, TimeoutTypes, AttemptsAgree

LEMMA PacketsGiveTimeoutsNext == PacketsOK' => TimeoutTypes'
BY PacketsGiveTimeouts, PTL

\* SetupRetransmitTimer leaves the timer set, in time, with its event.
LEMMA SetupSets ==
  ASSUME PacketsOK, PacketsOK', now' = now, NEW b, NEW j, NEW q, Expiration(b, j, q),
         SetupRetransmitTimer(b, j, q)
  PROVE  TimerIInv'
<1>1. /\ now \in Nat \ {0} /\ Jitters \subseteq Nat
      /\ b \in Nat /\ j \in Nat /\ q \subseteq Nat /\ \A t \in q : t >= now
      /\ b # 0 => b + j \in q
  BY DEF PacketsOK, TimerAssumption, Expiration
<1>2. TimeoutTypes'
  BY PacketsGiveTimeoutsNext
<1>3. CASE Outstanding' = {}
  <2>1. rtoBase' = b /\ rtoJitter' = j /\ rtoEvents' = q
    BY <1>3 DEF SetupRetransmitTimer
  <2> QED
    BY <1>1, <1>3, <2>1, IInvPartsNext DEF Expiration, TimerCoversHead
<1>4. CASE Outstanding' # {}
  <2>1. BaseTime' \in Nat \ {0}
    BY <1>2, <1>4, HeadExistsNext DEF BaseOfHead
  <2> DEFINE base == BaseTime'
  <2>2. base \in Nat \ {0}
    BY <2>1
  <2>3. \/ rtoBase' = b /\ rtoJitter' = j /\ rtoEvents' = q /\ base = b
        \/ \E k \in Jitters :
             /\ base + k < now
             /\ rtoBase' = now /\ rtoJitter' = 0 /\ rtoEvents' = q \cup {now}
        \/ \E k \in Jitters :
             /\ ~(base + k < now)
             /\ rtoBase' = base /\ rtoJitter' = k /\ rtoEvents' = q \cup {base + k}
    BY <1>4 DEF SetupRetransmitTimer
  <2>4. TimerCoversHead' <=>
          (Outstanding' # {} => rtoBase' <= Max({base, now}) \/ HeadIsQueued')
    BY DEF TimerCoversHead
  <2> HIDE DEF base
  <2>5. Max({base, now}) >= base /\ Max({base, now}) >= now /\ Max({base, now}) \in Nat
    BY <1>1, <2>2, MaxOfPair
  <2>6. /\ rtoBase' \in Nat \ {0} /\ rtoJitter' \in Nat /\ rtoEvents' \subseteq Nat
        /\ \A t \in rtoEvents' : t >= now
        /\ rtoBase' + rtoJitter' \in rtoEvents'
        /\ rtoBase' = base \/ rtoBase' = now
    <3>1. CASE rtoBase' = b /\ rtoJitter' = j /\ rtoEvents' = q /\ base = b
      BY <1>1, <2>2, <3>1
    <3>2. CASE rtoBase' = now /\ rtoJitter' = 0 /\ rtoEvents' = q \cup {now}
      BY <1>1, <3>2
    <3>3. ASSUME NEW k \in Jitters, ~(base + k < now),
                 rtoBase' = base, rtoJitter' = k, rtoEvents' = q \cup {base + k}
          PROVE  /\ rtoBase' \in Nat \ {0} /\ rtoJitter' \in Nat /\ rtoEvents' \subseteq Nat
                 /\ \A t \in rtoEvents' : t >= now
                 /\ rtoBase' + rtoJitter' \in rtoEvents'
      <4>1. k \in Nat /\ base + k \in Nat /\ base + k >= now
        BY <1>1, <2>2, <3>3
      <4> QED
        BY <1>1, <2>2, <3>3, <4>1
    <3> QED
      BY <2>3, <3>1, <3>2, <3>3
  <2>7. TimerCoversHead'
    BY <2>4, <2>5, <2>6
  <2> QED
    BY <2>6, <2>7, IInvPartsNext DEF Expiration
<1> QED
  BY <1>3, <1>4

\* SetupTlpTimer schedules in the future.
LEMMA SetupTlpSets ==
  ASSUME PacketsOK, now' = now, SetupTlpTimer
  PROVE  pto' \in Nat /\ tlpEvents' \subseteq Nat /\ \A t \in tlpEvents' : t >= now'
<1>1. now \in Nat /\ TlpTimeout \in Nat
  BY DEF PacketsOK, TimerAssumption
<1>2. pto \in Nat /\ tlpEvents \subseteq Nat /\ \A t \in tlpEvents : t >= now
  BY DEF PacketsOK
<1>3. CASE EnableTlp
  <2> DEFINE t == now + TlpTimeout
  <2>1. t \in Nat /\ t >= now
    BY <1>1
  <2>2. pto' = t /\ tlpEvents' = tlpEvents \cup {t}
    BY <1>3 DEF SetupTlpTimer
  <2> HIDE DEF t
  <2> QED
    BY <1>2, <2>1, <2>2
<1>4. CASE ~EnableTlp
  BY <1>2, <1>4 DEF SetupTlpTimer, tlpVars
<1> QED
  BY <1>3, <1>4

\* RACK compares with a time that has been.
LEMMA RackUpdateTypes ==
  ASSUME PacketsOK, NEW S \in SUBSET Packets, RackUpdate(S)
  PROVE  rackXmit' \in Nat /\ rackRto' \in Nat
<1> DEFINE sent == {t \in {xmit[p] : p \in S} : now - t >= Rtt /\ t > rackXmit}
<1>1. now \in Nat /\ Rtt \in Nat /\ RackWindow \in Nat /\ rackXmit \in Nat /\ rackRto \in Nat
      /\ \A p \in Packets : xmit[p] \in Nat
  BY DEF PacketsOK, TimerAssumption
<1>2. CASE EnableRack /\ sent # {}
  <2>1. sent \subseteq 0..now
    BY <1>1
  <2>2. rackXmit' = Max(sent) /\ rackRto' = now - Max(sent) + RackWindow
    BY <1>2 DEF RackUpdate
  <2> HIDE DEF sent
  <2>3. Max(sent) \in 0..now
    BY <1>1, <1>2, <2>1, MaxOfTimes
  <2> QED
    BY <1>1, <2>2, <2>3
<1>3. CASE ~(EnableRack /\ sent # {})
  BY <1>1, <1>3 DEF RackUpdate, rackVars
<1> QED
  BY <1>2, <1>3
-----------------------------------------------------------------------------
(* The steps.                                                              *)

LEMMA InitHolds == ASSUME TimerAssumption, TimerInit PROVE TimerIInv
<1>1. Outstanding = {}
  BY DEF TimerInit, Outstanding
<1>2. PacketsOK
  BY DEF TimerInit, PacketsOK, AttemptsAgree, TimerAssumption
<1> QED
  BY <1>1, <1>2, IInvParts DEF TimerInit, Expiration, TimerCoversHead

LEMMA TransmitKeeps ==
  ASSUME PacketsOK, Expiration(rtoBase, rtoJitter, rtoEvents), NEW p \in Packets, Transmit(p)
  PROVE  TimerIInv'
<1>1. /\ now' = now /\ place' = [place EXCEPT ![p] = "outstanding"]
      /\ xmit' = [xmit EXCEPT ![p] = now] /\ attempts' = [attempts EXCEPT ![p] = @ + 1]
      /\ UNCHANGED <<windowOf, early, received, rnr, rto, rackVars>>
      /\ SetupRetransmitTimer(rtoBase, rtoJitter, rtoEvents) /\ SetupTlpTimer
      /\ place[p] \in {"unsent", "queued"}
  BY DEF Transmit, IsNext
<1>2. attempts[p] \in Nat /\ attempts[p] < MaxAttempts /\ early[p] <= attempts[p]
      /\ MaxAttempts \in Nat /\ early[p] \in Nat /\ now \in Nat /\ now > 0 /\ MaxTime \in Nat
  BY <1>1 DEF PacketsOK, AttemptsAgree, TimerAssumption
<1>3. AttemptsAgree'
  <2> SUFFICES ASSUME NEW r \in Packets
               PROVE  /\ place'[r] = "unsent" => attempts'[r] = 0
                      /\ place'[r] = "outstanding" => early'[r] < attempts'[r] /\ xmit'[r] > 0
                      /\ place'[r] = "queued" => attempts'[r] < MaxAttempts
                      /\ early'[r] <= attempts'[r]
    BY DEF AttemptsAgree
  <2> QED
    BY <1>1, <1>2 DEF PacketsOK, AttemptsAgree
<1>4. PacketsOK'
  BY <1>1, <1>2, <1>3, SetupTlpSets DEF PacketsOK, rackVars, TimerAssumption
<1> QED
  BY <1>1, <1>4, SetupSets

LEMMA HandleACKOfKeeps ==
  ASSUME PacketsOK, Expiration(rtoBase, rtoJitter, rtoEvents),
         NEW A \in SUBSET Packets, NEW R \in SUBSET Packets, HandleACKOf(A, R)
  PROVE  TimerIInv'
<1>1. /\ now' = now /\ place' = [p \in Packets |-> IF p \in A THEN "acked" ELSE place[p]]
      /\ received' = received \cup R /\ RackUpdate(A \cup R)
      /\ UNCHANGED <<windowOf, xmit, attempts, early, rnr, rto>>
      /\ SetupRetransmitTimer(rtoBase, rtoJitter, rtoEvents) /\ SetupTlpTimer
  BY DEF HandleACKOf
<1>2. rackXmit' \in Nat /\ rackRto' \in Nat
  BY <1>1, RackUpdateTypes
<1>3. AttemptsAgree'
  BY <1>1 DEF PacketsOK, AttemptsAgree
<1>4. PacketsOK'
  BY <1>1, <1>2, <1>3, SetupTlpSets DEF PacketsOK, TimerAssumption
<1> QED
  BY <1>1, <1>4, SetupSets

LEMMA HandleRnrNackKeeps ==
  ASSUME PacketsOK, Expiration(rtoBase, rtoJitter, rtoEvents), NEW p \in Packets, HandleRnrNack(p)
  PROVE  TimerIInv'
<1>1. /\ now' = now /\ rnr' = rnr \cup {p} /\ RackUpdate({p})
      /\ UNCHANGED <<windowOf, place, xmit, attempts, early, received, rto>>
      /\ SetupRetransmitTimer(rtoBase, rtoJitter, rtoEvents) /\ SetupTlpTimer
  BY DEF HandleRnrNack
<1>2. rackXmit' \in Nat /\ rackRto' \in Nat
  BY <1>1, RackUpdateTypes
<1>3. AttemptsAgree'
  BY <1>1 DEF PacketsOK, AttemptsAgree
<1>4. PacketsOK'
  BY <1>1, <1>2, <1>3, SetupTlpSets DEF PacketsOK, TimerAssumption
<1> QED
  BY <1>1, <1>4, SetupSets

LEMMA RetransmitTimerFiresKeeps ==
  ASSUME PacketsOK, Expiration(rtoBase, rtoJitter, rtoEvents), RetransmitTimerFires
  PROVE  TimerIInv'
<1>1. /\ now' = now
      /\ place' = [p \in Packets |-> IF p \in TimedOut THEN "queued" ELSE place[p]]
      /\ early' = [p \in Packets |-> IF p \in TimedOut /\ IsEarlyRetx(p)
                                      THEN early[p] + 1 ELSE early[p]]
      /\ \A p \in TimedOut : attempts[p] < MaxAttempts
      /\ UNCHANGED <<windowOf, xmit, attempts, received, rnr, rto, rackVars, tlpVars>>
      /\ SetupRetransmitTimer(0, 0, rtoEvents \ {now})
  BY DEF RetransmitTimerFires
<1>2. \A p \in TimedOut : p \in Packets /\ place[p] = "outstanding"
  BY DEF TimedOut, Outstanding
<1>3. \A p \in Packets : early'[p] \in 0..MaxAttempts
  <2> SUFFICES ASSUME NEW p \in Packets PROVE early'[p] \in 0..MaxAttempts
    OBVIOUS
  <2>1. early[p] \in 0..MaxAttempts /\ attempts[p] \in 0..MaxAttempts /\ MaxAttempts \in Nat
    BY DEF PacketsOK, TimerAssumption
  <2>2. p \in TimedOut => early[p] < attempts[p]
    BY <1>2 DEF PacketsOK, AttemptsAgree
  <2> QED
    BY <1>1, <2>1, <2>2
<1>4. AttemptsAgree'
  <2> SUFFICES ASSUME NEW p \in Packets
               PROVE  /\ place'[p] = "unsent" => attempts'[p] = 0
                      /\ place'[p] = "outstanding" => early'[p] < attempts'[p] /\ xmit'[p] > 0
                      /\ place'[p] = "queued" => attempts'[p] < MaxAttempts
                      /\ early'[p] <= attempts'[p]
    BY DEF AttemptsAgree
  <2>1. early[p] \in Nat /\ attempts[p] \in Nat
    BY DEF PacketsOK, TimerAssumption
  <2> QED
    BY <1>1, <1>2, <2>1 DEF PacketsOK, AttemptsAgree
<1>5. PacketsOK'
  BY <1>1, <1>3, <1>4 DEF PacketsOK, rackVars, tlpVars, TimerAssumption
<1>6. Expiration(0, 0, rtoEvents \ {now})
  BY DEF Expiration
<1> QED
  BY <1>1, <1>5, <1>6, SetupSets

\* The head of line and its timeout are as before when no packet moved.
LEMMA SameBase ==
  ASSUME UNCHANGED <<packetVars, rto, rackVars>>
  PROVE  Outstanding' = Outstanding /\ BaseTime' = BaseTime /\ (HeadIsQueued' <=> HeadIsQueued)
BY DEF packetVars, rackVars, Outstanding, BaseTime, Heads, TimeoutOf, HeadIsQueued, SameWindow

LEMMA StaleRetransmitTimeoutKeeps ==
  ASSUME TimerAssumption, TimerIInv, StaleRetransmitTimeout
  PROVE  TimerIInv'
<1>1. /\ now' = now /\ rtoEvents' = rtoEvents \ {now} /\ now # rtoBase + rtoJitter
      /\ UNCHANGED <<packetVars, rto, rackVars, rtoBase, rtoJitter, tlpVars>>
  BY DEF StaleRetransmitTimeout, TimerIsValid
<1>2. PacketsOK /\ Expiration(rtoBase, rtoJitter, rtoEvents) /\ TimerCoversHead
      /\ (Outstanding # {} => rtoBase # 0)
  BY IInvParts
<1>3. PacketsOK'
  BY <1>1, <1>2 DEF PacketsOK, AttemptsAgree, packetVars, rackVars, tlpVars
<1>4. Expiration(rtoBase, rtoJitter, rtoEvents)'
  BY <1>1, <1>2 DEF Expiration
<1>5. TimerCoversHead' /\ (Outstanding' # {} => rtoBase' # 0)
  BY <1>1, <1>2, SameBase DEF TimerCoversHead
<1> QED
  BY <1>3, <1>4, <1>5, IInvPartsNext

LEMMA TickKeeps ==
  ASSUME TimerAssumption, TimerIInv, Tick
  PROVE  TimerIInv'
<1>1. /\ now < MaxTime /\ now \notin rtoEvents \cup tlpEvents /\ now' = now + 1
      /\ UNCHANGED <<packetVars, rto, rackVars, timerVars, tlpVars>>
  BY DEF Tick
<1>2. PacketsOK /\ Expiration(rtoBase, rtoJitter, rtoEvents) /\ TimerCoversHead
      /\ (Outstanding # {} => rtoBase # 0)
  BY IInvParts
<1>3. now \in Nat /\ MaxTime \in Nat /\ now > 0
  BY <1>2 DEF PacketsOK, TimerAssumption
<1>4. \A t \in rtoEvents \cup tlpEvents : t >= now'
  <2>1. \A t \in rtoEvents \cup tlpEvents : t \in Nat /\ t >= now /\ t # now
    BY <1>1, <1>2 DEF PacketsOK, Expiration
  <2> QED
    BY <1>1, <1>3, <2>1
<1>5. PacketsOK'
  BY <1>1, <1>2, <1>3, <1>4 DEF PacketsOK, AttemptsAgree, packetVars, rackVars, tlpVars
<1>6. Expiration(rtoBase, rtoJitter, rtoEvents)'
  BY <1>1, <1>2, <1>4 DEF Expiration, timerVars
<1>7. Outstanding' # {} => rtoBase' # 0
  BY <1>1, <1>2, SameBase DEF timerVars
<1>8. TimerCoversHead'
  <2> SUFFICES ASSUME Outstanding' # {}, ~HeadIsQueued'
               PROVE  rtoBase' <= Max({BaseTime', now'})
    BY DEF TimerCoversHead
  <2>1. Outstanding # {} /\ BaseTime' = BaseTime /\ rtoBase' = rtoBase
        /\ rtoBase <= Max({BaseTime, now})
    BY <1>1, <1>2, SameBase DEF TimerCoversHead, timerVars
  <2>2. BaseTime \in Nat
    BY <1>2, <2>1, PacketsGiveTimeouts, HeadExists DEF BaseOfHead
  <2> DEFINE base == BaseTime
  <2>3. base \in Nat /\ BaseTime' = base /\ rtoBase <= Max({base, now})
    BY <2>1, <2>2
  <2> HIDE DEF base
  <2>4. Max({base, now}) \in {base, now} /\ Max({base, now'}) >= base /\ Max({base, now'}) >= now'
        /\ Max({base, now'}) \in {base, now'}
    BY <1>1, <1>3, <2>3, MaxOfPair
  <2>5. rtoBase \in Nat /\ rtoBase <= Max({base, now'})
    BY <1>1, <1>2, <1>3, <2>3, <2>4 DEF Expiration
  <2> QED
    BY <2>1, <2>3, <2>5
<1> QED
  BY <1>5, <1>6, <1>7, <1>8, IInvPartsNext

\* A probe is taken from the outstanding packets.  It was the head of its
\* window, or the heads and the base time are as before.
LEMMA ProbeKeepsCover ==
  ASSUME PacketsOK, TimerCoversHead, NEW p \in Outstanding, early' = [early EXCEPT ![p] = @ + 1],
         place' = [place EXCEPT ![p] = "queued"],
         UNCHANGED <<now, windowOf, xmit, received, rnr, rto, rackVars, timerVars>>
  PROVE  Outstanding' \subseteq Outstanding /\ TimerCoversHead'
<1>1. /\ p \in Packets /\ Packets \subseteq Nat /\ Outstanding \subseteq Packets
      /\ place \in [Packets -> {"unsent", "outstanding", "queued", "acked"}]
      /\ early \in [Packets -> 0..MaxAttempts]
  BY DEF Outstanding, PacketsOK, TimerAssumption
<1>2. place'[p] = "queued" /\ \A q \in Packets \ {p} : place'[q] = place[q] /\ early'[q] = early[q]
  BY <1>1
<1>3. Outstanding' = Outstanding \ {p}
  BY <1>1, <1>2 DEF Outstanding
<1>4. CASE \A q \in Outstanding' : SameWindow(p, q) => p < q
  <2>1. HeadIsQueued'
    BY <1>1, <1>2, <1>4 DEF HeadIsQueued, SameWindow
  <2> QED
    BY <1>3, <2>1 DEF TimerCoversHead
<1>5. CASE \E q \in Outstanding' : SameWindow(p, q) /\ ~(p < q)
  <2>1. PICK q \in Outstanding' : SameWindow(p, q) /\ ~(p < q)
    BY <1>5
  <2>2. q \in Outstanding /\ q < p /\ q \in Nat /\ p \in Nat
    BY <1>1, <1>3, <2>1
  <2>3. Heads' = Heads
    <3>1. Heads' = {h \in Outstanding' : \A r \in Outstanding' : SameWindow(h, r) => h <= r}
      BY DEF Heads, SameWindow
    <3>2. p \notin Heads
      BY <2>1, <2>2 DEF Heads
    <3>3. ASSUME NEW h \in Heads PROVE h \in Heads'
      BY <1>3, <3>1, <3>2, <3>3 DEF Heads
    <3>4. ASSUME NEW h \in Heads' PROVE h \in Heads
      <4>1. h \in Outstanding /\ h # p /\ \A r \in Outstanding \ {p} : SameWindow(h, r) => h <= r
        BY <1>3, <3>1, <3>4
      <4>2. SameWindow(h, p) => h <= p
        <5>1. SameWindow(h, p) => SameWindow(h, q)
          BY <2>1 DEF SameWindow
        <5>2. SameWindow(h, p) => h <= q
          BY <1>3, <2>1, <4>1, <5>1
        <5> QED
          BY <1>1, <2>2, <4>1, <5>2
      <4> QED
        BY <4>1, <4>2 DEF Heads
    <3> QED
      BY <3>3, <3>4
  <2>4. \A h \in Heads : h # p /\ h \in Packets
    BY <1>1, <2>1, <2>2 DEF Heads
  <2>5. \A h \in Heads : xmit'[h] = xmit[h] /\ TimeoutOf(h)' = TimeoutOf(h)
    BY <1>2, <2>4 DEF TimeoutOf, rackVars
  <2>6. BaseTime' = Min({xmit'[h] + TimeoutOf(h)' : h \in Heads'})
    BY DEF BaseTime
  <2>7. BaseTime' = BaseTime
    <3>1. {xmit'[h] + TimeoutOf(h)' : h \in Heads'} = {xmit[h] + TimeoutOf(h) : h \in Heads}
      BY <2>3, <2>5
    <3> QED
      BY <2>6, <3>1 DEF BaseTime
  <2>8. HeadIsQueued => HeadIsQueued'
    <3> SUFFICES ASSUME NEW r \in Packets, place[r] = "queued",
                        \A u \in Outstanding : SameWindow(r, u) => r < u
                 PROVE  HeadIsQueued'
      BY DEF HeadIsQueued
    <3>1. place'[r] = "queued"
      BY <1>2
    <3> QED
      BY <1>3, <3>1 DEF HeadIsQueued, SameWindow
  <2>9. Outstanding # {}
    OBVIOUS
  <2> QED
    BY <1>3, <2>7, <2>8, <2>9 DEF TimerCoversHead, timerVars
<1> QED
  BY <1>3, <1>4, <1>5

LEMMA TlpTimerFiresKeeps ==
  ASSUME TimerAssumption, TimerIInv, TlpTimerFires
  PROVE  TimerIInv'
<1>1. /\ tlpEvents' = tlpEvents \ {now} /\ pto' \in {pto, 0}
      /\ UNCHANGED <<now, rto, rackVars, timerVars>>
  BY DEF TlpTimerFires
<1>2. PacketsOK /\ Expiration(rtoBase, rtoJitter, rtoEvents) /\ TimerCoversHead
      /\ (Outstanding # {} => rtoBase # 0)
  BY IInvParts
<1>3. Expiration(rtoBase, rtoJitter, rtoEvents)'
  BY <1>1, <1>2 DEF Expiration, timerVars
<1>4. pto' \in Nat /\ tlpEvents' \subseteq Nat /\ \A t \in tlpEvents' : t >= now'
  BY <1>1, <1>2 DEF PacketsOK
<1>5. CASE UNCHANGED packetVars
  <2>1. PacketsOK'
    BY <1>1, <1>2, <1>4, <1>5 DEF PacketsOK, AttemptsAgree, packetVars, rackVars
  <2>2. TimerCoversHead' /\ (Outstanding' # {} => rtoBase' # 0)
    BY <1>1, <1>2, <1>5, SameBase DEF TimerCoversHead, timerVars
  <2> QED
    BY <1>3, <2>1, <2>2, IInvPartsNext
<1>6. ASSUME NEW p \in Probes, attempts[p] < MaxAttempts,
             place' = [place EXCEPT ![p] = "queued"], early' = [early EXCEPT ![p] = @ + 1],
             UNCHANGED <<windowOf, xmit, attempts, received, rnr>>
      PROVE  TimerIInv'
  <2>1. p \in Outstanding /\ p \in Packets /\ place[p] = "outstanding"
    BY DEF Probes, Outstanding
  <2>2. early[p] \in Nat /\ attempts[p] \in Nat /\ early[p] < attempts[p] /\ MaxAttempts \in Nat
    BY <1>2, <2>1 DEF PacketsOK, AttemptsAgree, TimerAssumption
  <2>3. AttemptsAgree'
    <3> SUFFICES ASSUME NEW r \in Packets
                 PROVE  /\ place'[r] = "unsent" => attempts'[r] = 0
                        /\ place'[r] = "outstanding" => early'[r] < attempts'[r] /\ xmit'[r] > 0
                        /\ place'[r] = "queued" => attempts'[r] < MaxAttempts
                        /\ early'[r] <= attempts'[r]
      BY DEF AttemptsAgree
    <3> QED
      BY <1>2, <1>6, <2>1, <2>2 DEF PacketsOK, AttemptsAgree
  <2>4. PacketsOK'
    BY <1>1, <1>2, <1>4, <1>6, <2>1, <2>2, <2>3 DEF PacketsOK, rackVars
  <2>5. Outstanding' \subseteq Outstanding /\ TimerCoversHead'
    BY <1>1, <1>2, <1>6, <2>1, ProbeKeepsCover
  <2>6. Outstanding' # {} => rtoBase' # 0
    BY <1>1, <1>2, <2>5 DEF timerVars
  <2> QED
    BY <1>3, <2>4, <2>5, <2>6, IInvPartsNext
<1> QED
  BY <1>5, <1>6 DEF TlpTimerFires

\* A longer RTO lets no packet time out earlier.
LEMMA LongerRto ==
  ASSUME PacketsOK, PacketsOK', rto' >= rto, Outstanding # {},
         UNCHANGED <<packetVars, rackVars>>
  PROVE  BaseTime \in Nat /\ BaseTime' \in Nat /\ BaseTime' >= BaseTime
<1>1. Outstanding' = Outstanding /\ Heads' = Heads
  BY DEF packetVars, Outstanding, Heads, SameWindow
<1>2. TimeoutTypes /\ TimeoutTypes' /\ BaseOfHead /\ BaseOfHead'
  BY <1>1, PacketsGiveTimeouts, PacketsGiveTimeoutsNext, HeadExists, HeadExistsNext
<1>3. PICK p \in Heads : BaseTime' = xmit[p] + TimeoutOf(p)'
  BY <1>1, <1>2 DEF BaseOfHead, packetVars
<1>4. BaseTime <= xmit[p] + TimeoutOf(p) /\ BaseTime \in Nat /\ BaseTime' \in Nat
  BY <1>2 DEF BaseOfHead
<1>5. TimeoutOf(p)' >= TimeoutOf(p) /\ TimeoutOf(p) \in Nat /\ TimeoutOf(p)' \in Nat
  <2>1. RnrTimeout \in Nat /\ UlpRto \in Nat /\ rto \in Nat /\ rto' \in Nat /\ rackRto \in Nat
    BY DEF PacketsOK, TimerAssumption
  <2>2. Min({rto, rackRto}) \in Nat /\ Min({rto', rackRto}) \in Nat
        /\ Min({rto', rackRto}) >= Min({rto, rackRto})
    BY <2>1, MinOfPair
  <2> QED
    BY <2>1, <2>2 DEF TimeoutOf, packetVars, rackVars
<1>6. xmit[p] \in Nat
  BY <1>2 DEF TimeoutTypes, Heads, Outstanding
<1> QED
  BY <1>3, <1>4, <1>5, <1>6

LEMMA UpdateRtoKeeps ==
  ASSUME TimerAssumption, TimerIInv, NEW r \in Rtos, UpdateRto(r)
  PROVE  TimerIInv'
<1>1. rto' = r /\ UNCHANGED <<now, packetVars, rackVars, tlpVars>>
  BY DEF UpdateRto
<1>2. PacketsOK /\ Expiration(rtoBase, rtoJitter, rtoEvents) /\ TimerCoversHead
      /\ (Outstanding # {} => rtoBase # 0)
  BY IInvParts
<1>3. PacketsOK'
  BY <1>1, <1>2 DEF PacketsOK, AttemptsAgree, packetVars, rackVars, tlpVars
<1>4. CASE r < rto
  <2>1. SetupRetransmitTimer(0, 0, rtoEvents) /\ Expiration(0, 0, rtoEvents)
    BY <1>2, <1>4 DEF UpdateRto, Expiration
  <2> QED
    BY <1>1, <1>2, <1>3, <2>1, SetupSets
<1>5. CASE ~(r < rto)
  <2>1. UNCHANGED timerVars /\ rto \in Nat /\ r \in Nat
    BY <1>2, <1>5 DEF UpdateRto, PacketsOK, TimerAssumption
  <2>2. Outstanding' = Outstanding /\ (HeadIsQueued' <=> HeadIsQueued)
    BY <1>1 DEF packetVars, Outstanding, HeadIsQueued, SameWindow
  <2>3. Expiration(rtoBase, rtoJitter, rtoEvents)' /\ (Outstanding' # {} => rtoBase' # 0)
    BY <1>1, <1>2, <2>1, <2>2 DEF Expiration, timerVars
  <2>4. TimerCoversHead'
    <3> SUFFICES ASSUME Outstanding' # {}, ~HeadIsQueued'
                 PROVE  rtoBase' <= Max({BaseTime', now'})
      BY DEF TimerCoversHead
    <3>1. rtoBase <= Max({BaseTime, now}) /\ Outstanding # {}
      BY <1>2, <2>2 DEF TimerCoversHead
    <3>2. BaseTime \in Nat /\ BaseTime' \in Nat /\ BaseTime' >= BaseTime
      BY <1>1, <1>2, <1>3, <1>5, <2>1, <3>1, LongerRto
    <3> DEFINE old == BaseTime
               new == BaseTime'
    <3>3. old \in Nat /\ new \in Nat /\ new >= old /\ rtoBase <= Max({old, now})
          /\ rtoBase \in Nat /\ now \in Nat /\ rtoBase' = rtoBase /\ now' = now
      BY <1>1, <1>2, <2>1, <3>1, <3>2 DEF Expiration, PacketsOK, timerVars
    <3> HIDE DEF old, new
    <3>4. Max({old, now}) \in {old, now} /\ Max({new, now}) >= new /\ Max({new, now}) >= now
          /\ Max({new, now}) \in {new, now}
      BY <3>3, MaxOfPair
    <3>5. rtoBase' <= Max({new, now'})
      BY <3>3, <3>4
    <3> QED
      BY <3>5 DEF new
  <2> QED
    BY <1>3, <2>3, <2>4, IInvPartsNext
<1> QED
  BY <1>4, <1>5
-----------------------------------------------------------------------------
(* The theorems.                                                           *)

LEMMA NextHolds ==
  ASSUME TimerAssumption, TimerIInv, [TimerNext]_retransmitVars
  PROVE  TimerIInv'
<1>1. PacketsOK /\ Expiration(rtoBase, rtoJitter, rtoEvents)
  BY IInvParts
<1>2. ASSUME NEW p \in Packets, Transmit(p) PROVE TimerIInv'
  BY <1>1, <1>2, TransmitKeeps
<1>3. ASSUME NEW p \in Packets, HandleRnrNack(p) PROVE TimerIInv'
  BY <1>1, <1>3, HandleRnrNackKeeps
<1>4. ASSUME NEW A \in SUBSET Packets, NEW R \in SUBSET Packets, HandleACKOf(A, R) PROVE TimerIInv'
  BY <1>1, <1>4, HandleACKOfKeeps
<1>5. CASE RetransmitTimerFires
  BY <1>1, <1>5, RetransmitTimerFiresKeeps
<1>6. CASE StaleRetransmitTimeout
  BY <1>6, StaleRetransmitTimeoutKeeps
<1>7. CASE TlpTimerFires
  BY <1>7, TlpTimerFiresKeeps
<1>8. ASSUME NEW r \in Rtos, UpdateRto(r) PROVE TimerIInv'
  BY <1>8, UpdateRtoKeeps
<1>9. CASE Tick
  BY <1>9, TickKeeps
<1>10. CASE UNCHANGED retransmitVars
  <2>1. PacketsOK'
    BY <1>1, <1>10 DEF retransmitVars, PacketsOK, AttemptsAgree, packetVars, rackVars, tlpVars
  <2>2. Expiration(rtoBase, rtoJitter, rtoEvents)'
    BY <1>1, <1>10 DEF retransmitVars, timerVars, Expiration
  <2>3. TimerCoversHead' /\ (Outstanding' # {} => rtoBase' # 0)
    BY <1>10, SameBase, IInvParts DEF retransmitVars, timerVars, TimerCoversHead
  <2> QED
    BY <2>1, <2>2, <2>3, IInvPartsNext
<1> QED
  BY <1>2, <1>3, <1>4, <1>5, <1>6, <1>7, <1>8, <1>9, <1>10 DEF TimerNext

\* Timer, events and packets agree through every ACK, timeout, probe, RNR-NACK
\* and change of the RTO.
THEOREM TimerInvariance ==
  ASSUME TimerAssumption
  PROVE  TimerSpec => []TimerIInv
<1>1. TimerInit => TimerIInv
  BY InitHolds
<1>2. TimerIInv /\ [TimerNext]_retransmitVars => TimerIInv'
  BY NextHolds
<1> QED
  BY <1>1, <1>2, PTL DEF TimerSpec

\* While a packet is outstanding an event that is not stale is queued, and the
\* timer is not late for a head of line, unless a tail loss probe took the head
\* before it.
THEOREM TimerCountsAndIsInTime ==
  ASSUME TimerAssumption
  PROVE  TimerSpec => []TimerSound
<1>1. TimerIInv => TimerSound
  BY DEF TimerIInv
<1> QED
  BY <1>1, TimerInvariance, PTL

=============================================================================
