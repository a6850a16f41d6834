--------------------------- MODULE SlidingWindow ---------------------------
(***************************************************************************)
(* One transmit window of a Falcon connection, the receive window it is    *)
(* paired with at the peer, and the network between them.                  *)
(*                                                                         *)
(* Source: host/falcon/falcon_protocol_packet_reliability_manager.cc (the  *)
(* sliding window and the loss recovery), with the ACK side of             *)
(* falcon_protocol_ack_coalescing_engine.cc and the queue of               *)
(* falcon_protocol_retransmission_scheduler.cc.                            *)
(*                                                                         *)
(* A connection has two such pairs per direction, the request and the data *)
(* window.  They share ACK packets only: one pair sees of the other that a *)
(* whole ACK is discarded as stale, which here is a lost ACK (module       *)
(* SharedAcks shows that a piggybacked base is never lost this way).       *)
(* Bitmaps are sets of PSNs: bit i of a window with base b stands for PSN  *)
(* b+i, and a right shift forgets the PSNs below the new base.             *)
(* PSNs are natural numbers; that the code's 32-bit serial comparison      *)
(* agrees with their order is the subject of module SerialNumbers.         *)
(***************************************************************************)
EXTENDS Integers, FiniteSets

CONSTANTS
  TxSize,      \* width of the transmit bitmap (kTxBitmapWidth)
  RxSize,      \* width of the receive bitmaps (kRxBitmapWidth)
  Deferred,    \* PSNs of push data: acknowledged only once the ULP has
  Responding,  \* PSNs whose receiver answers (pull/push request, push grant)
  EackEarly,   \* EackBasedEarlyRetransmissionIsEnabled() and EACK-OWN
  OooDistance, \* ooo_distance_threshold_
  OooCount,    \* ooo_count_threshold_
  NackLimit,   \* early_retransmit_limit
  PauseOnOow,  \* enable_pause_initial_transmission_on_oow_drops_
  Slack,       \* request_window_slack_ / data_window_slack_
  MaxPsn,      \* bound: packets offered to the window
  MaxNet       \* bound: packets in flight

ASSUME SizesAssumption ==
  /\ TxSize \in Nat \ {0}
  /\ RxSize \in Nat \ {0}
  /\ OooDistance \in Nat
  /\ OooCount \in Nat \ {0}
  /\ NackLimit \in Nat
  /\ Slack \in Nat
  /\ MaxPsn \in Nat
  /\ MaxNet \in Nat

ASSUME KindsAssumption ==
  /\ Deferred \subseteq Nat
  /\ Responding \subseteq Nat \ Deferred
  /\ EackEarly \in BOOLEAN
  /\ PauseOnOow \in BOOLEAN

VARIABLES
  txBase, txNext, \* base_ and next_packet_sequence_number of the TX window
  txAcked,        \* bits set in the TX window
  outstanding,    \* outstanding_packets
  contexts,       \* outstanding_packet_contexts
  retxQ,          \* PSNs queued in the retransmission scheduler
  txOow,          \* oow_notification_received
  rxBase,         \* base_packet_sequence_number of the RX window
  rxReceived,     \* bits set in receive_window
  rxAck,          \* bits set in ack_window
  rxOow,          \* has_oow_drop
  ackDue,         \* coalescing counter > 0: a timer will send an ACK
  answered,       \* responses the transmitter's host has accepted
  net,            \* packets in flight, both directions
  accepts,        \* history: how often each PSN was admitted
  completed       \* history: PSNs acknowledged to the transmitter's ULP

txVars == <<txBase, txNext, txAcked, outstanding, contexts, retxQ, txOow>>
rxVars == <<rxBase, rxReceived, rxAck, rxOow, ackDue, accepts>>
vars == <<txVars, rxVars, answered, net, completed>>

----------------------------------------------------------------------------
(* Packets.                                                                *)

Psns == 0..(MaxPsn - 1)

DataPacket(p) == [type |-> "data", psn |-> p]

\* Mutant: the receive bitmap is sent where the ACK bitmap belongs.
AckPacketOfReceived(base, acked, received, own) ==
  [type |-> "ack", bpsn |-> base, acked |-> received, received |-> received,
   own |-> own]

\* CreateExplicitAckOrEack: an EACK carries both bitmaps and the OOW bit.  A
\* plain ACK is sent when there is nothing to put in them.
AckPacket(base, acked, received, own) ==
  [type |-> "ack", bpsn |-> base, acked |-> acked, received |-> received,
   own |-> own]

NackPacket(base) == [type |-> "nack", bpsn |-> base]

\* Mutant: PiggybackAck leaves the base PSN of the answer unset.
ResponseWithoutBase(p, base) == [type |-> "resp", psn |-> p, bpsn |-> 0]

\* The answer to a request or a grant, with the piggybacked base PSN.
Response(p, base) == [type |-> "resp", psn |-> p, bpsn |-> base]

\* Any other packet of the reverse direction: of interest for its base PSN.
OtherPacket(base) == [type |-> "other", bpsn |-> base]

\* What may be in flight once `out` is sent: the network loses any packet it
\* likes, and a copy of one that has arrived may still be under way.
Transfers(out) == {n \in SUBSET (net \cup out) : Cardinality(n) <= MaxNet}

----------------------------------------------------------------------------
Init ==
  /\ txBase = 0 /\ txNext = 0 /\ txAcked = {} /\ txOow = FALSE
  /\ outstanding = {} /\ contexts = {} /\ retxQ = {}
  /\ rxBase = 0 /\ rxReceived = {} /\ rxAck = {} /\ rxOow = FALSE
  /\ ackDue = FALSE /\ answered = {}
  /\ net = {}
  /\ accepts = [p \in Psns |-> 0]
  /\ completed = {}

----------------------------------------------------------------------------
(* Transmitter.                                                            *)

\* Room for the next PSN under a congestion window of fcwnd packets.
MeetsInitialTransmissionCCTxGatingCriteria(fcwnd) == txNext < txBase + fcwnd

\* Room for PSN p, sent before.
MeetsRetransmissionCCTxGatingCriteria(p, fcwnd) == p < txBase + fcwnd

\* First transmissions may pause while the peer reports out-of-window drops.
MeetsInitialTransmissionOowTxGatingCriteria == PauseOnOow => ~txOow

\* The packet that leaves gets its context and is outstanding again, in the
\* order of PSNs (SetupRetransmission, AddToOutstandingPackets).
SetupRetransmission(p) ==
  /\ outstanding' = outstanding \cup {p}
  /\ contexts' = contexts \cup {p}

\* First transmission of the next packet: TransmitPacket with AssignPsnAndSsn.
TransmitNew(fcwnd) ==
  /\ txNext < MaxPsn
  /\ MeetsInitialTransmissionCCTxGatingCriteria(fcwnd)
  /\ MeetsInitialTransmissionOowTxGatingCriteria
  /\ txNext' = txNext + 1
  /\ SetupRetransmission(txNext)
  /\ net' \in Transfers({DataPacket(txNext)})
  /\ UNCHANGED <<txBase, txAcked, retxQ, txOow, rxVars, answered, completed>>

\* The retransmission scheduler picks the lowest queued PSN and sends it when
\* it lies in the congestion window.
Retransmit(p, fcwnd) ==
  /\ p \in retxQ
  /\ \A q \in retxQ : p <= q
  /\ MeetsRetransmissionCCTxGatingCriteria(p, fcwnd)
  /\ retxQ' = retxQ \ {p}
  /\ SetupRetransmission(p)
  /\ net' \in Transfers({DataPacket(p)})
  /\ UNCHANGED <<txBase, txNext, txAcked, txOow, rxVars, answered, completed>>

\* The sets a scan of outstanding PSNs C in PSN order can stop after.
Prefixes(C) == {S \in SUBSET C : \A p \in S, q \in C : q < p => q \in S}

\* InitiateRetransmission for every PSN of S: from the outstanding packets
\* `left` to the queue `queued` of the retransmission scheduler.
InitiateRetransmission(S, left, queued) ==
  /\ outstanding' = left \ S
  /\ retxQ' = queued \cup S

\* HandleRetransmitTimeout: the scan stops at the first packet that has not
\* timed out.
HandleRetransmitTimeout ==
  \E S \in Prefixes(outstanding) :
    /\ S # {}
    /\ InitiateRetransmission(S, outstanding, retxQ)
    /\ UNCHANGED <<txBase, txNext, txAcked, contexts, txOow, rxVars, answered,
                   net, completed>>

\* Mutant: the probe stays in the outstanding list.
HandleTlpTimeoutKeeps(p) ==
  /\ p \in outstanding
  /\ retxQ' = retxQ \cup {p}
  /\ UNCHANGED <<txBase, txNext, txAcked, outstanding, contexts, txOow, rxVars,
                 answered, net, completed>>

\* HandleTlpTimeout: one outstanding packet is sent again as a probe.
HandleTlpTimeout(p) ==
  /\ p \in outstanding
  /\ InitiateRetransmission({p}, outstanding, retxQ)
  /\ UNCHANGED <<txBase, txNext, txAcked, contexts, txOow, rxVars, answered,
                 net, completed>>

\* The PSNs a base advance acknowledges, bits already set excluded.
NewlyBelow(base, bpsn, acked) == (base..(bpsn - 1)) \ acked

\* EnqueueAckToUlp for every PSN of A: forget it wherever it waits and
\* complete it.
EnqueueAckToUlp(A) ==
  /\ contexts' = contexts \ A
  /\ completed' = completed \cup A

\* The out-of-window bit after a base advance to bpsn: cleared when the
\* window has drained to the slack, otherwise set by an OWN notification.
OowAfterAdvance(bpsn, own) ==
  IF bpsn + Slack >= txNext THEN FALSE ELSE txOow \/ own

\* The holes of an EACK that are early retransmission candidates:
\* EarlyRetransmissionOooDistance and EarlyRetransmissionOooCount, merged to
\* the larger limit; with EACK-OWN everything sent.
EarlyRetransmissionHole(m, p) ==
  /\ p \notin m.received
  /\ \/ m.own
     \/ \E r \in m.received : r >= p + OooDistance
     \/ Cardinality({r \in m.received : r > p}) >= OooCount

\* The outstanding sets an EACK may send again: candidates in PSN order up to
\* the first one sent too recently; with EACK-OWN the scan may step over such
\* packets.
EackRetransmissions(m, left) ==
  LET holes == {p \in left : EarlyRetransmissionHole(m, p)}
  IN  IF ~EackEarly THEN {{}}
      ELSE IF m.own THEN SUBSET holes
      ELSE Prefixes(holes)

\* HandleACK and HandleEACK for an ACK that is not stale.
HandleACK(m) ==
  /\ m \in net /\ m.type = "ack"
  /\ m.bpsn >= txBase
  /\ LET below == NewlyBelow(txBase, m.bpsn, txAcked)
         above == m.acked \ txAcked
         left  == outstanding \ (below \cup above)
     IN  /\ txBase' = m.bpsn
         /\ txAcked' = {p \in txAcked : p >= m.bpsn} \cup above
         /\ EnqueueAckToUlp(below \cup above)
         /\ txOow' = IF m.bpsn > txBase THEN OowAfterAdvance(m.bpsn, m.own)
                     ELSE txOow
         /\ \E S \in EackRetransmissions(m, left) :
              InitiateRetransmission(S, left, retxQ \ (below \cup above))
  /\ net' \in Transfers({})
  /\ UNCHANGED <<txNext, rxVars, answered>>

\* InitiateNackBasedEarlyRetransmission: the holes within the limit of the
\* base, up to the first one sent too recently.
NackRetransmissions(base, left) ==
  Prefixes({p \in left : p - base < NackLimit})

\* HandleNack with kRxWindowError: the piggybacked base, then early
\* retransmission.
HandleNack(m) ==
  /\ m \in net /\ m.type = "nack"
  /\ LET base  == IF m.bpsn > txBase THEN m.bpsn ELSE txBase
         below == NewlyBelow(txBase, base, txAcked)
         left  == outstanding \ below
     IN  /\ txBase' = base
         /\ txAcked' = {p \in txAcked : p >= base}
         /\ EnqueueAckToUlp(below)
         /\ txOow' = IF m.bpsn > txBase THEN OowAfterAdvance(base, FALSE)
                     ELSE txOow
         /\ \E S \in NackRetransmissions(base, left) :
              InitiateRetransmission(S, left, retxQ \ below)
  /\ net' \in Transfers({})
  /\ UNCHANGED <<txNext, rxVars, answered>>

\* HandleImplicitAck: the response to PSN p acknowledges p; the base moves by
\* one when p is the base, and by no more.
ImplicitAcked(p) == IF p < txBase \/ p \in txAcked THEN {} ELSE {p}

\* Mutant: the window shifts whichever packet the response acknowledges.
ImplicitBaseAlways(p) ==
  IF ImplicitAcked(p) # {} THEN txBase + 1 ELSE txBase

ImplicitBase(p) == IF txBase \in ImplicitAcked(p) THEN txBase + 1 ELSE txBase

\* A response is accepted: HandleImplicitAck, then HandlePiggybackedACK.
HandleResponse(m) ==
  /\ m \in net /\ m.type = "resp"
  /\ m.psn \notin answered
  /\ answered' = answered \cup {m.psn}
  /\ LET base1  == ImplicitBase(m.psn)
         acked1 == txAcked \cup ImplicitAcked(m.psn)
         base   == IF m.bpsn > base1 THEN m.bpsn ELSE base1
         A      == ImplicitAcked(m.psn) \cup NewlyBelow(base1, base, acked1)
     IN  /\ txBase' = base
         /\ txAcked' = {p \in acked1 : p >= base}
         /\ EnqueueAckToUlp(A)
         /\ outstanding' = outstanding \ A
         /\ retxQ' = retxQ \ A
         /\ txOow' = IF m.bpsn > base1 THEN OowAfterAdvance(base, FALSE)
                     ELSE txOow
  /\ net' \in Transfers({})
  /\ UNCHANGED <<txNext, rxVars>>

\* HandlePiggybackedACK alone: a packet that answers nothing, or an answer the
\* resource manager has no room for.
HandlePiggybackedACK(m) ==
  /\ m \in net
  /\ \/ m.type = "other"
     \/ m.type = "resp" /\ m.psn \notin answered
  /\ m.bpsn > txBase
  /\ LET below == NewlyBelow(txBase, m.bpsn, txAcked)
     IN  /\ txBase' = m.bpsn
         /\ txAcked' = {p \in txAcked : p >= m.bpsn}
         /\ EnqueueAckToUlp(below)
         /\ outstanding' = outstanding \ below
         /\ retxQ' = retxQ \ below
         /\ txOow' = OowAfterAdvance(m.bpsn, FALSE)
  /\ net' \in Transfers({})
  /\ UNCHANGED <<txNext, rxVars, answered>>

----------------------------------------------------------------------------
(* Receiver.                                                               *)

CurrentAck == AckPacket(rxBase, rxAck, rxReceived, rxOow)

\* GenerateAckOrUpdateCoalescingState: an ACK at once (AR bit, counter at its
\* threshold) or an armed timer.  `send` is the ACK that would go out now; an
\* EACK takes the out-of-window bit with it.
AckOrCoalesce(oow, send) ==
  \/ /\ ackDue' = FALSE /\ rxOow' = FALSE
     /\ net' \in Transfers({send})
  \/ /\ ackDue' = TRUE /\ rxOow' = oow
     /\ net' \in Transfers({})

\* Mutant: only the ACK window is shifted.
UpdateReceiveAckBitmapUnshifted(p, n) ==
  LET ack == rxAck \cup {p}
  IN  /\ IF p = rxBase
         THEN n \notin ack /\ \A k \in rxBase..(n - 1) : k \in ack
         ELSE n = rxBase
      /\ rxBase' = n
      /\ rxAck' = {q \in ack : q >= n}
      /\ rxReceived' = rxReceived \cup {p}

\* UpdateReceiveAckBitmap for PSN p: the bit is set, and at the base both
\* windows shift past the run of ones, to base n.
UpdateReceiveAckBitmap(p, n) ==
  LET ack == rxAck \cup {p}
  IN  /\ IF p = rxBase
         THEN n \notin ack /\ \A k \in rxBase..(n - 1) : k \in ack
         ELSE n = rxBase
      /\ rxBase' = n
      /\ rxAck' = {q \in ack : q >= n}
      /\ rxReceived' = {q \in rxReceived \cup {p} : q >= n}

\* Mutant: a duplicate is dropped without an ACK.
ReceiveDuplicateSilently(p) ==
  /\ DataPacket(p) \in net
  /\ p < rxBase \/ p \in rxReceived
  /\ net' \in Transfers({})
  /\ UNCHANGED <<txVars, rxVars, answered, completed>>

\* HandleIncomingPacketOrResync: a PSN below the base or already received.
ReceiveDuplicate(p) ==
  /\ DataPacket(p) \in net
  /\ p < rxBase \/ p \in rxReceived
  /\ AckOrCoalesce(rxOow, CurrentAck)
  /\ UNCHANGED <<txVars, rxBase, rxReceived, rxAck, answered, accepts,
                 completed>>

\* A PSN beyond the window: a NACK, or the out-of-window bit of later EACKs.
ReceiveOutOfWindow(p) ==
  /\ DataPacket(p) \in net
  /\ p >= rxBase + RxSize
  /\ \/ /\ ~EackEarly
        /\ net' \in Transfers({NackPacket(rxBase)})
        /\ rxOow' = FALSE /\ ackDue' \in {ackDue, FALSE}
     \/ /\ EackEarly
        /\ AckOrCoalesce(TRUE,
                         AckPacket(rxBase, rxAck, rxReceived, TRUE))
  /\ UNCHANGED <<txVars, rxBase, rxReceived, rxAck, answered, accepts,
                 completed>>

\* Mutant: duplicates are looked up in the ACK window.
IsNewByAckWindow(p) ==
  p \in rxBase..(rxBase + RxSize - 1) /\ p \notin rxAck

\* Inside the window, bit not set in receive_window.
IsNew(p) == p \in rxBase..(rxBase + RxSize - 1) /\ p \notin rxReceived

\* A new PSN for which the resource manager has room.  Push data waits for
\* the ULP; everything else is acknowledged at once.
AcceptPacket(p) ==
  /\ DataPacket(p) \in net
  /\ IsNew(p)
  /\ accepts' = [accepts EXCEPT ![p] = @ + 1]
  /\ IF p \in Deferred
     THEN rxReceived' = rxReceived \cup {p} /\ UNCHANGED <<rxBase, rxAck>>
     ELSE \E n \in rxBase..(rxBase + RxSize) : UpdateReceiveAckBitmap(p, n)
  /\ AckOrCoalesce(rxOow,
                   AckPacket(rxBase', rxAck', rxReceived', rxOow))
  /\ UNCHANGED <<txVars, answered, completed>>

\* HandleAckFromUlp: the ULP has taken push data p.
HandleAckFromUlp(p) ==
  /\ p \in Deferred /\ p \in rxReceived /\ p \notin rxAck
  /\ \E n \in rxBase..(rxBase + RxSize) : UpdateReceiveAckBitmap(p, n)
  /\ AckOrCoalesce(rxOow, AckPacket(rxBase', rxAck', rxReceived', rxOow))
  /\ UNCHANGED <<txVars, answered, accepts, completed>>

\* Packets go no further: the network loses them, the resource manager has no
\* room, HandleStaleAck discards an ACK with an old base, or the window of the
\* other direction drops a response as a duplicate.
Drop ==
  /\ net' \in Transfers({})
  /\ UNCHANGED <<txVars, rxVars, answered, completed>>

\* HandleAckCoalescingTimeout with TransmitACK.
HandleAckCoalescingTimeout ==
  /\ ackDue
  /\ ackDue' = FALSE /\ rxOow' = FALSE
  /\ net' \in Transfers({CurrentAck})
  /\ UNCHANGED <<txVars, rxBase, rxReceived, rxAck, answered, accepts,
                 completed>>

\* The receiver's host (re)transmits its answer to PSN p; PiggybackAck may
\* retire the coalesced ACK when no out-of-window drop is to be reported.
TransmitResponse(p) ==
  /\ p \in Responding
  /\ p < rxBase \/ p \in rxAck
  /\ accepts[p] > 0 /\ p \notin answered
  /\ ackDue' \in IF rxOow THEN {ackDue} ELSE {ackDue, FALSE}
  /\ net' \in Transfers({Response(p, rxBase)})
  /\ UNCHANGED <<txVars, rxBase, rxReceived, rxAck, rxOow, answered, accepts,
                 completed>>

\* Its host sends anything else, with the same piggybacking.
TransmitOther ==
  /\ ackDue' \in IF rxOow THEN {ackDue} ELSE {ackDue, FALSE}
  /\ net' \in Transfers({OtherPacket(rxBase)})
  /\ UNCHANGED <<txVars, rxBase, rxReceived, rxAck, rxOow, answered, accepts,
                 completed>>

----------------------------------------------------------------------------
Next ==
  \/ \E f \in 1..TxSize : TransmitNew(f)
  \/ \E p \in Psns, f \in 1..TxSize : Retransmit(p, f)
  \/ HandleRetransmitTimeout
  \/ \E p \in Psns : HandleTlpTimeout(p)
  \/ \E m \in net : HandleACK(m)
  \/ \E m \in net : HandleNack(m)
  \/ \E m \in net : HandleResponse(m)
  \/ \E m \in net : HandlePiggybackedACK(m)
  \/ \E p \in Psns : ReceiveDuplicate(p)
  \/ \E p \in Psns : ReceiveOutOfWindow(p)
  \/ \E p \in Psns : AcceptPacket(p)
  \/ Drop
  \/ \E p \in Psns : HandleAckFromUlp(p)
  \/ HandleAckCoalescingTimeout
  \/ \E p \in Psns : TransmitResponse(p)
  \/ TransmitOther

Spec == Init /\ [][Next]_vars

----------------------------------------------------------------------------
(* Properties.                                                             *)

TxTypeOK ==
  /\ txBase \in Nat /\ txNext \in Nat
  /\ txBase <= txNext /\ txNext <= txBase + TxSize /\ txNext <= MaxPsn
  /\ txAcked \subseteq txBase..(txNext - 1)
  /\ outstanding \subseteq Psns /\ contexts \subseteq Psns
  /\ retxQ \subseteq Psns /\ completed \subseteq Psns

RxTypeOK ==
  /\ rxBase \in Nat
  /\ rxReceived \subseteq rxBase..(rxBase + RxSize - 1)
  /\ rxAck \subseteq rxReceived
  /\ answered \subseteq Psns
  /\ accepts \in [Psns -> Nat]

FlagsTypeOK == txOow \in BOOLEAN /\ rxOow \in BOOLEAN /\ ackDue \in BOOLEAN

\* Every variable stays in the range the code's types give it, every bit of a
\* bitmap lies inside the bitmap (the bounds CHECK of FalconBitmap::Get/Set),
\* and the congestion window never lets the transmit window overflow.
TypeOK ==
  /\ TxTypeOK
  /\ RxTypeOK
  /\ FlagsTypeOK

\* Every packet sent and not yet acknowledged waits in exactly one place, the
\* outstanding list or the retransmission scheduler, and has its context.
\* EnqueueAckToUlp CHECKs the context and, when the packet is not in the
\* list, that the scheduler has it; InitiateNackBasedEarlyRetransmission loops
\* forever over an outstanding packet whose bit is set.
WaitsInOnePlace ==
  /\ contexts = (txBase..(txNext - 1)) \ txAcked
  /\ outstanding \cup retxQ = contexts
  /\ outstanding \cap retxQ = {}

\* The sliding window admits every PSN at most once, whatever is lost, copied,
\* reordered or sent again, and has admitted exactly the PSNs it accounts for.
AdmittedOnce ==
  \A p \in Psns :
    accepts[p] = IF p < rxBase \/ p \in rxReceived THEN 1 ELSE 0

\* A completion is never early: what the transmitter has completed is
\* acknowledged in the receiver's window, for push data by its ULP.
CompletedIsAcknowledged ==
  \A p \in completed : p < rxBase \/ p \in rxAck

\* The base of the transmit window is the oldest unacknowledged packet: an
\* implicit ACK moves the base by one only, but no order of responses, ACKs
\* and EACKs leaves it at a PSN already acknowledged.  A congestion window of
\* one packet therefore always admits the packet that has to be sent again.
BaseIsUnacknowledged == txBase \notin txAcked

\* The two bases never cross, and the receiver is never ahead of the sender:
\* no ACK the receiver can send now is stale, and none acknowledges a PSN that
\* was not sent.
BasesOrdered == txBase <= rxBase /\ rxBase <= txNext

\* The comment at the clearing of oow_notification_received: the bit is unset
\* when the difference between next and base PSN is below the slack.
OowBitCleared == txOow => txNext - txBase >= Slack

----------------------------------------------------------------------------
(* The inductive invariant.                                                *)

\* A PSN is known to be acknowledged at the receiver.
Acknowledged(p) == p < rxBase \/ p \in rxAck

\* The transmitter has completed what lies below its base and its set bits.
CompletedByWindow == completed = (0..(txBase - 1)) \cup txAcked

\* What packets in flight carry was true of the receiver when they were sent.
PacketsTruthful ==
  \A m \in net :
    /\ m.type \in {"data", "ack", "nack", "resp", "other"}
    /\ m.type = "data" => m.psn \in 0..(txNext - 1)
    /\ m.type # "data" => m.bpsn \in 0..rxBase
    /\ m.type = "ack" => m.own \in BOOLEAN
    /\ m.type = "ack" =>
         \A p \in m.acked : p \in Nat /\ p >= m.bpsn /\ Acknowledged(p)
    /\ m.type = "resp" => m.psn \in Psns /\ Acknowledged(m.psn)

\* b is, or was when a packet still in flight left, the base of a window.
SomeBase(b) ==
  b = txBase \/ b = rxBase \/ \E m \in net : m.type # "data" /\ m.bpsn = b

\* p was acknowledged out of order: while an older PSN was missing.
OutOfOrder(p) ==
  \/ p \in rxAck \/ p \in txAcked
  \/ \E m \in net : m.type = "ack" /\ p \in m.acked
  \/ \E m \in net : m.type = "resp" /\ p = m.psn /\ p >= m.bpsn

\* A PSN acknowledged out of order is never the base of a window, not even in
\* a packet that left long ago.
NeverBoth == \A p \in Psns : OutOfOrder(p) => ~SomeBase(p)

IInv ==
  /\ TypeOK
  /\ WaitsInOnePlace
  /\ AdmittedOnce
  /\ BasesOrdered
  /\ CompletedByWindow
  /\ PacketsTruthful
  /\ \A p \in txAcked : Acknowledged(p)
  /\ \A p \in rxReceived : p < txNext
  /\ NeverBoth

----------------------------------------------------------------------------
(* The window pair over its unreliable network is a reliable channel.      *)

Channel == INSTANCE ReliableChannel
             WITH sent <- txNext, admissions <- accepts,
                  acknowledged <- {p \in Psns : Acknowledged(p)}

\* Whatever the network does to data, ACKs, NACKs and responses, the sliding
\* window, the EACK and NACK handling and the implicit ACKs together do no
\* more than admit, acknowledge and complete each packet once.
ImplementsChannel == Channel!ChanSpec

----------------------------------------------------------------------------
(* Liveness.  Timers fire, schedulers run and the ULP takes its data (weak  *)
(* fairness); what is sent, offered or acknowledged again and again is not   *)
(* lost, refused or coalesced away every time (strong fairness).  Of the     *)
(* congestion window only one packet is counted on.                          *)

Fairness ==
  /\ WF_vars(TransmitNew(1))
  /\ WF_vars(HandleRetransmitTimeout)
  /\ WF_vars(HandleAckCoalescingTimeout)
  /\ \A p \in Psns :
       /\ WF_vars(HandleAckFromUlp(p))
       /\ SF_vars(Retransmit(p, 1) /\ DataPacket(p) \in net')
       /\ SF_vars(AcceptPacket(p))
       /\ SF_vars(ReceiveDuplicate(p) /\ CurrentAck \in net')
  /\ SF_vars(\E m \in net : HandleACK(m) /\ m.bpsn > txBase)

FairSpec == Spec /\ Fairness

\* Every packet offered to the window is eventually completed.
AllComplete == <>(completed = Psns)

=============================================================================
