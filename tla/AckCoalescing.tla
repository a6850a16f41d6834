--------------------------- MODULE AckCoalescing ---------------------------
(***************************************************************************)
(* The ACK coalescing engine of one connection: when the receiver tells    *)
(* the sender what it has acknowledged.                                    *)
(*                                                                         *)
(* Source: host/falcon/falcon_protocol_ack_coalescing_engine.cc, driven by *)
(* the receive path of falcon_protocol_packet_reliability_manager.cc.      *)
(*                                                                         *)
(* The entry of a connection has a counter (two per packet: one for Falcon *)
(* and one for the ULP), the time its timer was started, zero for none, and *)
(* the number of packets the base has moved past since the last ACK.  The  *)
(* simulator cannot cancel an event: a timer that is reset stays in the    *)
(* event queue and is recognised as stale when it fires, by its time.      *)
(* The clock starts at FirstTime > 0: packets need time to arrive, so that *)
(* the zero of the entry never is the time of a packet.                    *)
(***************************************************************************)
EXTENDS Integers, FiniteSets

CONSTANTS
  RxSize,     \* width of the receive window
  Deferred,   \* PSNs of push data: acknowledged by the ULP
  Threshold,  \* coalescing_counter_threshold
  Timeout,    \* coalescing_timeout_threshold
  IgnoreAr,   \* ignore_incoming_ar_bit
  FirstTime,  \* time of the first arrival
  MaxPsn,     \* bound: packets
  MaxTime     \* bound: clock

\* What the constants have to satisfy.
CoalescingAssumption ==
  /\ RxSize \in Nat \ {0}
  /\ Threshold \in Nat \ {0}
  /\ Timeout \in Nat \ {0}
  /\ IgnoreAr \in BOOLEAN
  /\ FirstTime \in Nat \ {0}
  /\ MaxPsn \in Nat /\ MaxTime \in Nat /\ FirstTime <= MaxTime

VARIABLES
  now,               \* ElapsedTime()
  counter,           \* coalescing_counter
  trigger,           \* timer_trigger_time
  implicit,          \* implicitly_acked_counter
  oow,               \* has_oow_drop
  base,              \* base_packet_sequence_number
  received, acked,   \* bits set in receive_window and ack_window
  events,            \* times of the HandleAckCoalescingTimeout events queued
  told,              \* history: base of the last packet sent to the peer
  since              \* history: time of the oldest base advance not told

entryVars == <<counter, trigger, implicit, events>>
windowVars == <<base, received, acked>>
vars == <<now, entryVars, oow, windowVars, told, since>>

Init ==
  /\ now = FirstTime
  /\ counter = 0 /\ trigger = 0 /\ implicit = 0 /\ oow = FALSE
  /\ base = 0 /\ received = {} /\ acked = {}
  /\ events = {}
  /\ told = 0 /\ since = FirstTime

\* A packet that carries the base leaves.
Tell == told' = base' /\ since' = now

\* The base may have advanced; it has not been told.
Keep ==
  /\ told' = told
  /\ since' = IF told = base THEN now ELSE since

\* Mutant: the reset forgets the timer.
TransmitACKKeepsTimer ==
  /\ counter' = 0 /\ trigger' = trigger /\ implicit' = 0
  /\ oow' = FALSE
  /\ Tell

\* TransmitACK, CreateExplicitAckOrEack: the entry is reset and the ACK
\* carries the base, the bitmaps and the out-of-window bit.
TransmitACK ==
  /\ counter' = 0 /\ trigger' = 0 /\ implicit' = 0
  /\ oow' = FALSE
  /\ Tell

SetupAckCoalescingTimer ==
  /\ trigger' = now
  /\ events' = events \cup {now + Timeout}

\* GenerateAckOrUpdateCoalescingState with increment n, AR bit ar, drops
\* `drop` and implicit count `imp` after the packet.
GenerateAckOrUpdateCoalescingState(n, ar, drop, imp) ==
  LET immediate == ar /\ ~(IgnoreAr /\ drop)
      total == counter + n
  IN  IF immediate \/ total >= 2 * Threshold
      THEN TransmitACK /\ UNCHANGED events
      ELSE /\ counter' = total /\ implicit' = imp /\ oow' = drop
           /\ IF trigger = 0 THEN SetupAckCoalescingTimer
              ELSE UNCHANGED <<trigger, events>>
           /\ Keep

\* UpdateReceiveAckBitmap: the bit of p, and the run of ones at the base.
ShiftedBase(p) ==
  LET bits == acked \cup {p}
  IN  IF p # base THEN base
      ELSE CHOOSE b \in base..(base + RxSize) :
             b \notin bits /\ \A q \in base..(b - 1) : q \in bits

UpdateReceiveAckBitmap(p) ==
  LET b == ShiftedBase(p)
  IN  /\ base' = b
      /\ acked' = {q \in acked \cup {p} : q >= b}
      /\ received' = {q \in received \cup {p} : q >= b}

InWindow(p) == p \in base..(base + RxSize - 1)

\* A new packet that is acknowledged on arrival.
ReceivePacket(p, ar) ==
  /\ p \notin Deferred /\ InWindow(p) /\ p \notin received
  /\ UpdateReceiveAckBitmap(p)
  /\ GenerateAckOrUpdateCoalescingState(2, ar, oow,
                                        implicit + ShiftedBase(p) - base)
  /\ UNCHANGED now

\* New push data counts half; its AR bit waits for the ULP.
ReceivePushData(p) ==
  /\ p \in Deferred /\ InWindow(p) /\ p \notin received
  /\ received' = received \cup {p}
  /\ UNCHANGED <<now, base, acked>>
  /\ GenerateAckOrUpdateCoalescingState(1, FALSE, oow, implicit)

\* HandleAckFromUlp: the other half.
HandleAckFromUlp(p, ar) ==
  /\ p \in Deferred /\ p \in received \ acked
  /\ UpdateReceiveAckBitmap(p)
  /\ GenerateAckOrUpdateCoalescingState(1, ar, oow,
                                        implicit + ShiftedBase(p) - base)
  /\ UNCHANGED now

\* A packet below the base or received before.
ReceiveDuplicate(p, ar) ==
  /\ p < base \/ p \in received
  /\ UNCHANGED <<now, windowVars>>
  /\ GenerateAckOrUpdateCoalescingState(2, ar, oow, implicit)

\* A packet beyond the window, with EACK-OWN.
ReceiveOutOfWindow(p, ar) ==
  /\ p >= base + RxSize
  /\ UNCHANGED <<now, windowVars>>
  /\ GenerateAckOrUpdateCoalescingState(2, ar, TRUE, implicit)

\* Mutant: the counter is decremented although drops are to be reported.
PiggybackAckInSpiteOfDrops ==
  /\ counter' = IF counter >= 2 * implicit THEN counter - 2 * implicit ELSE 0
  /\ implicit' = 0
  /\ trigger' = IF counter' = 0 THEN 0 ELSE trigger
  /\ Tell

\* PiggybackAck: the base rides on an outgoing packet; unless there are drops
\* to report, the packets it covers no longer count.
PiggybackAck ==
  /\ counter' = IF oow THEN counter
                ELSE IF counter >= 2 * implicit THEN counter - 2 * implicit
                ELSE 0
  /\ implicit' = IF oow THEN implicit ELSE 0
  /\ trigger' = IF counter' = 0 THEN 0 ELSE trigger
  /\ Tell

\* Falcon sends any packet of its own.
TransmitPacket ==
  /\ UNCHANGED <<now, events, oow, windowVars>>
  /\ PiggybackAck

\* TransmitNACK: a NACK piggybacks and reports the drops itself.  One may come
\* at any time: of the ULP, or for a packet for which there are no resources.
TransmitNACK ==
  /\ UNCHANGED <<now, events, windowVars>>
  /\ PiggybackAck
  /\ oow' = FALSE

\* HandleAckCoalescingTimeout: stale unless its time fits the entry.
HandleAckCoalescingTimeout ==
  /\ now \in events
  /\ events' = events \ {now}
  /\ UNCHANGED <<now, windowVars>>
  /\ IF now - trigger = Timeout /\ counter > 0
     THEN TransmitACK
     ELSE UNCHANGED <<counter, trigger, implicit, oow, told, since>>

\* Time passes when no event is due.
Tick ==
  /\ now < MaxTime /\ now \notin events
  /\ now' = now + 1
  /\ UNCHANGED <<entryVars, oow, windowVars, told, since>>

Psns == 0..(MaxPsn - 1)

Next ==
  \/ \E p \in Psns, ar \in BOOLEAN :
       \/ ReceivePacket(p, ar)
       \/ HandleAckFromUlp(p, ar)
       \/ ReceiveDuplicate(p, ar)
       \/ ReceiveOutOfWindow(p, ar)
  \/ \E p \in Psns : ReceivePushData(p)
  \/ TransmitPacket
  \/ TransmitNACK
  \/ HandleAckCoalescingTimeout
  \/ Tick

Spec == Init /\ [][Next]_vars

----------------------------------------------------------------------------
\* Types; the counter stays below the threshold that makes it an ACK, and no
\* event of the past is queued.
EntryTypeOK ==
  /\ now \in FirstTime..MaxTime
  /\ counter \in 0..(2 * Threshold - 1) /\ implicit \in 0..MaxPsn
  /\ trigger \in 0..now /\ since \in FirstTime..now
  /\ \A t \in events : t \in now..(MaxTime + Timeout)

\* Types; bits are set inside the window only.
WindowTypeOK ==
  /\ base \in Nat /\ told \in 0..base
  /\ received \subseteq base..(base + RxSize - 1) /\ acked \subseteq received

TypeOK == EntryTypeOK /\ WindowTypeOK /\ oow \in BOOLEAN

\* While anything is coalesced, an event that will pass the staleness test is
\* in the event queue: no reset, piggybacked ACK or stale timer leaves a
\* pending ACK without its timer.
PendingAckHasTimer ==
  counter > 0 => trigger > 0 /\ trigger + Timeout \in events

\* A base advance is told to the sender within one coalescing timeout,
\* whatever else arrives, leaves or fires meanwhile.
AckDelayBounded == told < base => now - since <= Timeout

\* An out-of-window drop that has not been reported keeps an ACK pending: a
\* piggybacked ACK cannot retire the EACK that reports it.
DropKeepsAckPending == oow => counter > 0

\* What the coalescing entry owes the sender is never forgotten.
AcksNotForgotten ==
  PendingAckHasTimer /\ AckDelayBounded /\ DropKeepsAckPending

\* The base has moved past packets that exist, and the implicit count is of
\* packets it has moved past.
WindowBounded == base <= MaxPsn /\ received \subseteq Psns /\ implicit <= base

\* The timer runs exactly while something is coalesced, its event is queued,
\* and a base advance that is not told is no older than the timer.
TimerRuns ==
  /\ counter > 0 <=> trigger > 0
  /\ trigger > 0 => trigger + Timeout \in events
  /\ told < base => counter > 0 /\ trigger <= since

\* The inductive invariant.
IInv == TypeOK /\ WindowBounded /\ TimerRuns /\ DropKeepsAckPending

=============================================================================
