-------------------------- MODULE RetransmitTimer --------------------------
(***************************************************************************)
(* The retransmission timer and the tail loss probe of one connection.     *)
(*                                                                         *)
(* Source: host/falcon/falcon_protocol_packet_reliability_manager.cc.      *)
(*                                                                         *)
(* One timer serves the outstanding packets of both windows.  It is set    *)
(* for the earlier of the two heads of line, plus a random jitter.  Events *)
(* cannot be cancelled: an event is stale when the time it fires at is not *)
(* the expiration time kept with the connection.  Timeouts change under a  *)
(* running timer: the rate update engine moves the RTO, RACK shortens the  *)
(* timeout of packets sent before an acknowledged one, a packet that is    *)
(* received waits for its ULP, and an RNR-NACK names its own timeout.      *)
(***************************************************************************)
EXTENDS Integers, FiniteSets, FiniteSetsExt

CONSTANTS
  Packets,        \* PSNs of the packets that are sent
  Rtos,           \* retransmit_timeout values of the rate update engine
  UlpRto,         \* ulp_rto
  RnrTimeout,     \* rnr_timeout of an RNR-NACK
  Jitters,        \* what GetJitter draws from
  EnableRack, RackWindow, Rtt,  \* RACK, its time window, rtt_state
  EnableTlp, TlpTimeout,        \* tail loss probes and their timeout
  EarlyThreshold, \* early_retx_threshold_
  MaxAttempts,    \* bound: transmissions of a packet
  MaxTime         \* bound: clock

\* The parameters a connection can have.
TimerAssumption ==
  /\ Packets \subseteq Nat
  /\ Rtos \subseteq Nat \ {0} /\ Rtos # {}
  /\ UlpRto \in Nat \ {0} /\ RnrTimeout \in Nat \ {0}
  /\ Jitters \subseteq Nat /\ Jitters # {}
  /\ EnableRack \in BOOLEAN /\ EnableTlp \in BOOLEAN
  /\ RackWindow \in Nat \ {0} /\ Rtt \in Nat \ {0} /\ TlpTimeout \in Nat \ {0}
  /\ EarlyThreshold \in Nat /\ MaxAttempts \in Nat \ {0} /\ MaxTime \in Nat \ {0}

VARIABLES
  now,             \* ElapsedTime()
  windowOf,        \* the window a packet belongs to by its type
  place,           \* unsent, outstanding, queued (retransmission scheduler), acked
  xmit,            \* transmission_time
  attempts,        \* transmit_attempts
  early,           \* early_retx_attempts, counted when queued
  received,        \* packets with the received flag
  rnr,             \* packets with an RNR-NACK
  rto,             \* retransmit_timeout
  rackXmit, rackRto, \* rack.xmit_ts, rack.rto
  rtoBase, rtoJitter, \* rto_expiration_base_time, rto_expiration_jitter
  rtoEvents,       \* times of HandleRetransmitTimeout events
  pto, tlpEvents   \* tlp.pto, times of HandleTlpTimeout events

packetVars == <<windowOf, place, xmit, attempts, early, received, rnr>>
rackVars == <<rackXmit, rackRto>>
timerVars == <<rtoBase, rtoJitter, rtoEvents>>
tlpVars == <<pto, tlpEvents>>
retransmitVars == <<now, packetVars, rto, rackVars, timerVars, tlpVars>>

Windows == {"request", "data"}
Outstanding == {p \in Packets : place[p] = "outstanding"}

\* GetAppropriateTxWindow: the type of a packet, settled when the packet is
\* created, decides on its window.
SameWindow(p, q) == windowOf[p] = windowOf[q]

\* begin() of the outstanding_packets of each window.
Heads == {p \in Outstanding : \A q \in Outstanding : SameWindow(p, q) => p <= q}

\* GetTimeoutOfPacket.
TimeoutOf(p) ==
  IF p \in rnr THEN RnrTimeout
  ELSE IF p \in received THEN UlpRto
  ELSE IF EnableRack /\ xmit[p] <= rackXmit /\ early[p] < EarlyThreshold
       THEN Min({rto, rackRto})
  ELSE rto

BaseTime == Min({xmit[p] + TimeoutOf(p) : p \in Heads})

TimerInit ==
  /\ now = 1
  /\ windowOf \in [Packets -> Windows]
  /\ place = [p \in Packets |-> "unsent"]
  /\ xmit = [p \in Packets |-> 0]
  /\ attempts = [p \in Packets |-> 0]
  /\ early = [p \in Packets |-> 0]
  /\ received = {} /\ rnr = {}
  /\ rto \in Rtos
  /\ rackXmit = 0 /\ rackRto = 0
  /\ rtoBase = 0 /\ rtoJitter = 0 /\ rtoEvents = {}
  /\ pto = 0 /\ tlpEvents = {}

\* Mutant: a timer that is already late is not set at all.
SetupRetransmitTimerSkipsLate(base, jitter, queued) ==
  IF Outstanding' = {} \/ BaseTime' = base \/ BaseTime' < now
  THEN rtoBase' = base /\ rtoJitter' = jitter /\ rtoEvents' = queued
  ELSE \E j \in Jitters :
         /\ rtoBase' = BaseTime' /\ rtoJitter' = j
         /\ rtoEvents' = queued \cup {BaseTime' + j}

\* Mutant: a timeout that has passed is scheduled in the past.
SetupRetransmitTimerInPast(base, jitter, queued) ==
  IF Outstanding' = {} \/ BaseTime' = base
  THEN rtoBase' = base /\ rtoJitter' = jitter /\ rtoEvents' = queued
  ELSE \E j \in Jitters :
         /\ rtoBase' = BaseTime' /\ rtoJitter' = j
         /\ rtoEvents' = queued \cup {BaseTime' + j}

\* SetupRetransmitTimer after a step, given the expiration time and the events
\* queued before it.
SetupRetransmitTimer(base, jitter, queued) ==
  IF Outstanding' = {} \/ BaseTime' = base
  THEN rtoBase' = base /\ rtoJitter' = jitter /\ rtoEvents' = queued
  ELSE \E j \in Jitters :
         IF BaseTime' + j < now
         THEN rtoBase' = now /\ rtoJitter' = 0 /\ rtoEvents' = queued \cup {now}
         ELSE /\ rtoBase' = BaseTime' /\ rtoJitter' = j
              /\ rtoEvents' = queued \cup {BaseTime' + j}

\* SetupTlpTimer: pushed back by every transmission and every ACK.
SetupTlpTimer ==
  IF EnableTlp
  THEN pto' = now + TlpTimeout /\ tlpEvents' = tlpEvents \cup {now + TlpTimeout}
  ELSE UNCHANGED tlpVars

\* The PSN is the window's next one when a packet is sent first.
IsNext(p) ==
  place[p] = "unsent" /\ \A q \in Packets : SameWindow(p, q) /\ q < p => place[q] # "unsent"

\* SetupRetransmission for a first transmission or a retransmission.
Transmit(p) ==
  /\ IsNext(p) \/ place[p] = "queued"
  /\ place' = [place EXCEPT ![p] = "outstanding"]
  /\ xmit' = [xmit EXCEPT ![p] = now]
  /\ attempts' = [attempts EXCEPT ![p] = @ + 1]
  /\ UNCHANGED <<now, windowOf, early, received, rnr, rto, rackVars>>
  /\ SetupRetransmitTimer(rtoBase, rtoJitter, rtoEvents)
  /\ SetupTlpTimer

\* RackUpdate for the packets of S in turn: the latest transmission that is
\* at least one round trip old counts.
RackUpdate(S) ==
  LET sent == {t \in {xmit[p] : p \in S} : now - t >= Rtt /\ t > rackXmit}
  IN  IF EnableRack /\ sent # {}
      THEN /\ rackXmit' = Max(sent)
           /\ rackRto' = now - Max(sent) + RackWindow
      ELSE UNCHANGED rackVars

\* HandleACK, HandleEACK, HandlePiggybackedACK or HandleImplicitAck: A is
\* acknowledged, R is reported received (by an EACK).
HandleACKOf(A, R) ==
  /\ A \cup R # {}
  /\ \A p \in A : place[p] \in {"outstanding", "queued"}
  /\ \A p \in R : place[p] \in {"outstanding", "queued"} /\ p \notin received
  /\ A \cap R = {}
  /\ place' = [p \in Packets |-> IF p \in A THEN "acked" ELSE place[p]]
  /\ received' = received \cup R
  /\ RackUpdate(A \cup R)
  /\ UNCHANGED <<now, windowOf, xmit, attempts, early, rnr, rto>>
  /\ SetupRetransmitTimer(rtoBase, rtoJitter, rtoEvents)
  /\ SetupTlpTimer

\* HandleNack with HandleRnrNack: the packet gets a timeout of its own.
HandleRnrNack(p) ==
  /\ place[p] \in {"outstanding", "queued"} /\ p \notin rnr
  /\ rnr' = rnr \cup {p}
  /\ RackUpdate({p})
  /\ UNCHANGED <<now, windowOf, place, xmit, attempts, early, received, rto>>
  /\ SetupRetransmitTimer(rtoBase, rtoJitter, rtoEvents)
  /\ SetupTlpTimer

\* A packet whose timeout is the RACK one, received by no one, is sent again
\* early; otherwise this is an RTO.
IsEarlyRetx(p) ==
  /\ TimeoutOf(p) = rackRto /\ p \notin received /\ now - xmit[p] < rto

\* The packets HandleRetransmitTimeout takes: of each window the longest
\* run from the head that has timed out.
TimedOut ==
  {p \in Outstanding :
     \A q \in Outstanding :
       SameWindow(p, q) /\ q <= p => now - xmit[q] >= TimeoutOf(q)}

\* HandleRetransmitTimeout compares the clock with the expiration time.
TimerIsValid == now = rtoBase + rtoJitter

RetransmitTimerFires ==
  /\ now \in rtoEvents
  /\ TimerIsValid
  /\ place' = [p \in Packets |-> IF p \in TimedOut THEN "queued" ELSE place[p]]
  /\ early' = [p \in Packets |-> IF p \in TimedOut /\ IsEarlyRetx(p)
                                 THEN early[p] + 1 ELSE early[p]]
  /\ \A p \in TimedOut : attempts[p] < MaxAttempts
  /\ UNCHANGED <<now, windowOf, xmit, attempts, received, rnr, rto, rackVars, tlpVars>>
  /\ SetupRetransmitTimer(0, 0, rtoEvents \ {now})

StaleRetransmitTimeout ==
  /\ now \in rtoEvents
  /\ ~TimerIsValid
  /\ rtoEvents' = rtoEvents \ {now}
  /\ UNCHANGED <<now, packetVars, rto, rackVars, rtoBase, rtoJitter, tlpVars>>

\* TlpRetransmitFirst and TlpRetransmitLast: the probe is a head of line, or
\* the first or the last packet that was not received.
Probes ==
  {p \in Outstanding :
     \/ p \in Heads
     \/ p \notin received /\ \A q \in Outstanding :
          SameWindow(p, q) /\ q < p => q \in received
     \/ p \notin received /\ \A q \in Outstanding :
          SameWindow(p, q) /\ q > p => q \in received}

\* HandleTlpTimeout: neither timer is set again.
TlpTimerFires ==
  /\ now \in tlpEvents
  /\ tlpEvents' = tlpEvents \ {now}
  /\ \/ pto # now /\ UNCHANGED <<pto, packetVars>>
     \/ /\ pto = now /\ pto' = 0
        /\ \/ /\ \/ Outstanding \subseteq received
                 \/ \E p \in Probes : early[p] >= EarlyThreshold
              /\ UNCHANGED packetVars
           \/ \E p \in Probes :
                /\ early[p] < EarlyThreshold /\ attempts[p] < MaxAttempts
                /\ place' = [place EXCEPT ![p] = "queued"]
                /\ early' = [early EXCEPT ![p] = @ + 1]
                /\ UNCHANGED <<windowOf, xmit, attempts, received, rnr>>
  /\ UNCHANGED <<now, rto, rackVars, timerVars>>

\* Mutant: a reduction leaves the timer alone.
UpdateRtoQuietly(r) ==
  /\ r # rto
  /\ rto' = r
  /\ UNCHANGED <<now, packetVars, rackVars, timerVars, tlpVars>>

\* The rate update engine writes the RTO; a reduction sets the timer anew.
UpdateRto(r) ==
  /\ r # rto
  /\ rto' = r
  /\ UNCHANGED <<now, packetVars, rackVars, tlpVars>>
  /\ IF r < rto THEN SetupRetransmitTimer(0, 0, rtoEvents) ELSE UNCHANGED timerVars

Tick ==
  /\ now < MaxTime
  /\ now \notin rtoEvents \cup tlpEvents
  /\ now' = now + 1
  /\ UNCHANGED <<packetVars, rto, rackVars, timerVars, tlpVars>>

TimerNext ==
  \/ \E p \in Packets : Transmit(p) \/ HandleRnrNack(p)
  \/ \E A, R \in SUBSET Packets : HandleACKOf(A, R)
  \/ RetransmitTimerFires
  \/ StaleRetransmitTimeout
  \/ TlpTimerFires
  \/ \E r \in Rtos : UpdateRto(r)
  \/ Tick

TimerSpec == TimerInit /\ [][TimerNext]_retransmitVars

----------------------------------------------------------------------------
\* Types; no event is scheduled in the past.
TimerTypeOK ==
  /\ now \in 1..MaxTime
  /\ windowOf \in [Packets -> Windows]
  /\ place \in [Packets -> {"unsent", "outstanding", "queued", "acked"}]
  /\ xmit \in [Packets -> 0..MaxTime]
  /\ attempts \in [Packets -> 0..MaxAttempts]
  /\ early \in [Packets -> 0..MaxAttempts]
  /\ received \subseteq Packets /\ rnr \subseteq Packets /\ rto \in Rtos
  /\ \A t \in rtoEvents \cup tlpEvents : t >= now

\* Whenever a packet is outstanding, the event of the current expiration time
\* is still to come: no ACK, RTO change, stale event, probe or coincidence of
\* times leaves the connection without a timer that counts.
TimerPending ==
  Outstanding # {} => rtoBase + rtoJitter \in rtoEvents

\* The head of a window is out of the list and waits in the retransmission
\* scheduler, whose next transmission sets the timer.
HeadIsQueued ==
  \E p \in Packets :
    place[p] = "queued" /\ \A q \in Outstanding : SameWindow(p, q) => p < q

\* The timer is never late for the head of a line: when it is set for a later
\* time than the head's own timeout, then by no more than the jitter, unless
\* that timeout was found to have passed already, or a tail loss probe took the
\* head before it: HandleTlpTimeout leaves the timer as it was, although the
\* packet behind may time out earlier.
TimerCoversHead ==
  Outstanding # {} => rtoBase <= Max({BaseTime, now}) \/ HeadIsQueued

\* All of it: the connection always has a timer that counts, in time.
TimerSound == TimerTypeOK /\ TimerPending /\ TimerCoversHead
----------------------------------------------------------------------------
(* The inductive invariant. *)

TimerTypes ==
  /\ rackXmit \in Nat /\ rackRto \in Nat
  /\ rtoBase \in Nat /\ rtoJitter \in Nat /\ rtoEvents \subseteq Nat
  /\ pto \in Nat /\ tlpEvents \subseteq Nat

\* A packet has been sent before it is outstanding, at a time that is not 0,
\* and sent more often than it was queued for an early retransmission.
AttemptsAgree ==
  \A p \in Packets :
    /\ place[p] = "unsent" => attempts[p] = 0
    /\ place[p] = "outstanding" => early[p] < attempts[p] /\ xmit[p] > 0
    /\ place[p] = "queued" => attempts[p] < MaxAttempts
    /\ early[p] <= attempts[p]

\* An expiration time has its event, be there packets or not, and there is one
\* while a packet is outstanding.
ExpirationHasEvent ==
  /\ rtoBase # 0 => rtoBase + rtoJitter \in rtoEvents
  /\ Outstanding # {} => rtoBase # 0

TimerIInv == TimerSound /\ TimerTypes /\ AttemptsAgree /\ ExpirationHasEvent

=============================================================================
