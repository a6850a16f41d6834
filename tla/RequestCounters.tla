-------------------------- MODULE RequestCounters --------------------------
(***************************************************************************)
(* The two counters of a transmit window that gate requests:               *)
(* outstanding_requests_counter (ORC) gates first transmissions and        *)
(* outstanding_retransmission_requests_counter (ORRC) retransmissions, both *)
(* against the NIC congestion window.                                      *)
(*                                                                         *)
(* Source: host/falcon/falcon_protocol_packet_reliability_manager.cc.  A   *)
(* solicited write is followed past its push request: the counters of the  *)
(* request are settled by the ACK of its data packet.                      *)
(***************************************************************************)
EXTENDS Integers, FiniteSets

CONSTANTS
  Pulls,         \* pull requests
  PushRequests,  \* requests of solicited writes
  Unsolicited,   \* unsolicited push data
  Ncwnd,         \* nic_congestion_window
  MaxAttempts,   \* bound: transmissions of one packet
  CounterModulus \* the counters are unsigned registers modulo this

\* What the constants have to satisfy.
CountersAssumption ==
  /\ Ncwnd \in Nat \ {0}
  /\ MaxAttempts \in Nat \ {0}
  /\ CounterModulus \in Nat
  /\ IsFiniteSet(Pulls) /\ IsFiniteSet(PushRequests) /\ IsFiniteSet(Unsolicited)
  /\ CounterModulus > Cardinality(Pulls \cup PushRequests \cup Unsolicited)
  /\ Pulls \cap PushRequests = {} /\ Pulls \cap Unsolicited = {}
  /\ PushRequests \cap Unsolicited = {}

VARIABLES
  place,    \* where a request is on its way
  attempts, \* transmit_attempts of its packet
  orc, orrc \* the counters of the request and of the data window

counterVars == <<place, attempts, orc, orrc>>

Requests == Pulls \cup PushRequests \cup Unsolicited
Places == {"unsent", "outstanding", "queued", "granted", "done"}
Windows == {"request", "data"}

\* GetAppropriateTxWindow for the packet type of a request.
Window(r) == IF r \in Unsolicited THEN "data" ELSE "request"

Increment(counter, w) == [counter EXCEPT ![w] = (@ + 1) % CounterModulus]

Decrement(counter, w) == [counter EXCEPT ![w] = (@ - 1) % CounterModulus]

CountersInit ==
  /\ place = [r \in Requests |-> "unsent"]
  /\ attempts = [r \in Requests |-> 0]
  /\ orc = [w \in Windows |-> 0]
  /\ orrc = [w \in Windows |-> 0]

MeetsInitialTransmissionCCTxGatingCriteria(r) == orc[Window(r)] < Ncwnd

MeetsRetransmissionCCTxGatingCriteria(r) == orrc[Window(r)] < Ncwnd

\* Mutant: retransmissions are counted as requests too.
TransmitCountsTwice(r) ==
  /\ attempts' = [attempts EXCEPT ![r] = @ + 1]
  /\ place' = [place EXCEPT ![r] = "outstanding"]
  /\ orc' = Increment(orc, Window(r))
  /\ orrc' = IF attempts[r] > 0 THEN Increment(orrc, Window(r)) ELSE orrc

\* CountTransmission: one counter for the first transmission, the other for
\* every later one.
CountTransmission(r) ==
  /\ attempts' = [attempts EXCEPT ![r] = @ + 1]
  /\ place' = [place EXCEPT ![r] = "outstanding"]
  /\ IF attempts[r] = 0
     THEN orc' = Increment(orc, Window(r)) /\ UNCHANGED orrc
     ELSE orrc' = Increment(orrc, Window(r)) /\ UNCHANGED orc

TransmitNew(r) ==
  /\ place[r] = "unsent"
  /\ MeetsInitialTransmissionCCTxGatingCriteria(r)
  /\ CountTransmission(r)

Retransmit(r) ==
  /\ place[r] = "queued"
  /\ MeetsRetransmissionCCTxGatingCriteria(r)
  /\ CountTransmission(r)

\* Mutant: a second retransmission does not settle the first.
InitiateRetransmissionKeeps(r) ==
  /\ place[r] = "outstanding" /\ attempts[r] < MaxAttempts
  /\ place' = [place EXCEPT ![r] = "queued"]
  /\ UNCHANGED <<attempts, orc, orrc>>

\* InitiateRetransmission: a timeout, a probe, an EACK or a NACK queues the
\* packet; if it is a retransmission already, that one is settled.
InitiateRetransmission(r) ==
  /\ place[r] = "outstanding" /\ attempts[r] < MaxAttempts
  /\ place' = [place EXCEPT ![r] = "queued"]
  /\ orrc' = IF attempts[r] > 1 THEN Decrement(orrc, Window(r)) ELSE orrc
  /\ UNCHANGED <<attempts, orc>>

\* EnqueueAckToUlp for a pull request or unsolicited data: ORRC is settled
\* only when the packet is outstanding, for otherwise queueing it has done so.
EnqueueAckToUlp(r) ==
  /\ r \notin PushRequests
  /\ place[r] \in {"outstanding", "queued"}
  /\ place' = [place EXCEPT ![r] = "done"]
  /\ orc' = Decrement(orc, Window(r))
  /\ orrc' = IF place[r] = "outstanding" /\ attempts[r] > 1
             THEN Decrement(orrc, Window(r)) ELSE orrc
  /\ UNCHANGED attempts

\* EnqueueAckToUlp for a push request: neither counter moves.
EnqueueAckToUlpPushRequest(r) ==
  /\ r \in PushRequests
  /\ place[r] \in {"outstanding", "queued"}
  /\ place' = [place EXCEPT ![r] = "granted"]
  /\ UNCHANGED <<attempts, orc, orrc>>

\* EnqueueAckToUlp for the solicited data of push request r.
EnqueueAckToUlpPushSolicitedData(r) ==
  /\ place[r] = "granted"
  /\ place' = [place EXCEPT ![r] = "done"]
  /\ orc' = Decrement(orc, "request")
  /\ orrc' = IF attempts[r] > 1 THEN Decrement(orrc, "request") ELSE orrc
  /\ UNCHANGED attempts

\* Every request is complete and the connection is idle.
Finished ==
  /\ \A r \in Requests : place[r] = "done"
  /\ UNCHANGED counterVars

CountersNext ==
  \/ \E r \in Requests :
       \/ TransmitNew(r)
       \/ Retransmit(r)
       \/ InitiateRetransmission(r)
       \/ EnqueueAckToUlp(r)
       \/ EnqueueAckToUlpPushRequest(r)
       \/ EnqueueAckToUlpPushSolicitedData(r)
  \/ Finished

CountersSpec == CountersInit /\ [][CountersNext]_counterVars

\* Schedulers run; and since the code gives up a connection whose packet was
\* sent the maximal number of times, the last transmission is acknowledged.
CountersFairness ==
  \A r \in Requests :
    /\ WF_counterVars(TransmitNew(r))
    /\ WF_counterVars(Retransmit(r))
    /\ WF_counterVars(place[r] = "outstanding" /\ EnqueueAckToUlp(r))
    /\ WF_counterVars(EnqueueAckToUlpPushRequest(r))
    /\ WF_counterVars(EnqueueAckToUlpPushSolicitedData(r))

FairCountersSpec == CountersSpec /\ CountersFairness

----------------------------------------------------------------------------
RequestsOf(w) == {r \in Requests : Window(r) = w}

\* Types, and the registers inside their width.
CountersTypeOK ==
  /\ place \in [Requests -> Places]
  /\ attempts \in [Requests -> 0..MaxAttempts]
  /\ orc \in [Windows -> 0..(CounterModulus - 1)]
  /\ orrc \in [Windows -> 0..(CounterModulus - 1)]

\* ORC counts the requests that have been sent and are not complete, a push
\* request until its data is acknowledged, whatever is retransmitted, probed
\* or acknowledged while it waits in the retransmission scheduler.
RequestsCounted ==
  \A w \in Windows :
    orc[w] = Cardinality({r \in RequestsOf(w) :
                            place[r] \in {"outstanding", "queued", "granted"}})

\* In a window without push requests, ORRC counts the retransmitted requests
\* that are outstanding: it never blocks a retransmission when nothing
\* retransmitted is in flight.
RetransmissionsCounted ==
  \A w \in Windows :
    RequestsOf(w) \cap PushRequests = {} =>
      orrc[w] = Cardinality({r \in RequestsOf(w) :
                               place[r] = "outstanding" /\ attempts[r] > 1})

\* A packet has been sent once it has left "unsent", a queued one may be sent
\* once more, and only a push request is granted.
AttemptsAgree ==
  \A r \in Requests :
    /\ place[r] = "unsent" <=> attempts[r] = 0
    /\ place[r] = "queued" => attempts[r] < MaxAttempts
    /\ place[r] = "granted" => r \in PushRequests

\* Both gates see true counts and no register wraps; this is inductive.
CountersAgree == CountersTypeOK /\ RequestsCounted /\ RetransmissionsCounted /\ AttemptsAgree

\* The comment at DecrementOutstandingRetransmittedRequestCount: a push
\* request is settled when it is queued again or when its data is
\* acknowledged.  Settled once each, the counter never exceeds the number of
\* retransmitted requests that are not complete.
SettledOnce ==
  \A w \in Windows :
    orrc[w] <= Cardinality({r \in RequestsOf(w) :
                              attempts[r] > 1 /\ place[r] # "done"})

\* The gates never hold back a request of such a window for ever, although
\* Ncwnd of them may be in flight and the rest wait for their turn.
GatesReopen ==
  \A w \in Windows :
    RequestsOf(w) \cap PushRequests = {} =>
      <>(\A r \in RequestsOf(w) : place[r] = "done")

=============================================================================
