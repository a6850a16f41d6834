-------------------------- MODULE NetworkAdmission --------------------------
(***************************************************************************)
(* The network-request region of a target's resources: how incoming        *)
(* requests of several ordered connections are admitted by the occupancy   *)
(* zone, reserve credits, and return them.                                 *)
(*                                                                         *)
(* Source: host/falcon/falcon_protocol_resource_manager.cc, with the order *)
(* of delivery and of ULP ACKs from falcon_protocol_buffer_reorder_engine  *)
(* and falcon_model.  FIRST_PHASE_RESERVATION: a push request reserves for *)
(* its grant and its data as well.  Receiver-not-ready retries are left to *)
(* ReceiverNotReady.                                                       *)
(***************************************************************************)
EXTENDS Integers, FiniteSets, FiniteSetsExt

CONSTANTS
  Conns,     \* ordered connections
  Count,     \* Count[c]: the RSNs of c are 0..Count[c]-1
  Kind,      \* Kind[c][i]: "pull", "push" (solicited) or "unsolicited"
  Size,      \* Size[c][i]: RX buffer credits of the request
  Total,     \* Total[p]: network_requests credits of pool p
  GreenEnd,  \* GreenEnd[p], YellowEnd[p]: ends of the occupancy zones
  YellowEnd,
  Profile    \* Profile[p]: shared_hol + guarantee_network of a connection

Pools == {"rxPacket", "rxBuffer", "txPacket"}
Rsns(c) == 0..(Count[c] - 1)
Requests == UNION {{c} \X Rsns(c) : c \in Conns}
KindOf(r) == Kind[r[1]][r[2]]

\* ComputeIncoming*Resources and, for a push request, the outgoing grant's.
\* The request's own packet credit is the one its data packet will reuse.
RxCredits(r) == [rxPacket |-> 1, rxBuffer |-> Size[r[1]][r[2]], txPacket |-> 0]
GrantCredits == [rxPacket |-> 0, rxBuffer |-> 0, txPacket |-> 1]
Nothing == [p \in Pools |-> 0]
Plus(a, b) == [p \in Pools |-> a[p] + b[p]]
Minus(a, b) == [p \in Pools |-> a[p] - b[p]]
Fits(a, b) == \A p \in Pools : a[p] <= b[p]

Need(r) == IF KindOf(r) = "push" THEN Plus(RxCredits(r), GrantCredits) ELSE RxCredits(r)
Largest(p) == Max({Need(r)[p] : r \in Requests})

\* Finitely many requests, and pools that are configured.
ASSUME RequestsAssumption ==
  /\ IsFiniteSet(Conns) /\ Conns # {}
  /\ \A c \in Conns : Count[c] \in Nat \ {0}
  /\ \A r \in Requests : Size[r[1]][r[2]] \in Nat
  /\ Total \in [Pools -> Nat]

\* What the thresholds must satisfy: the yellow zone has room for one request
\* beyond the green one, and the red zone for one more.
ASSUME ThresholdAssumption ==
  \A p \in Pools : /\ GreenEnd[p] \in Nat \ {0}
                   /\ YellowEnd[p] \in Nat
                   /\ GreenEnd[p] + Largest(p) <= YellowEnd[p]
                   /\ YellowEnd[p] + Largest(p) <= Total[p] + 1

VARIABLES
  place,    \* wire, held, granted, arrived, ulp or done
  credits,  \* global_credits_, network_requests of each pool
  grants,   \* push requests whose grant packet holds its TX credit
  acks      \* acks[c]: next_target_network_rsn, the ULP ACKs so far

vars == <<place, credits, grants, acks>>

Init ==
  /\ place = [r \in Requests |-> "wire"]
  /\ credits = Total
  /\ grants = {}
  /\ acks = [c \in Conns |-> 0]

Earlier(r) == {q \in Requests : q[1] = r[1] /\ q[2] < r[2]}
-----------------------------------------------------------------------------
(* Admission. *)

IsHeadOfLineNetworkRequest(r) == r[2] = acks[r[1]]

\* GetNetworkRequest{Rx,Tx}{Buffer,Packet}PoolOccupancyZone: 0 green, 1 yellow,
\* 2 red.
Zone(p) ==
  LET occupancy == Total[p] - credits[p]
  IN IF occupancy < GreenEnd[p] THEN 0 ELSE IF occupancy < YellowEnd[p] THEN 1 ELSE 2

OccupancyZone == Max({Zone(p) : p \in Pools})

\* A plausible bug: the head of line is let in, and so is everything else.
MeetsNetworkRequestAdmissionAlways(r) == TRUE

\* A plausible bug: a request not at the head is let in up to the red zone.
MeetsNetworkRequestAdmissionYellow(r) ==
  CASE OccupancyZone = 0 -> TRUE
    [] OccupancyZone = 1 -> TRUE
    [] OccupancyZone = 2 -> KindOf(r) # "push" /\ IsHeadOfLineNetworkRequest(r)

MeetsNetworkRequestAdmissionCriteria(r) ==
  CASE OccupancyZone = 0 -> TRUE
    [] OccupancyZone = 1 -> IsHeadOfLineNetworkRequest(r)
    [] OccupancyZone = 2 -> KindOf(r) # "push" /\ IsHeadOfLineNetworkRequest(r)

\* The credits one request holds (a push request's grant separately).
Holds(r) ==
  Plus(IF place[r] \in {"held", "granted", "arrived", "ulp"} THEN RxCredits(r) ELSE Nothing,
       IF r \in grants THEN GrantCredits ELSE Nothing)

\* The credits of pool p that the requests of S hold, counted one by one.
Held(S, p) == Cardinality(UNION {{r} \X (1..Holds(r)[p]) : r \in S})

\* The profile of its connection bounds a request that is not at the head.
PerConnectionResourceAvailable(r) ==
  \/ IsHeadOfLineNetworkRequest(r)
  \/ \A p \in Pools : Held({q \in Requests : q[1] = r[1]}, p) + Need(r)[p] <= Profile[p]

Admissible(r) ==
  /\ MeetsNetworkRequestAdmissionCriteria(r)
  /\ Fits(Need(r), credits)
  /\ PerConnectionResourceAvailable(r)
-----------------------------------------------------------------------------
(* A request's way through the target. *)

\* VerifyResourceAvailabilityOrReserveResources with reserve_resources.
ReserveResources(r) ==
  /\ place[r] = "wire"
  /\ Admissible(r)
  /\ credits' = Minus(credits, Need(r))
  /\ place' = [place EXCEPT ![r] = IF KindOf(r) = "push" THEN "held" ELSE "arrived"]
  /\ grants' = IF KindOf(r) = "push" THEN grants \cup {r} ELSE grants
  /\ UNCHANGED acks

\* Refused with a kRxResourceExhaustion NACK; the initiator sends it again.
TransmitNACK(r) ==
  /\ place[r] = "wire"
  /\ ~Admissible(r)
  /\ UNCHANGED vars

\* Push requests are granted in SSN order, which is their RSN order.
SendGrant(r) ==
  /\ place[r] = "held"
  /\ \A q \in Earlier(r) : KindOf(q) = "push" => place[q] \notin {"wire", "held"}
  /\ place' = [place EXCEPT ![r] = "granted"]
  /\ UNCHANGED <<credits, grants, acks>>

\* A plausible bug: resources_reserved is not consulted.
ReleaseGrantTwice(r) ==
  /\ grants' = grants \ {r}
  /\ credits' = Plus(credits, GrantCredits)

\* ReleaseResources for kPushGrant, when the network acknowledges the grant.
ReleaseGrant(r) ==
  /\ grants' = grants \ {r}
  /\ credits' = IF r \in grants THEN Plus(credits, GrantCredits) ELSE credits

GrantAcked(r) ==
  /\ place[r] = "granted" /\ r \in grants
  /\ ReleaseGrant(r)
  /\ UNCHANGED <<place, acks>>

\* Push data arrives: its resources are there, and it acknowledges the grant.
ReceivePushData(r) ==
  /\ place[r] = "granted"
  /\ place' = [place EXCEPT ![r] = "arrived"]
  /\ ReleaseGrant(r)
  /\ UNCHANGED acks

\* The reorder engine hands requests to the ULP in RSN order.
ReorderCallback(r) ==
  /\ place[r] = "arrived"
  /\ \A q \in Earlier(r) : place[q] \in {"ulp", "done"}
  /\ place' = [place EXCEPT ![r] = "ulp"]
  /\ UNCHANGED <<credits, grants, acks>>

\* A ULP ACK releases the RX resources and moves the head of line.
AckTransaction(r) ==
  /\ place[r] = "ulp"
  /\ place' = [place EXCEPT ![r] = "done"]
  /\ credits' = Plus(credits, RxCredits(r))
  /\ acks' = [acks EXCEPT ![r[1]] = @ + 1]
  /\ UNCHANGED grants

Finished == (\A r \in Requests : place[r] = "done") /\ UNCHANGED vars

Next ==
  \/ \E r \in Requests :
       \/ ReserveResources(r) \/ TransmitNACK(r)
       \/ SendGrant(r) \/ GrantAcked(r) \/ ReceivePushData(r)
       \/ ReorderCallback(r) \/ AckTransaction(r)
  \/ Finished

Spec == Init /\ [][Next]_vars

\* A request is resent until it is admitted, and every later step is an event
\* that is scheduled or retried until it happens.
Fairness ==
  \A r \in Requests :
    /\ WF_vars(ReserveResources(r)) /\ WF_vars(SendGrant(r))
    /\ WF_vars(ReceivePushData(r)) /\ WF_vars(ReorderCallback(r))
    /\ WF_vars(AckTransaction(r))

FairSpec == Spec /\ Fairness
-----------------------------------------------------------------------------
(* Properties. *)

\* Whatever the order of grants, acknowledgements and ULP ACKs, the credits of
\* a pool and those its requests hold add up to the configured total, and no
\* pool is overdrawn.
CreditsConserved ==
  \A p \in Pools : credits[p] >= 0 /\ credits[p] + Held(Requests, p) = Total[p]

\* Requests that wait behind a missing earlier one of their connection.
Blocked == {r \in Requests : place[r] # "wire" /\ \E q \in Earlier(r) : place[q] = "wire"}

\* Why the zones prevent deadlock: what can only be released after a missing
\* request arrives never occupies more than the green zone and one request.
BlockedBelowYellow ==
  \A p \in Pools : Held(Blocked, p) < GreenEnd[p] + Largest(p)

\* Every request of every connection is admitted, delivered and released.
AllDone == \A r \in Requests : place[r] = "done"
EveryRequestDone == <>AllDone
-----------------------------------------------------------------------------
(* The inductive invariant. *)

\* Types of the variables.
TypeOK ==
  /\ place \in [Requests -> {"wire", "held", "granted", "arrived", "ulp", "done"}]
  /\ credits \in [Pools -> Int]
  /\ grants \subseteq Requests
  /\ acks \in [Conns -> Nat]

\* A grant holds its TX credit only until its data arrives.
GrantsUnanswered == \A r \in grants : place[r] \in {"held", "granted"}

\* What the ULP has is a prefix of the requests of a connection.
DeliveredInOrder ==
  \A r \in Requests : place[r] \in {"ulp", "done"} =>
    \A q \in Earlier(r) : place[q] \in {"ulp", "done"}

\* next_target_network_rsn counts the ULP ACKs, which may come in any order.
AcksCounted ==
  \A c \in Conns : acks[c] = Cardinality({i \in Rsns(c) : place[<<c, i>>] = "done"})

\* The inductive invariant.
IInv ==
  /\ TypeOK /\ GrantsUnanswered /\ DeliveredInOrder /\ AcksCounted
  /\ CreditsConserved /\ BlockedBelowYellow
=============================================================================
