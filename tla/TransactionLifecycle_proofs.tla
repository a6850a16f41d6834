--------------------- MODULE TransactionLifecycle_proofs ---------------------
(***************************************************************************)
(* Proofs about TransactionLifecycle, for every workload, ordering mode    *)
(* and number of faults and receiver-not-ready NACKs: no CHECK fails, no   *)
(* credit is kept or given back twice, and nothing completes at the        *)
(* initiator before it has happened at the target.                         *)
(*                                                                         *)
(* Transactions only meet in the reorder engine, which lets one go because *)
(* another has arrived.  So the invariant is stated of one transaction at  *)
(* a time, of the View of it: its metadata at both hosts and the places    *)
(* its packets are in.  Every action moves the view of its transaction in  *)
(* one of a dozen ways, each shown to keep a sound view sound; and what it *)
(* lets go moves the views of the others in one way, LetThrough.           *)
(***************************************************************************)
EXTENDS TransactionLifecycle, SequenceTheorems, FiniteSetTheorems, TLAPS
-----------------------------------------------------------------------------
(* The rows of UpdateState: one at most for a packet type and a stage. *)

LEMMA StepsByType ==
  ASSUME NEW row \in Steps
  PROVE  /\ row.type \in {"kPullRequest", "kPullData"} => row \in PullSteps
         /\ row.type \in {"kPushRequest", "kPushGrant"} => row \in RequestAndGrantSteps
         /\ row.type = "kPushSolicitedData" => row \in SolicitedDataSteps
         /\ row.type = "kPushUnsolicitedData" => row \in UnsolicitedDataSteps
         /\ row.type \in {"kPullRequest", "kPullData", "kPushRequest", "kPushGrant",
                          "kPushSolicitedData", "kPushUnsolicitedData"}
<1>1. row \in PullSteps => row.type \in {"kPullRequest", "kPullData"}
  BY DEF PullSteps, Row
<1>2. row \in RequestAndGrantSteps => row.type \in {"kPushRequest", "kPushGrant"}
  BY DEF RequestAndGrantSteps, Row
<1>3. row \in SolicitedDataSteps => row.type = "kPushSolicitedData"
  BY DEF SolicitedDataSteps, Row
<1>4. row \in UnsolicitedDataSteps => row.type = "kPushUnsolicitedData"
  BY DEF UnsolicitedDataSteps, Row
<1> QED
  BY <1>1, <1>2, <1>3, <1>4 DEF Steps

LEMMA OneRow ==
  ASSUME NEW a \in Steps, NEW b \in Steps, a.type = b.type, a.stage = b.stage
  PROVE  a = b
<1>1. ASSUME a \in PullSteps, b \in PullSteps PROVE a = b
  BY <1>1 DEF PullSteps, Row
<1>2. ASSUME a \in RequestAndGrantSteps, b \in RequestAndGrantSteps PROVE a = b
  BY <1>2 DEF RequestAndGrantSteps, Row
<1>3. ASSUME a \in SolicitedDataSteps, b \in SolicitedDataSteps PROVE a = b
  BY <1>3 DEF SolicitedDataSteps, Row
<1>4. ASSUME a \in UnsolicitedDataSteps, b \in UnsolicitedDataSteps PROVE a = b
  BY <1>4 DEF UnsolicitedDataSteps, Row
<1> QED
  BY <1>1, <1>2, <1>3, <1>4, StepsByType

LEMMA StateUpdated ==
  ASSUME NEW t, NEW row \in Steps, t.state \in row.from
  PROVE  UpdateState(t, row.type, row.stage) =
           [t EXCEPT !.state = IF row.to = "same" THEN @ ELSE row.to]
<1> DEFINE rows == {a \in Steps : a.type = row.type /\ a.stage = row.stage
                                    /\ t.state \in a.from}
<1>1. rows = {row}
  BY OneRow
<1>2. (CHOOSE a \in rows : TRUE) = row
  BY <1>1
<1> QED
  BY <1>1, <1>2 DEF UpdateState
-----------------------------------------------------------------------------
(* Credits, as numbers by pool. *)

Amounts == [CreditPools -> Int]

LEMMA PoolNumbers ==
  /\ \A pools : Credits(pools) \in Amounts
  /\ \A a, b \in Amounts : CreditsPlus(a, b) \in Amounts /\ CreditsMinus(a, b) \in Amounts
BY DEF Amounts, Credits, CreditsPlus, CreditsMinus

LEMMA ReservesAreAmounts ==
  /\ NoCredits \in Amounts
  /\ \A type \in {"kPullRequest", "kPullData", "kPushRequest", "kPushUnsolicitedData"} :
       ReserveOutgoing(type) \in Amounts
  /\ \A type : ReserveIncoming(type) \in Amounts
  /\ \A type \in {"kPullRequest", "kPullData", "kPushRequest", "kPushGrant",
                  "kPushSolicitedData", "kPushUnsolicitedData"} : ReleaseOutgoing(type) \in Amounts
  /\ \A type \in {"kPullRequest", "kPullData", "kPushSolicitedData",
                  "kPushUnsolicitedData"} : ReleaseIncoming(type) \in Amounts
  /\ ComputeIncomingPullData \in Amounts
BY PoolNumbers
   DEF NoCredits, ReserveOutgoing, ReserveIncoming, ReleaseOutgoing, ReleaseIncoming,
       ComputeOutgoingPullRequest, ComputeIncomingPullRequest, ComputeOutgoingPullData,
       ComputeIncomingPullData, ComputeOutgoingPushRequest, ComputeIncomingPushRequest,
       ComputeOutgoingPushGrant, ComputeIncomingPushGrant, ComputeOutgoingSolicitedData,
       ComputeIncomingSolicitedData, ComputeOutgoingUnsolicitedData,
       ComputeUnsolicitedCompletion, ComputeIncomingUnsolicitedData

LEMMA CreditSums ==
  ASSUME NEW a \in Amounts
  PROVE  /\ CreditsPlus(NoCredits, a) = a
         /\ CreditsPlus(a, NoCredits) = a
         /\ CreditsMinus(a, NoCredits) = a
         /\ CreditsMinus(a, a) = NoCredits
BY DEF Amounts, NoCredits, Credits, CreditsPlus, CreditsMinus

\* What is given back is what was reserved, whichever packets give it back.
LEMMA ReservesAreReleased ==
  /\ CreditsMinus(ReserveOutgoing("kPullRequest"), ReleaseOutgoing("kPullRequest"))
       = ReleaseIncoming("kPullData")
  /\ ReserveOutgoing("kPullData") = ReleaseOutgoing("kPullData")
  /\ ReserveOutgoing("kPushRequest") = ReleaseOutgoing("kPushSolicitedData")
  /\ ReserveOutgoing("kPushUnsolicitedData") = ReleaseOutgoing("kPushUnsolicitedData")
  /\ ReserveIncoming("kPullRequest") = ReleaseIncoming("kPullRequest")
  /\ ReserveIncoming("kPushUnsolicitedData") = ReleaseIncoming("kPushUnsolicitedData")
  /\ CreditsMinus(ReserveIncoming("kPushRequest"), ReleaseOutgoing("kPushGrant"))
       = ReleaseIncoming("kPushSolicitedData")
  /\ ReleaseOutgoing("kPushRequest") = NoCredits
  /\ ReserveIncoming("kPullData") = NoCredits
  /\ ReserveIncoming("kPushGrant") = NoCredits
  /\ ReserveIncoming("kPushSolicitedData") = NoCredits
<1> USE DEF NoCredits, Credits, CreditPools, CreditsPlus, CreditsMinus,
            ReserveOutgoing, ReserveIncoming, ReleaseOutgoing, ReleaseIncoming
<1>1. CreditsMinus(ReserveOutgoing("kPullRequest"), ReleaseOutgoing("kPullRequest"))
        = ReleaseIncoming("kPullData")
  BY DEF ComputeOutgoingPullRequest, ComputeIncomingPullData
<1>2. ReserveOutgoing("kPushRequest") = ReleaseOutgoing("kPushSolicitedData")
  BY DEF ComputeOutgoingPushRequest, ComputeIncomingPushGrant, ComputeOutgoingSolicitedData
<1>3. CreditsMinus(ReserveIncoming("kPushRequest"), ReleaseOutgoing("kPushGrant"))
        = ReleaseIncoming("kPushSolicitedData")
  BY DEF ComputeIncomingPushRequest, ComputeOutgoingPushGrant, ComputeIncomingSolicitedData
<1>4. /\ ReserveOutgoing("kPullData") = ReleaseOutgoing("kPullData")
      /\ ReserveOutgoing("kPushUnsolicitedData") = ReleaseOutgoing("kPushUnsolicitedData")
      /\ ReserveIncoming("kPullRequest") = ReleaseIncoming("kPullRequest")
      /\ ReserveIncoming("kPushUnsolicitedData") = ReleaseIncoming("kPushUnsolicitedData")
      /\ ReleaseOutgoing("kPushRequest") = NoCredits
      /\ ReserveIncoming("kPullData") = NoCredits
      /\ ReserveIncoming("kPushGrant") = NoCredits
      /\ ReserveIncoming("kPushSolicitedData") = NoCredits
  BY DEF ComputeIncomingPullRequest, ComputeOutgoingPullData, ComputeOutgoingUnsolicitedData,
         ComputeUnsolicitedCompletion, ComputeIncomingUnsolicitedData
<1> QED
  BY <1>1, <1>2, <1>3, <1>4

NonNegative(a) == \A p \in CreditPools : a[p] >= 0

LEMMA ReservesAreNotNegative ==
  /\ NonNegative(NoCredits)
  /\ \A type \in {"kPullRequest", "kPullData", "kPushRequest", "kPushUnsolicitedData"} :
       NonNegative(ReserveOutgoing(type))
  /\ \A type : NonNegative(ReserveIncoming(type))
  /\ \A type \in {"kPullRequest", "kPullData", "kPushSolicitedData",
                  "kPushUnsolicitedData"} : NonNegative(ReleaseIncoming(type))
BY DEF NonNegative, Credits, CreditPools, CreditsPlus, CreditsMinus,
       NoCredits, ReserveOutgoing, ReserveIncoming, ReleaseIncoming,
       ComputeOutgoingPullRequest, ComputeIncomingPullRequest, ComputeOutgoingPullData,
       ComputeIncomingPullData, ComputeOutgoingPushRequest, ComputeIncomingPushRequest,
       ComputeOutgoingPushGrant, ComputeIncomingPushGrant, ComputeOutgoingSolicitedData,
       ComputeIncomingSolicitedData, ComputeOutgoingUnsolicitedData,
       ComputeUnsolicitedCompletion, ComputeIncomingUnsolicitedData
-----------------------------------------------------------------------------
(* The operations on the metadata of one transaction, field by field. *)

AllPacketTypes ==
  {"kPullRequest", "kPullData", "kPushRequest", "kPushGrant", "kPushSolicitedData",
   "kPushUnsolicitedData", "kAck", "kInvalid"}

Metadata ==
  [state : AnyState \cup {"failed"}, packets : SUBSET AllPacketTypes,
   freed : SUBSET AllPacketTypes, context : AllPacketTypes \cup {"none", "sent"},
   held : Amounts]

\* u is t but for its state, and for what else the lemma says.
SamePackets(t, u) == u.packets = t.packets /\ u.freed = t.freed
SameContext(t, u) == u.context = t.context
SameCredits(t, u) == u.held = t.held

LEMMA Moved ==
  ASSUME NEW t \in Metadata, NEW row \in Steps, t.state \in row.from
  PROVE  LET u == UpdateState(t, row.type, row.stage)
         IN /\ u \in Metadata /\ u.state = IF row.to = "same" THEN t.state ELSE row.to
            /\ SamePackets(t, u) /\ SameContext(t, u) /\ SameCredits(t, u)
<1>1. row.to \in AnyState \cup {"same"}
  BY DEF Steps, PullSteps, RequestAndGrantSteps, SolicitedDataSteps, UnsolicitedDataSteps,
         Row, AnyState, Live, PullStates, SolicitedStates, UnsolicitedStates
<1> DEFINE to == IF row.to = "same" THEN t.state ELSE row.to
<1>2. to \in AnyState \cup {"failed"}
  BY <1>1 DEF Metadata
<1>3. UpdateState(t, row.type, row.stage) = [t EXCEPT !.state = to]
  BY StateUpdated
<1> HIDE DEF to
<1> QED
  <2>1. LET u == [t EXCEPT !.state = to]
        IN u \in Metadata /\ u.state = to /\ SamePackets(t, u) /\ SameContext(t, u)
              /\ SameCredits(t, u)
    BY <1>2 DEF Metadata, SamePackets, SameContext, SameCredits
  <2> QED
    BY <1>3, <2>1 DEF to

LEMMA Stepped ==
  ASSUME NEW t \in Metadata, NEW type, NEW stage, NEW from, NEW to,
         Row(type, stage, from, to) \in Steps, t.state \in from
  PROVE  LET u == UpdateState(t, type, stage)
         IN /\ u \in Metadata /\ u.state = IF to = "same" THEN t.state ELSE to
            /\ SamePackets(t, u) /\ SameContext(t, u) /\ SameCredits(t, u)
<1> DEFINE row == Row(type, stage, from, to)
<1>1. row.type = type /\ row.stage = stage /\ row.from = from /\ row.to = to
  BY DEF Row
<1> HIDE DEF row
<1> QED
  BY <1>1, Moved DEF row

LEMMA Transmitted ==
  ASSUME NEW t \in Metadata, NEW type, NEW from, NEW to \in AnyState,
         Row(type, "NtwkTx", from, to) \in Steps, t.state \in from
  PROVE  LET u == UpdateState(CreateOrUpdateReceiverPacketContext(t, type, FALSE), type, "NtwkTx")
         IN /\ u \in Metadata /\ u.state = to /\ SamePackets(t, u) /\ SameCredits(t, u)
            /\ t.context # "none" => SameContext(t, u)
<1> DEFINE s == CreateOrUpdateReceiverPacketContext(t, type, FALSE)
<1>1. /\ s \in Metadata /\ s.state = t.state /\ SamePackets(t, s) /\ SameCredits(t, s)
      /\ t.context # "none" => SameContext(t, s)
  BY DEF CreateOrUpdateReceiverPacketContext, Metadata, SamePackets, SameContext, SameCredits
<1>2. to # "same"
  BY DEF AnyState, Live, Absent, PullStates, SolicitedStates, UnsolicitedStates
<1> HIDE DEF s
<1>3. LET u == UpdateState(s, type, "NtwkTx")
      IN u \in Metadata /\ u.state = to /\ SamePackets(s, u) /\ SameCredits(s, u)
            /\ SameContext(s, u)
  BY <1>1, <1>2, Stepped
<1> QED
  BY <1>1, <1>3 DEF s, SamePackets, SameContext, SameCredits

Unfreed(t, type) == type \in t.packets \ t.freed

LEMMA Reserved ==
  ASSUME NEW t \in Metadata, NEW credits \in Amounts
  PROVE  LET u == Reserve(t, credits)
         IN /\ u \in Metadata /\ u.state = t.state /\ SamePackets(t, u) /\ SameContext(t, u)
            /\ u.held = CreditsPlus(t.held, credits)
<1>1. CreditsPlus(t.held, credits) \in Amounts
  BY PoolNumbers DEF Metadata
<1> QED
  BY <1>1 DEF Reserve, Metadata, SamePackets, SameContext

LEMMA Released ==
  ASSUME NEW t \in Metadata, NEW type \in AllPacketTypes, NEW credits \in Amounts,
         t.state \in Live, Unfreed(t, type)
  PROVE  LET u == ReleaseResources(t, type, credits)
         IN /\ u \in Metadata /\ u.state = t.state /\ SameContext(t, u)
            /\ u.packets = t.packets /\ u.freed = t.freed \cup {type}
            /\ u.held = CreditsMinus(t.held, credits)
<1> DEFINE held == CreditsMinus(t.held, credits)
           freed == t.freed \cup {type}
<1>1. held \in Amounts /\ freed \subseteq AllPacketTypes
  BY PoolNumbers DEF Metadata
<1>2. ReleaseResources(t, type, credits) = [t EXCEPT !.held = held, !.freed = freed]
  BY DEF ReleaseResources, Unfreed
<1> HIDE DEF held, freed
<1>3. LET u == [t EXCEPT !.held = held, !.freed = freed]
      IN /\ u \in Metadata /\ u.state = t.state /\ SameContext(t, u)
         /\ u.packets = t.packets /\ u.freed = freed /\ u.held = held
  BY <1>1 DEF Metadata, SameContext
<1> QED
  BY <1>2, <1>3 DEF held, freed

LEMMA Created ==
  ASSUME NEW t \in Metadata, NEW type \in AllPacketTypes
  PROVE  LET u == CreatePacket(t, type)
         IN /\ u \in Metadata /\ u.state = t.state /\ SameContext(t, u) /\ SameCredits(t, u)
            /\ u.packets = t.packets \cup {type} /\ u.freed = t.freed \ {type}
BY DEF CreatePacket, Metadata, SameContext, SameCredits

LEMMA Named ==
  ASSUME NEW t \in Metadata, NEW type \in AllPacketTypes
  PROVE  LET u == CreateOrUpdateReceiverPacketContext(t, type, TRUE)
         IN /\ u \in Metadata /\ u.state = t.state /\ SamePackets(t, u) /\ SameCredits(t, u)
            /\ u.context = type
BY DEF CreateOrUpdateReceiverPacketContext, Metadata, SamePackets, SameCredits

LEMMA Erased ==
  ASSUME NEW t \in Metadata, t.state # "failed"
  PROVE  LET u == Erase(t)
         IN u \in Metadata /\ u.state = "erased" /\ SameCredits(t, u)
BY DEF Erase, Metadata, SameCredits, AnyState, Absent

\* States and types as the lemmas above ask for them.
LEMMA StatesAreLive ==
  /\ PullStates \cup SolicitedStates \cup UnsolicitedStates = Live
  /\ Live \subseteq AnyState /\ "failed" \notin AnyState /\ "none" \notin Live
  /\ "erased" \notin Live /\ "same" \notin AnyState
BY DEF Live, AnyState, Absent, PullStates, SolicitedStates, UnsolicitedStates

-----------------------------------------------------------------------------
(* The ACK of a packet. *)

LEMMA RequestAcked ==
  ASSUME NEW t \in Metadata, NEW type \in {"kPullRequest", "kPushRequest", "kPushGrant"},
         t.state \in Live, Unfreed(t, type)
  PROVE  LET u == AckedFromNetwork(t, type)
         IN /\ u \in Metadata /\ u.state = t.state /\ SameContext(t, u)
            /\ u.packets = t.packets /\ u.freed = t.freed \cup {type}
            /\ u.held = CreditsMinus(t.held, ReleaseOutgoing(type))
<1> DEFINE s == UpdateState(t, type, "NtwkAckRx")
<1>1. Row(type, "NtwkAckRx", Live, "same") \in Steps
  BY DEF Steps, PullSteps, RequestAndGrantSteps
<1>2. s \in Metadata /\ s.state = t.state /\ SamePackets(t, s) /\ SameContext(t, s)
      /\ SameCredits(t, s)
  BY <1>1, Stepped
<1>3. type \in AllPacketTypes /\ ReleaseOutgoing(type) \in Amounts
  BY ReservesAreAmounts DEF AllPacketTypes
<1>4. AckedFromNetwork(t, type) = ReleaseResources(s, type, ReleaseOutgoing(type))
  BY DEF AckedFromNetwork, PushData
<1>5. Unfreed(s, type) /\ s.state \in Live
  BY <1>2 DEF Unfreed, SamePackets
<1> HIDE DEF s
<1> QED
  BY <1>2, <1>3, <1>4, <1>5, Released DEF SamePackets, SameContext, SameCredits

LEMMA PullDataAcked ==
  ASSUME NEW t \in Metadata, t.state = "kPullDataNtwkTx", Unfreed(t, "kPullData")
  PROVE  LET u == AckedFromNetwork(t, "kPullData")
         IN /\ u \in Metadata /\ u.state = "erased"
            /\ u.held = CreditsMinus(t.held, ReleaseOutgoing("kPullData"))
<1> DEFINE s == UpdateState(t, "kPullData", "NtwkAckRx")
<1>1. Row("kPullData", "NtwkAckRx", {"kPullDataNtwkTx"}, "kPullDataAckNtwkRx") \in Steps
  BY DEF Steps, PullSteps
<1>2. /\ s \in Metadata /\ s.state = "kPullDataAckNtwkRx"
      /\ SamePackets(t, s) /\ SameContext(t, s) /\ SameCredits(t, s)
  BY <1>1, Stepped
<1>3. "kPullData" \in AllPacketTypes /\ ReleaseOutgoing("kPullData") \in Amounts
  BY ReservesAreAmounts DEF AllPacketTypes
<1>4. AckedFromNetwork(t, "kPullData") =
        Erase(ReleaseResources(s, "kPullData", ReleaseOutgoing("kPullData")))
  BY DEF AckedFromNetwork, PushData
<1>5. Unfreed(s, "kPullData") /\ s.state \in Live /\ s.state # "failed"
  BY <1>2 DEF Unfreed, SamePackets, Live, PullStates
<1> HIDE DEF s
<1> QED
  BY <1>2, <1>3, <1>4, <1>5, Released, Erased DEF SamePackets, SameContext, SameCredits

\* What the states of push data are called, by the transaction's type.
Completing(type) ==
  CASE type = "kPull" -> "kPullDataNtwkRx"
    [] type = "kPushSolicited" -> "kPushSolicitedDataAckNtwkRx"
    [] type = "kPushUnsolicited" -> "kPushUnsolicitedDataAckNtwkRx"

LEMMA PushDataAcked ==
  ASSUME NEW t \in Metadata, NEW type \in {"kPushSolicited", "kPushUnsolicited"},
         t.state = IF type = "kPushSolicited" THEN "kPushSolicitedDataNtwkTx"
                   ELSE "kPushUnsolicitedDataNtwkTx"
  PROVE  LET u == AckedFromNetwork(t, UlpRequest(type))
         IN /\ u \in Metadata /\ u.state = Completing(type)
            /\ SamePackets(t, u) /\ SameContext(t, u) /\ SameCredits(t, u)
<1> DEFINE s == UpdateState(t, UlpRequest(type), "NtwkAckRx")
<1>1. /\ Row("kPushSolicitedData", "NtwkAckRx", {"kPushSolicitedDataNtwkTx"},
             "kPushSolicitedDataAckNtwkRx") \in Steps
      /\ Row("kPushUnsolicitedData", "NtwkAckRx", {"kPushUnsolicitedDataNtwkTx"},
             "kPushUnsolicitedDataAckNtwkRx") \in Steps
  BY DEF Steps, SolicitedDataSteps, UnsolicitedDataSteps
<1>2. UlpRequest(type) = IF type = "kPushSolicited" THEN "kPushSolicitedData"
                         ELSE "kPushUnsolicitedData"
  BY DEF UlpRequest, RdmaOpcodeToPacketType
<1>3. /\ s \in Metadata /\ s.state = Completing(type)
      /\ SamePackets(t, s) /\ SameContext(t, s) /\ SameCredits(t, s)
  <2>1. CASE type = "kPushSolicited"
    BY <1>1, <1>2, <2>1, Stepped DEF Completing
  <2>2. CASE type = "kPushUnsolicited"
    BY <1>1, <1>2, <2>2, Stepped DEF Completing
  <2> QED
    BY <2>1, <2>2
<1>4. AckedFromNetwork(t, UlpRequest(type)) = s
  BY <1>2 DEF AckedFromNetwork, PushData
<1> QED
  BY <1>3, <1>4
-----------------------------------------------------------------------------
(* A packet that is accepted. *)

LEMMA FirstAccepted ==
  ASSUME NEW t \in Metadata, NEW type \in {"kPullRequest", "kPushUnsolicitedData"},
         t.state = "none"
  PROVE  LET u == Reserve(CreateOrUpdateTransactionFromNetwork(
                            CreateOrUpdateReceiverPacketContext(t, type, TRUE), type),
                          ReserveIncoming(type))
         IN /\ u \in Metadata /\ Unfreed(u, type) /\ u.context = type
            /\ u.state = IF type = "kPullRequest" THEN "kPullReqNtwkRx"
                         ELSE "kPushUnsolicitedDataNtwkRx"
            /\ u.held = CreditsPlus(t.held, ReserveIncoming(type))
<1> DEFINE c == CreateOrUpdateReceiverPacketContext(t, type, TRUE)
           d == CreatePacket(c, type)
           e == UpdateState(d, type, "NtwkRx")
           to == IF type = "kPullRequest" THEN "kPullReqNtwkRx"
                 ELSE "kPushUnsolicitedDataNtwkRx"
<1>1. type \in AllPacketTypes /\ ReserveIncoming(type) \in Amounts
  BY ReservesAreAmounts DEF AllPacketTypes
<1>2. c \in Metadata /\ c.state = "none" /\ c.context = type /\ SameCredits(t, c)
  BY <1>1, Named
<1> HIDE DEF c
<1>3. d \in Metadata /\ d.state = "none" /\ d.context = type /\ SameCredits(t, d)
      /\ Unfreed(d, type)
  BY <1>1, <1>2, Created DEF SameCredits, SameContext, Unfreed
<1> HIDE DEF d
<1>4. Row(type, "NtwkRx", AnyState, to) \in Steps /\ to # "same" /\ "none" \in AnyState
  BY DEF Steps, PullSteps, UnsolicitedDataSteps, AnyState, Absent
<1>5. /\ e \in Metadata /\ e.state = to /\ e.context = type /\ SameCredits(t, e)
      /\ Unfreed(e, type)
  <2> HIDE DEF to
  <2> QED
    BY <1>3, <1>4, Stepped DEF SameCredits, SameContext, SamePackets, Unfreed
<1>6. CreateOrUpdateTransactionFromNetwork(c, type) = e
  BY <1>2 DEF CreateOrUpdateTransactionFromNetwork, Absent, d
<1> HIDE DEF e, to
<1>7. LET u == Reserve(e, ReserveIncoming(type))
      IN /\ u \in Metadata /\ Unfreed(u, type) /\ u.context = type /\ u.state = to
         /\ u.held = CreditsPlus(t.held, ReserveIncoming(type))
  BY <1>1, <1>5, Reserved DEF SameCredits, SameContext, SamePackets, Unfreed
<1> QED
  BY <1>6, <1>7 DEF c, to

LEMMA PushRequestAccepted ==
  ASSUME NEW t \in Metadata, t.state = "none"
  PROVE  LET u == Reserve(CreateOrUpdateTransactionFromNetwork(
                            CreateOrUpdateReceiverPacketContext(t, "kPushRequest", TRUE),
                            "kPushRequest"),
                          ReserveIncoming("kPushRequest"))
         IN /\ u \in Metadata /\ Unfreed(u, "kPushGrant") /\ u.state = "kPushReqNtwkRx"
            /\ u.held = CreditsPlus(t.held, ReserveIncoming("kPushRequest"))
<1> DEFINE c == CreateOrUpdateReceiverPacketContext(t, "kPushRequest", TRUE)
           g == CreatePacket(c, "kPushGrant")
           d == CreatePacket(g, "kPushRequest")
           e == UpdateState(d, "kPushRequest", "NtwkRx")
<1>1. /\ {"kPushRequest", "kPushGrant"} \subseteq AllPacketTypes
      /\ ReserveIncoming("kPushRequest") \in Amounts
  BY ReservesAreAmounts DEF AllPacketTypes
<1>2. c \in Metadata /\ c.state = "none" /\ SameCredits(t, c)
  BY <1>1, Named
<1> HIDE DEF c
<1>3. g \in Metadata /\ g.state = "none" /\ SameCredits(t, g) /\ Unfreed(g, "kPushGrant")
  BY <1>1, <1>2, Created DEF SameCredits, Unfreed
<1> HIDE DEF g
<1>4. d \in Metadata /\ d.state = "none" /\ SameCredits(t, d) /\ Unfreed(d, "kPushGrant")
  BY <1>1, <1>3, Created DEF SameCredits, Unfreed
<1> HIDE DEF d
<1>5. /\ Row("kPushRequest", "NtwkRx", AnyState, "kPushReqNtwkRx") \in Steps
      /\ "none" \in AnyState
  BY DEF Steps, RequestAndGrantSteps, AnyState, Absent
<1>6. /\ e \in Metadata /\ e.state = "kPushReqNtwkRx" /\ SameCredits(t, e)
      /\ Unfreed(e, "kPushGrant")
  BY <1>4, <1>5, Stepped DEF SameCredits, SamePackets, Unfreed
<1>7. CreateOrUpdateTransactionFromNetwork(c, "kPushRequest") = e
  BY <1>2 DEF CreateOrUpdateTransactionFromNetwork, Absent, d, g
<1> HIDE DEF e
<1>8. LET u == Reserve(e, ReserveIncoming("kPushRequest"))
      IN /\ u \in Metadata /\ Unfreed(u, "kPushGrant") /\ u.state = "kPushReqNtwkRx"
         /\ u.held = CreditsPlus(t.held, ReserveIncoming("kPushRequest"))
  BY <1>1, <1>6, Reserved DEF SameCredits, SamePackets, Unfreed
<1> QED
  BY <1>7, <1>8 DEF c

\* Of the packets that follow a first one; a reserves nothing more.
LEMMA NextAccepted ==
  ASSUME NEW t \in Metadata, NEW row \in Steps, row.stage = "NtwkRx", t.state \in row.from,
         t.state \notin Absent, row.to # "same", row.type \in AllPacketTypes,
         ReserveIncoming(row.type) = NoCredits
  PROVE  LET u == Reserve(CreateOrUpdateTransactionFromNetwork(
                            CreateOrUpdateReceiverPacketContext(t, row.type, TRUE), row.type),
                          ReserveIncoming(row.type))
         IN /\ u \in Metadata /\ u.state = row.to /\ u.context = row.type /\ SameCredits(t, u)
            /\ u.packets = t.packets \cup {row.type} /\ u.freed = t.freed \ {row.type}
<1> DEFINE type == row.type
           c == CreateOrUpdateReceiverPacketContext(t, type, TRUE)
           d == CreatePacket(c, type)
           e == UpdateState(d, type, "NtwkRx")
<1>1. type \in AllPacketTypes /\ NoCredits \in Amounts
  BY ReservesAreAmounts
<1> HIDE DEF type
<1>2. c \in Metadata /\ c.state = t.state /\ c.context = type /\ SameCredits(t, c)
      /\ SamePackets(t, c)
  BY <1>1, Named
<1> HIDE DEF c
<1>3. /\ d \in Metadata /\ d.state = t.state /\ d.context = type /\ SameCredits(t, d)
      /\ d.packets = t.packets \cup {type} /\ d.freed = t.freed \ {type}
  BY <1>1, <1>2, Created DEF SameCredits, SameContext, SamePackets
<1> HIDE DEF d
<1>4. /\ e \in Metadata /\ e.state = row.to /\ e.context = type /\ SameCredits(t, e)
      /\ e.packets = t.packets \cup {type} /\ e.freed = t.freed \ {type}
  BY <1>1, <1>3, Moved DEF type, SameCredits, SameContext, SamePackets
<1>5. CreateOrUpdateTransactionFromNetwork(c, type) = e
  BY <1>2 DEF CreateOrUpdateTransactionFromNetwork, d
<1> HIDE DEF e
<1>6. ReserveIncoming(type) = NoCredits /\ CreditsPlus(e.held, NoCredits) = e.held
  BY <1>4, CreditSums DEF Metadata, type
<1>7. LET u == Reserve(e, ReserveIncoming(type))
      IN /\ u \in Metadata /\ u.state = row.to /\ u.context = type /\ SameCredits(t, u)
         /\ u.packets = t.packets \cup {type} /\ u.freed = t.freed \ {type}
  BY <1>1, <1>4, <1>6, Reserved DEF SameCredits, SameContext, SamePackets
<1> QED
  BY <1>5, <1>7 DEF c, type

LEMMA PullDataAccepted ==
  ASSUME NEW t \in Metadata, t.state = "kPullReqNtwkTx"
  PROVE  LET u == Reserve(CreateOrUpdateTransactionFromNetwork(
                            CreateOrUpdateReceiverPacketContext(t, "kPullData", TRUE),
                            "kPullData"),
                          ReserveIncoming("kPullData"))
         IN /\ u \in Metadata /\ u.state = "kPullDataNtwkRx" /\ u.context = "kPullData"
            /\ SameCredits(t, u) /\ u.packets = t.packets \cup {"kPullData"}
            /\ u.freed = t.freed \ {"kPullData"}
<1> DEFINE to == "kPullDataNtwkRx"
           row == Row("kPullData", "NtwkRx", {"kPullReqNtwkTx"}, to)
<1>1. row \in Steps
  BY DEF Steps, PullSteps
<1>2. /\ row.type = "kPullData" /\ row.stage = "NtwkRx" /\ row.to = to
      /\ t.state \in row.from /\ t.state \notin Absent /\ row.to # "same"
      /\ "kPullData" \in AllPacketTypes /\ ReserveIncoming("kPullData") = NoCredits
  BY ReservesAreReleased DEF Row, Absent, AllPacketTypes
<1> HIDE DEF row, to
<1>3. LET u == Reserve(CreateOrUpdateTransactionFromNetwork(
                         CreateOrUpdateReceiverPacketContext(t, "kPullData", TRUE),
                         "kPullData"),
                       ReserveIncoming("kPullData"))
      IN /\ u \in Metadata /\ u.state = to /\ u.context = "kPullData"
         /\ SameCredits(t, u) /\ u.packets = t.packets \cup {"kPullData"}
         /\ u.freed = t.freed \ {"kPullData"}
  BY <1>1, <1>2, NextAccepted
<1> QED
  BY <1>3 DEF to

LEMMA PushGrantAccepted ==
  ASSUME NEW t \in Metadata, t.state = "kPushReqNtwkTx"
  PROVE  LET u == Reserve(CreateOrUpdateTransactionFromNetwork(
                            CreateOrUpdateReceiverPacketContext(t, "kPushGrant", TRUE),
                            "kPushGrant"),
                          ReserveIncoming("kPushGrant"))
         IN /\ u \in Metadata /\ u.state = "kPushGrantNtwkRx" /\ u.context = "kPushGrant"
            /\ SameCredits(t, u) /\ u.packets = t.packets \cup {"kPushGrant"}
            /\ u.freed = t.freed \ {"kPushGrant"}
<1> DEFINE to == "kPushGrantNtwkRx"
           row == Row("kPushGrant", "NtwkRx", {"kPushReqNtwkTx"}, to)
<1>1. row \in Steps
  BY DEF Steps, RequestAndGrantSteps
<1>2. /\ row.type = "kPushGrant" /\ row.stage = "NtwkRx" /\ row.to = to
      /\ t.state \in row.from /\ t.state \notin Absent /\ row.to # "same"
      /\ "kPushGrant" \in AllPacketTypes /\ ReserveIncoming("kPushGrant") = NoCredits
  BY ReservesAreReleased DEF Row, Absent, AllPacketTypes
<1> HIDE DEF row, to
<1>3. LET u == Reserve(CreateOrUpdateTransactionFromNetwork(
                         CreateOrUpdateReceiverPacketContext(t, "kPushGrant", TRUE),
                         "kPushGrant"),
                       ReserveIncoming("kPushGrant"))
      IN /\ u \in Metadata /\ u.state = to /\ u.context = "kPushGrant"
         /\ SameCredits(t, u) /\ u.packets = t.packets \cup {"kPushGrant"}
         /\ u.freed = t.freed \ {"kPushGrant"}
  BY <1>1, <1>2, NextAccepted
<1> QED
  BY <1>3 DEF to

LEMMA SolicitedDataAccepted ==
  ASSUME NEW t \in Metadata, t.state = "kPushGrantNtwkTx"
  PROVE  LET u == Reserve(CreateOrUpdateTransactionFromNetwork(
                            CreateOrUpdateReceiverPacketContext(t, "kPushSolicitedData", TRUE),
                            "kPushSolicitedData"),
                          ReserveIncoming("kPushSolicitedData"))
         IN /\ u \in Metadata /\ u.state = "kPushSolicitedDataNtwkRx"
               /\ u.context = "kPushSolicitedData"
            /\ SameCredits(t, u) /\ u.packets = t.packets \cup {"kPushSolicitedData"}
            /\ u.freed = t.freed \ {"kPushSolicitedData"}
<1> DEFINE to == "kPushSolicitedDataNtwkRx"
           row == Row("kPushSolicitedData", "NtwkRx", {"kPushGrantNtwkTx"}, to)
<1>1. row \in Steps
  BY DEF Steps, SolicitedDataSteps
<1>2. /\ row.type = "kPushSolicitedData" /\ row.stage = "NtwkRx" /\ row.to = to
      /\ t.state \in row.from /\ t.state \notin Absent /\ row.to # "same"
      /\ "kPushSolicitedData" \in AllPacketTypes
            /\ ReserveIncoming("kPushSolicitedData") = NoCredits
  BY ReservesAreReleased DEF Row, Absent, AllPacketTypes
<1> HIDE DEF row, to
<1>3. LET u == Reserve(CreateOrUpdateTransactionFromNetwork(
                         CreateOrUpdateReceiverPacketContext(t, "kPushSolicitedData", TRUE),
                         "kPushSolicitedData"),
                       ReserveIncoming("kPushSolicitedData"))
      IN /\ u \in Metadata /\ u.state = to /\ u.context = "kPushSolicitedData"
         /\ SameCredits(t, u) /\ u.packets = t.packets \cup {"kPushSolicitedData"}
         /\ u.freed = t.freed \ {"kPushSolicitedData"}
  BY <1>1, <1>2, NextAccepted
<1> QED
  BY <1>3 DEF to
-----------------------------------------------------------------------------
(* An operation of the ULP. *)

\* The state at the initiator before its first packet has left.
Starting(type) ==
  CASE type = "kPull" -> "kPullReqUlpRx"
    [] type = "kPushSolicited" -> "kPushSolicitedReqUlpRx"
    [] type = "kPushUnsolicited" -> "kPushUnsolicitedReqUlpRx"

LEMMA Begun ==
  ASSUME NEW t \in Metadata, NEW type \in Types, t.state = "none", t.held = NoCredits
  PROVE  LET first == RdmaOpcodeToPacketType(type)
             u == CreateOrUpdateTransactionFromUlp(Reserve(t, ReserveOutgoing(first)), type)
         IN /\ u \in Metadata /\ u.state = Starting(type) /\ u.held = ReserveOutgoing(first)
            /\ Unfreed(u, first)
            /\ type = "kPushSolicited" => Unfreed(u, "kPushSolicitedData")
<1> DEFINE first == RdmaOpcodeToPacketType(type)
           packets == {first}
                      \cup (IF type = "kPushSolicited" THEN {"kPushSolicitedData"} ELSE {})
                      \cup (IF type = "kPushUnsolicited" /\ mode = "kOrdered"
                            THEN {"kInvalid"} ELSE {})
           r == Reserve(t, ReserveOutgoing(first))
           d == [r EXCEPT !.packets = packets, !.freed = {}]
           e == UpdateState(d, first, "UlpRx")
<1>1. /\ first \in AllPacketTypes /\ ReserveOutgoing(first) \in Amounts
      /\ packets \subseteq AllPacketTypes
  BY ReservesAreAmounts DEF AllPacketTypes, RdmaOpcodeToPacketType, Types
<1>2. /\ Row(first, "UlpRx", AnyState, Starting(type)) \in Steps
      /\ Starting(type) # "same" /\ "none" \in AnyState
  BY DEF Steps, PullSteps, RequestAndGrantSteps, UnsolicitedDataSteps, AnyState, Absent,
         Types, RdmaOpcodeToPacketType, Starting
<1>3. first \in packets /\ (type = "kPushSolicited" => "kPushSolicitedData" \in packets)
  OBVIOUS
<1>4. CreateOrUpdateTransactionFromUlp(r, type) = e
  BY DEF CreateOrUpdateTransactionFromUlp
<1> HIDE DEF first, packets
<1>5. r \in Metadata /\ r.state = "none" /\ r.held = ReserveOutgoing(first)
  BY <1>1, Reserved, CreditSums
<1> HIDE DEF r
<1>6. /\ d \in Metadata /\ d.state = "none" /\ d.held = ReserveOutgoing(first)
      /\ d.packets = packets /\ d.freed = {}
  BY <1>1, <1>5 DEF Metadata
<1> HIDE DEF d
<1>7. /\ e \in Metadata /\ e.state = Starting(type) /\ e.held = ReserveOutgoing(first)
      /\ e.packets = packets /\ e.freed = {}
  BY <1>2, <1>6, Stepped DEF SamePackets, SameCredits
<1> QED
  BY <1>3, <1>4, <1>7 DEF Unfreed, first, r

LEMMA Responded ==
  ASSUME NEW t \in Metadata, t.state = "kPullReqAckUlpRx", t.held = NoCredits
  PROVE  LET u == UpdateState(CreatePacket(Reserve(t, ReserveOutgoing("kPullData")),
                                           "kPullData"), "kPullData", "UlpRx")
         IN /\ u \in Metadata /\ u.state = "kPullDataUlpRx" /\ Unfreed(u, "kPullData")
            /\ u.held = ReserveOutgoing("kPullData")
<1> DEFINE r == Reserve(t, ReserveOutgoing("kPullData"))
           d == CreatePacket(r, "kPullData")
<1>1. "kPullData" \in AllPacketTypes /\ ReserveOutgoing("kPullData") \in Amounts
  BY ReservesAreAmounts DEF AllPacketTypes
<1>2. r \in Metadata /\ r.state = "kPullReqAckUlpRx" /\ r.held = ReserveOutgoing("kPullData")
  BY <1>1, Reserved, CreditSums
<1> HIDE DEF r
<1>3. /\ d \in Metadata /\ d.state = "kPullReqAckUlpRx" /\ d.held = ReserveOutgoing("kPullData")
      /\ Unfreed(d, "kPullData")
  BY <1>1, <1>2, Created DEF SameCredits, Unfreed
<1> HIDE DEF d
<1>4. Row("kPullData", "UlpRx", {"kPullReqAckUlpRx"}, "kPullDataUlpRx") \in Steps
  BY DEF Steps, PullSteps
<1>5. LET u == UpdateState(d, "kPullData", "UlpRx")
      IN /\ u \in Metadata /\ u.state = "kPullDataUlpRx" /\ Unfreed(u, "kPullData")
         /\ u.held = ReserveOutgoing("kPullData")
  BY <1>3, <1>4, Stepped DEF SamePackets, SameCredits, Unfreed
<1> QED
  BY <1>5 DEF d, r

\* What the target's metadata goes through with the packet its ULP takes.
Ready(type) ==
  CASE type = "kPull" -> "kPullReqNtwkRx"
    [] type = "kPushSolicited" -> "kPushSolicitedDataNtwkRx"
    [] type = "kPushUnsolicited" -> "kPushUnsolicitedDataNtwkRx"
Taken(type) ==
  CASE type = "kPull" -> "kPullReqUlpTx"
    [] type = "kPushSolicited" -> "kPushSolicitedDataUlpTx"
    [] type = "kPushUnsolicited" -> "kPushUnsolicitedDataUlpTx"
Refused(type) ==
  CASE type = "kPull" -> "kPullReqRnrUlpRx"
    [] type = "kPushSolicited" -> "kPushSolicitedDataRnrUlpRx"
    [] type = "kPushUnsolicited" -> "kPushUnsolicitedDataRnrUlpRx"

LEMMA RequestForwarded ==
  ASSUME NEW t \in Metadata, NEW type \in Types, t.state \in {Ready(type), Refused(type)},
         Unfreed(t, UlpRequest(type))
  PROVE  LET u == ForwardToUlp(t, UlpRequest(type))
         IN /\ u \in Metadata /\ u.state = Taken(type)
            /\ SamePackets(t, u) /\ SameContext(t, u) /\ SameCredits(t, u)
<1>1. /\ Row(UlpRequest(type), "UlpTx", {Ready(type), Refused(type)}, Taken(type)) \in Steps
      /\ Taken(type) # "same"
  BY DEF Steps, PullSteps, SolicitedDataSteps, UnsolicitedDataSteps, Types, UlpRequest,
         RdmaOpcodeToPacketType, Ready, Refused, Taken
<1>2. t.state \in Live /\ UlpRequest(type) # "kPullData"
  BY DEF Live, PullStates, SolicitedStates, UnsolicitedStates, Types, Ready, Refused,
         UlpRequest, RdmaOpcodeToPacketType
<1>3. ForwardToUlp(t, UlpRequest(type)) = UpdateState(t, UlpRequest(type), "UlpTx")
  BY <1>2 DEF ForwardToUlp, Unfreed
<1> QED
  BY <1>1, <1>3, Stepped

LEMMA PullDataForwarded ==
  ASSUME NEW t \in Metadata, t.state = "kPullDataNtwkRx", Unfreed(t, "kPullData"),
         t.held = ReleaseIncoming("kPullData")
  PROVE  LET u == ForwardToUlp(t, "kPullData")
         IN u \in Metadata /\ u.state = "erased" /\ u.held = NoCredits
<1> DEFINE s == UpdateState(t, "kPullData", "UlpTx")
           f == ReleaseResources(s, "kPullData", ReleaseIncoming("kPullData"))
<1>1. /\ Row("kPullData", "UlpTx", {"kPullDataNtwkRx"}, "kPullDataUlpTx") \in Steps
      /\ {"kPullDataNtwkRx", "kPullDataUlpTx"} \subseteq Live
  BY DEF Steps, PullSteps, Live, PullStates
<1>2. ForwardToUlp(t, "kPullData") = Erase(f)
  BY <1>1 DEF ForwardToUlp, Unfreed
<1>3. /\ s \in Metadata /\ s.state = "kPullDataUlpTx" /\ Unfreed(s, "kPullData")
      /\ s.held = ReleaseIncoming("kPullData")
  BY <1>1, Stepped DEF SamePackets, SameCredits, Unfreed
<1> HIDE DEF s
<1>4. "kPullData" \in AllPacketTypes /\ ReleaseIncoming("kPullData") \in Amounts
  BY ReservesAreAmounts DEF AllPacketTypes
<1>5. f \in Metadata /\ f.state = "kPullDataUlpTx" /\ f.held = NoCredits
  BY <1>1, <1>3, <1>4, Released, CreditSums
<1> HIDE DEF f
<1> QED
  BY <1>2, <1>5, Erased DEF SameCredits

LEMMA PushCompleted ==
  ASSUME NEW t \in Metadata, NEW type \in {"kPushSolicited", "kPushUnsolicited"},
         t.state = Completing(type), Unfreed(t, UlpRequest(type)),
         t.held = ReleaseOutgoing(UlpRequest(type))
  PROVE  LET u == Complete(t, type)
         IN u \in Metadata /\ u.state = "erased" /\ u.held = NoCredits
<1> DEFINE data == UlpRequest(type)
           s == UpdateState(t, data, "UlpCompletionTx")
           f == ReleaseResources(s, data, ReleaseOutgoing(data))
<1>1. /\ Row(data, "UlpCompletionTx", {Completing(type)}, "kPushCompletionUlpTx") \in Steps
      /\ "kPushCompletionUlpTx" \in Live
  BY DEF Steps, SolicitedDataSteps, UnsolicitedDataSteps, Live, SolicitedStates, UlpRequest,
         RdmaOpcodeToPacketType, Completing
<1>2. Complete(t, type) = Erase(f)
  BY DEF Complete
<1>3. data \in AllPacketTypes /\ ReleaseOutgoing(data) \in Amounts
  BY ReservesAreAmounts DEF AllPacketTypes, UlpRequest, RdmaOpcodeToPacketType
<1> HIDE DEF data
<1>4. /\ s \in Metadata /\ s.state = "kPushCompletionUlpTx" /\ Unfreed(s, data)
      /\ s.held = ReleaseOutgoing(data)
  BY <1>1, Stepped DEF SamePackets, SameCredits, Unfreed, data
<1> HIDE DEF s
<1>5. f \in Metadata /\ f.state = "kPushCompletionUlpTx" /\ f.held = NoCredits
  BY <1>1, <1>3, <1>4, Released, CreditSums
<1> HIDE DEF f
<1> QED
  BY <1>2, <1>5, Erased DEF SameCredits

LEMMA AckedByUlp ==
  ASSUME NEW t \in Metadata, NEW type \in Types, t.state = Taken(type),
         Unfreed(t, UlpRequest(type)), t.context = UlpRequest(type),
         t.held = ReleaseIncoming(UlpRequest(type))
  PROVE  LET u == AckedFromUlp(ReleaseResources(UpdateState(t, UlpRequest(type), "UlpAckRx"),
                                                UlpRequest(type),
                                                ReleaseIncoming(UlpRequest(type))),
                               UlpRequest(type))
         IN /\ u \in Metadata /\ u.held = NoCredits
            /\ u.state = IF type = "kPull" THEN "kPullReqAckUlpRx" ELSE "erased"
<1> DEFINE request == UlpRequest(type)
           to == CASE type = "kPull" -> "kPullReqAckUlpRx"
                   [] type = "kPushSolicited" -> "kPushSolicitedDataAckUlpRx"
                   [] type = "kPushUnsolicited" -> "kPushUnsolicitedDataAckUlpRx"
           s == UpdateState(t, request, "UlpAckRx")
           f == ReleaseResources(s, request, ReleaseIncoming(request))
<1>1. /\ Row(request, "UlpAckRx", {Taken(type)}, to) \in Steps
      /\ to \in Live
      /\ type = "kPull" => to = "kPullReqAckUlpRx"
      /\ request = "kPullRequest" <=> type = "kPull"
  BY DEF Steps, PullSteps, SolicitedDataSteps, UnsolicitedDataSteps, Types, Live, PullStates,
         SolicitedStates, UnsolicitedStates, UlpRequest, RdmaOpcodeToPacketType, Taken
<1>2. /\ request \in AllPacketTypes \ {"none"} /\ ReleaseIncoming(request) \in Amounts
  BY ReservesAreAmounts DEF AllPacketTypes, UlpRequest, RdmaOpcodeToPacketType, Types
<1> HIDE DEF request, to
<1>3. /\ s \in Metadata /\ s.state = to /\ Unfreed(s, request) /\ s.context = request
      /\ s.held = ReleaseIncoming(request)
  BY <1>1, StatesAreLive, Stepped DEF SamePackets, SameCredits, SameContext, Unfreed, request
<1> HIDE DEF s
<1>4. f \in Metadata /\ f.state = to /\ f.held = NoCredits /\ f.context = request
  BY <1>1, <1>2, <1>3, Released, CreditSums DEF SameContext
<1> HIDE DEF f
<1>5. AckedFromUlp(f, request) = IF type = "kPull" THEN f ELSE Erase(f)
  BY <1>1, <1>2, <1>4 DEF AckedFromUlp
<1>6. Erase(f) \in Metadata /\ Erase(f).state = "erased" /\ Erase(f).held = NoCredits
  BY <1>1, <1>4, StatesAreLive, Erased DEF SameCredits
<1>7. LET u == AckedFromUlp(f, request)
      IN /\ u \in Metadata /\ u.held = NoCredits
         /\ u.state = IF type = "kPull" THEN "kPullReqAckUlpRx" ELSE "erased"
  BY <1>1, <1>4, <1>5, <1>6
<1> QED
  BY <1>7 DEF f, s, request

LEMMA NackedByUlp ==
  ASSUME NEW t \in Metadata, NEW type \in Types, t.state = Taken(type),
         Unfreed(t, UlpRequest(type)), t.context = UlpRequest(type)
  PROVE  /\ t.context \in t.packets
         /\ LET u == UpdateState(t, UlpRequest(type), "UlpRnrRx")
            IN /\ u \in Metadata /\ u.state = Refused(type)
               /\ SamePackets(t, u) /\ SameContext(t, u) /\ SameCredits(t, u)
<1>1. \E from : Row(UlpRequest(type), "UlpRnrRx", from, Refused(type)) \in Steps
                  /\ Taken(type) \in from
  <2> DEFINE from == {Taken(type), Ready(type)}
  <2>1. Row(UlpRequest(type), "UlpRnrRx", from, Refused(type)) \in Steps
    BY DEF Steps, PullSteps, SolicitedDataSteps, UnsolicitedDataSteps, Types, UlpRequest,
           RdmaOpcodeToPacketType, Ready, Refused, Taken
  <2> QED
    BY <2>1
<1>2. Refused(type) # "same"
  BY DEF Types, Refused
<1> QED
  BY <1>1, <1>2, Stepped DEF Unfreed
-----------------------------------------------------------------------------
(* What concerns one transaction: its metadata at both hosts, and the places *)
(* its packets, by their types, are in.                                    *)

Packets == [rsn : WorkRsns, type : AllPacketTypes]
TypesOf(S, r) == {type \in AllPacketTypes : Packet(r, type) \in S}
Entries(q) == {q[k] : k \in 1..Len(q)}
LanesOf(f, r) == {lane \in Lanes : r \in f[lane]}
LetGoOf == [lane \in Lanes |-> LetGo(lane, arrived[lane])]

View(r) ==
  [type |-> work[r],
   phase |-> IF r <= made THEN "begun" ELSE "new",
   ini |-> transactions["kInitiator"][r],
   tar |-> transactions["kTarget"][r],
   toSend |-> TypesOf(toSend, r),
   unacked |-> TypesOf(unacked, r),
   network |-> TypesOf(network, r),
   received |-> TypesOf(received, r),
   ackable |-> TypesOf(ackable, r),
   ulp |-> TypesOf(ulp, r),
   timer |-> IF r \in waiting THEN "armed" ELSE "off",
   arrived |-> LanesOf(arrived, r),
   letGo |-> LanesOf(LetGoOf, r),
   atIni |-> TypesOf(Entries(rxQueue["kInitiator"]), r),
   atTar |-> TypesOf(Entries(rxQueue["kTarget"]), r)]

Views ==
  [type : Types, phase : {"new", "begun"}, ini : Metadata, tar : Metadata,
   toSend : SUBSET AllPacketTypes, unacked : SUBSET AllPacketTypes,
   network : SUBSET AllPacketTypes, received : SUBSET AllPacketTypes,
   ackable : SUBSET AllPacketTypes, ulp : SUBSET AllPacketTypes, timer : {"off", "armed"},
   arrived : SUBSET Lanes, letGo : SUBSET Lanes,
   atIni : SUBSET AllPacketTypes, atTar : SUBSET AllPacketTypes]

PacketTypes(type) ==
  CASE type = "kPull" -> {"kPullRequest", "kPullData"}
    [] type = "kPushSolicited" -> {"kPushRequest", "kPushGrant", "kPushSolicitedData"}
    [] type = "kPushUnsolicited" -> {"kPushUnsolicitedData"}

\* What ends the wait of the initiator's ULP.
Answer(type) == IF type = "kPull" THEN "kPullData" ELSE "kAck"

OwnPackets(v) ==
  /\ v.toSend \subseteq PacketTypes(v.type)
  /\ v.unacked \subseteq PacketTypes(v.type)
  /\ v.network \subseteq PacketTypes(v.type)
  /\ v.received \subseteq PacketTypes(v.type)
  /\ v.ackable \subseteq v.received
  /\ v.ulp \subseteq {UlpRequest(v.type)}
                     \cup (IF v.type = "kPull" THEN {"kPullData"} ELSE {})
  /\ v.atIni \subseteq {Answer(v.type)} /\ v.atTar \subseteq {UlpRequest(v.type)}
  /\ v.type # "kPushSolicited" => v.arrived \subseteq {"initiatorRsn", "targetRsn"}
  /\ v.letGo \subseteq v.arrived

\* The initiator, by the type of the transaction.
Ends(v) ==
  /\ v.ini.state = "none" <=> v.phase = "new"
  /\ v.ini.state \in Absent => v.ini.held = NoCredits
  /\ "initiatorRsn" \in v.arrived <=> v.ini.state \in {Completing(v.type), "erased"}
  /\ v.ini.state = "erased" => "initiatorRsn" \in v.letGo
  /\ Answer(v.type) \in v.atIni
       => v.ini.state = Completing(v.type) /\ "initiatorRsn" \in v.letGo

PullInitiated(v) ==
  /\ v.ini.state \in {"none", "erased", "kPullReqUlpRx", "kPullReqNtwkTx", "kPullDataNtwkRx"}
  /\ v.ini.state = "kPullReqUlpRx"
       => Unfreed(v.ini, "kPullRequest") /\ v.ini.held = ReserveOutgoing("kPullRequest")
  /\ v.ini.state = "kPullReqNtwkTx" /\ "kPullRequest" \in v.unacked
       => v.ini.held = ReserveOutgoing("kPullRequest")
  /\ v.ini.state = "kPullReqNtwkTx" /\ "kPullRequest" \notin v.unacked
       => v.ini.held = ReleaseIncoming("kPullData")
  /\ v.ini.state = "kPullDataNtwkRx"
       => Unfreed(v.ini, "kPullData") /\ v.ini.held = ReleaseIncoming("kPullData")
  /\ "kPullRequest" \in v.toSend => v.ini.state = "kPullReqUlpRx"
  /\ "kPullRequest" \in v.unacked
       => v.ini.state = "kPullReqNtwkTx" /\ Unfreed(v.ini, "kPullRequest")
  /\ "kPullRequest" \in v.network \cup v.received
       => v.ini.state \notin {"none", "kPullReqUlpRx"}
  /\ "kPullData" \in v.received <=> v.ini.state \in {"kPullDataNtwkRx", "erased"}

UnsolicitedInitiated(v) ==
  /\ v.ini.state \in {"none", "erased", "kPushUnsolicitedReqUlpRx",
                      "kPushUnsolicitedDataNtwkTx", "kPushUnsolicitedDataAckNtwkRx"}
  /\ v.ini.state \notin Absent
       => /\ Unfreed(v.ini, "kPushUnsolicitedData")
          /\ v.ini.held = ReserveOutgoing("kPushUnsolicitedData")
  /\ "kPushUnsolicitedData" \in v.toSend => v.ini.state = "kPushUnsolicitedReqUlpRx"
  /\ "kPushUnsolicitedData" \in v.unacked => v.ini.state = "kPushUnsolicitedDataNtwkTx"
  /\ "kPushUnsolicitedData" \in v.network \cup v.received
       => v.ini.state \notin {"none", "kPushUnsolicitedReqUlpRx"}
  /\ v.ini.state \in {"kPushUnsolicitedDataAckNtwkRx", "erased"}
       => "kPushUnsolicitedData" \in v.ackable

DataSent == {"kPushSolicitedDataNtwkTx", "kPushSolicitedDataAckNtwkRx", "erased"}

SolicitedInitiated(v) ==
  /\ v.ini.state \in {"none", "kPushSolicitedReqUlpRx", "kPushReqNtwkTx", "kPushGrantNtwkRx"}
                     \cup DataSent
  /\ v.ini.state \notin Absent
       => /\ Unfreed(v.ini, "kPushSolicitedData")
          /\ v.ini.held = ReserveOutgoing("kPushRequest")
  /\ v.ini.state = "kPushSolicitedReqUlpRx" => Unfreed(v.ini, "kPushRequest")
  /\ "kPushRequest" \in v.toSend => v.ini.state = "kPushSolicitedReqUlpRx"
  /\ "kPushRequest" \in v.unacked
       => v.ini.state = "kPushReqNtwkTx" /\ Unfreed(v.ini, "kPushRequest")
  /\ "kPushRequest" \in v.network \cup v.received
       => v.ini.state \notin {"none", "kPushSolicitedReqUlpRx"}
  /\ "kPushGrant" \in v.received <=> v.ini.state \in {"kPushGrantNtwkRx"} \cup DataSent
  /\ "kPushGrant" \in v.received <=> "initiatorSsn" \in v.arrived
  /\ v.ini.state \in DataSent => "initiatorSsn" \in v.letGo
  /\ "kPushSolicitedData" \in v.toSend
       => v.ini.state = "kPushGrantNtwkRx" /\ "initiatorSsn" \in v.letGo
  /\ "kPushSolicitedData" \in v.unacked => v.ini.state = "kPushSolicitedDataNtwkTx"
  /\ "kPushSolicitedData" \in v.network \cup v.received => v.ini.state \in DataSent
  /\ v.ini.state \in {"kPushSolicitedDataAckNtwkRx", "erased"}
       => "kPushSolicitedData" \in v.ackable

Initiated(v) ==
  /\ Ends(v)
  /\ v.type = "kPull" => PullInitiated(v)
  /\ v.type = "kPushUnsolicited" => UnsolicitedInitiated(v)
  /\ v.type = "kPushSolicited" => SolicitedInitiated(v)

\* The target.
After(type) ==
  IF type = "kPull"
  THEN {"kPullReqAckUlpRx", "kPullDataUlpRx", "kPullDataNtwkTx", "erased"} ELSE {"erased"}

AtUlp(v) ==
  LET request == UlpRequest(v.type)
  IN /\ v.tar.state \in Absent => v.tar.held = NoCredits
     /\ v.tar.state \in {Ready(v.type), Taken(v.type), Refused(v.type)}
          => /\ Unfreed(v.tar, request) /\ v.tar.context = request
             /\ v.tar.held = ReleaseIncoming(request)
     /\ request \in v.received
          <=> v.tar.state \in {Ready(v.type), Taken(v.type), Refused(v.type)}
                              \cup After(v.type)
     /\ request \in v.received <=> "targetRsn" \in v.arrived
     /\ v.tar.state \in {Taken(v.type), Refused(v.type)} \cup After(v.type)
          => "targetRsn" \in v.letGo
     /\ request \in v.atTar
          => /\ v.tar.state \in {Ready(v.type), Refused(v.type)}
             /\ "targetRsn" \in v.letGo /\ v.timer = "off"
     /\ request \in v.ulp => v.tar.state = Taken(v.type)
     /\ v.timer = "armed" => v.tar.state = Refused(v.type)
     /\ v.type # "kPull" /\ request \in v.ackable => v.tar.state = "erased"

PullServed(v) ==
  /\ v.tar.state \in {"none", Ready("kPull"), Taken("kPull"), Refused("kPull")}
                     \cup After("kPull")
  /\ v.tar.state = "kPullReqAckUlpRx" => v.tar.held = NoCredits
  /\ v.tar.state \in {"kPullDataUlpRx", "kPullDataNtwkTx"}
       => Unfreed(v.tar, "kPullData") /\ v.tar.held = ReserveOutgoing("kPullData")
  /\ "kPullData" \in v.ulp => v.tar.state = "kPullReqAckUlpRx"
  /\ "kPullData" \in v.toSend => v.tar.state = "kPullDataUlpRx"
  /\ "kPullData" \in v.unacked => v.tar.state = "kPullDataNtwkTx"
  /\ "kPullData" \in v.network \cup v.received
       => v.tar.state \in {"kPullDataNtwkTx", "erased"}

UnsolicitedServed(v) ==
  v.tar.state \in {"none", Ready("kPushUnsolicited"), Taken("kPushUnsolicited"),
                   Refused("kPushUnsolicited"), "erased"}

GrantSent ==
  {"kPushGrantNtwkTx", Ready("kPushSolicited"), Taken("kPushSolicited"),
   Refused("kPushSolicited"), "erased"}

SolicitedServed(v) ==
  /\ v.tar.state \in {"none", "kPushReqNtwkRx"} \cup GrantSent
  /\ v.tar.state = "kPushReqNtwkRx"
       => Unfreed(v.tar, "kPushGrant") /\ v.tar.held = ReserveIncoming("kPushRequest")
  /\ v.tar.state = "kPushGrantNtwkTx" /\ "kPushGrant" \in v.unacked
       => v.tar.held = ReserveIncoming("kPushRequest")
  /\ v.tar.state = "kPushGrantNtwkTx" /\ "kPushGrant" \notin v.unacked
       => v.tar.held = ReleaseIncoming("kPushSolicitedData")
  /\ "kPushRequest" \in v.received <=> v.tar.state # "none"
  /\ "kPushRequest" \in v.received <=> "targetSsn" \in v.arrived
  /\ v.tar.state \in GrantSent => "targetSsn" \in v.letGo
  /\ "kPushGrant" \in v.toSend => v.tar.state = "kPushReqNtwkRx" /\ "targetSsn" \in v.letGo
  /\ "kPushGrant" \in v.unacked
       => v.tar.state = "kPushGrantNtwkTx" /\ Unfreed(v.tar, "kPushGrant")
  /\ "kPushGrant" \in v.network \cup v.received => v.tar.state \in GrantSent

Served(v) ==
  /\ AtUlp(v)
  /\ v.type = "kPull" => PullServed(v)
  /\ v.type = "kPushUnsolicited" => UnsolicitedServed(v)
  /\ v.type = "kPushSolicited" => SolicitedServed(v)

Sound(v) == v \in Views /\ OwnPackets(v) /\ Initiated(v) /\ Served(v)

\* No packet waits twice for the RX scheduler.
QueuesOnce(queue) ==
  /\ queue \in [Locations -> Seq(Packets)]
  /\ \A h \in Locations : \A j, k \in 1..Len(queue[h]) :
       queue[h][j] = queue[h][k] => j = k

\* The parts the whole state is made of.
LifeTypes ==
  /\ work \in Seq(Types) /\ mode \in OrderingModes /\ made \in 0..Len(work)
  /\ transactions \in [Locations -> [WorkRsns -> Metadata]]
  /\ toSend \subseteq Packets /\ unacked \subseteq Packets /\ network \subseteq Packets
  /\ received \subseteq Packets /\ ackable \subseteq Packets /\ ulp \subseteq Packets
  /\ waiting \subseteq WorkRsns
  /\ arrived \in [Lanes -> SUBSET WorkRsns]
  /\ QueuesOnce(rxQueue)

LifeIInv == LifeTypes /\ \A r \in WorkRsns : Sound(View(r))
-----------------------------------------------------------------------------
(* A packet leaves. *)

MetaAt(v, host) == IF host = "kInitiator" THEN v.ini ELSE v.tar
At(v, host, t) == [v EXCEPT !.ini = IF host = "kInitiator" THEN t ELSE @,
                            !.tar = IF host = "kInitiator" THEN @ ELSE t]

LEMMA AtHost ==
  ASSUME NEW v \in Views, NEW t \in Metadata, NEW host, NEW w, w = At(v, host, t)
  PROVE  /\ w \in Views
         /\ w.ini = IF host = "kInitiator" THEN t ELSE v.ini
         /\ w.tar = IF host = "kInitiator" THEN v.tar ELSE t
         /\ w.type = v.type /\ w.phase = v.phase /\ w.toSend = v.toSend
         /\ w.unacked = v.unacked /\ w.network = v.network /\ w.received = v.received
         /\ w.ackable = v.ackable /\ w.ulp = v.ulp /\ w.timer = v.timer
         /\ w.arrived = v.arrived /\ w.letGo = v.letGo /\ w.atIni = v.atIni /\ w.atTar = v.atTar
BY DEF Views, At

SendV(v, type) ==
  LET host == GetTransactionLocation(type, FALSE)
      t == MetaAt(v, host)
  IN [At(v, host,
         IF type \notin t.packets THEN Failed(t)
         ELSE UpdateState(CreateOrUpdateReceiverPacketContext(t, type, FALSE),
                                  type, "NtwkTx"))
      EXCEPT !.toSend = @ \ {type}, !.unacked = @ \cup {type}, !.network = @ \cup {type}]

LEMMA PacketSent ==
  ASSUME NEW v, Sound(v), NEW type \in v.toSend
  PROVE  Sound(SendV(v, type))
<1> DEFINE host == GetTransactionLocation(type, FALSE)
           t == MetaAt(v, host)
           u == UpdateState(CreateOrUpdateReceiverPacketContext(t, type, FALSE), type, "NtwkTx")
           a == At(v, host, u)
           w == [a EXCEPT !.toSend = @ \ {type}, !.unacked = @ \cup {type},
                          !.network = @ \cup {type}]
           from == CASE type = "kPullRequest" -> "kPullReqUlpRx"
                     [] type = "kPullData" -> "kPullDataUlpRx"
                     [] type = "kPushRequest" -> "kPushSolicitedReqUlpRx"
                     [] type = "kPushGrant" -> "kPushReqNtwkRx"
                     [] type = "kPushSolicitedData" -> "kPushGrantNtwkRx"
                     [] type = "kPushUnsolicitedData" -> "kPushUnsolicitedReqUlpRx"
           to == CASE type = "kPullRequest" -> "kPullReqNtwkTx"
                   [] type = "kPullData" -> "kPullDataNtwkTx"
                   [] type = "kPushRequest" -> "kPushReqNtwkTx"
                   [] type = "kPushGrant" -> "kPushGrantNtwkTx"
                   [] type = "kPushSolicitedData" -> "kPushSolicitedDataNtwkTx"
                   [] type = "kPushUnsolicitedData" -> "kPushUnsolicitedDataNtwkTx"
<1>1. /\ v \in Views /\ v.type \in Types /\ type \in PacketTypes(v.type)
      /\ type \in AllPacketTypes
  BY DEF Sound, OwnPackets, PacketTypes, Views, Types, AllPacketTypes
<1>2. type \in {"kPullRequest", "kPullData", "kPushRequest", "kPushGrant",
                "kPushSolicitedData", "kPushUnsolicitedData"}
  BY <1>1 DEF PacketTypes, Types
<1>3. t \in Metadata /\ t.state = from /\ Unfreed(t, type)
  <2>1. t \in Metadata
    BY <1>1 DEF MetaAt, Views
  <2>2. CASE type \in {"kPullRequest", "kPullData"}
    <3>1. v.type = "kPull"
      BY <1>1, <2>2 DEF PacketTypes, Types
    <3> QED
      BY <2>1, <2>2, <3>1 DEF Sound, Initiated, Served, PullInitiated, PullServed, MetaAt,
                              GetTransactionLocation
  <2>3. CASE type = "kPushUnsolicitedData"
    <3>1. v.type = "kPushUnsolicited"
      BY <1>1, <2>3 DEF PacketTypes, Types
    <3> QED
      BY <2>1, <2>3, <3>1 DEF Sound, Initiated, UnsolicitedInitiated, MetaAt,
                              GetTransactionLocation, Absent
  <2>4. CASE type \in {"kPushRequest", "kPushGrant", "kPushSolicitedData"}
    <3>1. v.type = "kPushSolicited"
      BY <1>1, <2>4 DEF PacketTypes, Types
    <3> QED
      BY <2>1, <2>4, <3>1 DEF Sound, Initiated, Served, SolicitedInitiated, SolicitedServed,
                              MetaAt, GetTransactionLocation, Absent
  <2> QED
    BY <1>2, <2>2, <2>3, <2>4
<1>4. Row(type, "NtwkTx", {from}, to) \in Steps /\ to \in AnyState
  <2>1. CASE type \in {"kPullRequest", "kPullData"}
    BY <2>1 DEF Steps, PullSteps, AnyState, Live, PullStates
  <2>2. CASE type \in {"kPushRequest", "kPushGrant"}
    BY <2>2 DEF Steps, RequestAndGrantSteps, AnyState, Live, SolicitedStates
  <2>3. CASE type = "kPushSolicitedData"
    BY <2>3 DEF Steps, SolicitedDataSteps, AnyState, Live, SolicitedStates
  <2>4. CASE type = "kPushUnsolicitedData"
    BY <2>4 DEF Steps, UnsolicitedDataSteps, AnyState, Live, UnsolicitedStates
  <2> QED
    BY <1>2, <2>1, <2>2, <2>3, <2>4
<1>5. /\ u \in Metadata /\ u.state = to /\ SamePackets(t, u) /\ SameCredits(t, u)
      /\ t.context # "none" => SameContext(t, u)
  <2> HIDE DEF to, from, t
  <2> QED
    BY <1>3, <1>4, Transmitted
<1>6. SendV(v, type) = w
  BY <1>3 DEF SendV, Unfreed
<1> HIDE DEF u, w
<1>7. /\ w \in Views /\ w.type = v.type /\ w.phase = v.phase
      /\ w.ini = IF host = "kInitiator" THEN u ELSE v.ini
      /\ w.tar = IF host = "kInitiator" THEN v.tar ELSE u
      /\ w.toSend = v.toSend \ {type} /\ w.unacked = v.unacked \cup {type}
      /\ w.network = v.network \cup {type} /\ w.received = v.received
      /\ w.ackable = v.ackable /\ w.ulp = v.ulp /\ w.timer = v.timer
      /\ w.arrived = v.arrived /\ w.letGo = v.letGo /\ w.atIni = v.atIni /\ w.atTar = v.atTar
  <2>1. a \in Views
    BY <1>1, <1>5, AtHost
  <2> HIDE DEF a, host
  <2>2. /\ w \in Views /\ w.type = a.type /\ w.phase = a.phase /\ w.ini = a.ini /\ w.tar = a.tar
        /\ w.toSend = a.toSend \ {type} /\ w.unacked = a.unacked \cup {type}
        /\ w.network = a.network \cup {type} /\ w.received = a.received
        /\ w.ackable = a.ackable /\ w.ulp = a.ulp /\ w.timer = a.timer
        /\ w.arrived = a.arrived /\ w.letGo = a.letGo /\ w.atIni = a.atIni /\ w.atTar = a.atTar
    BY <1>1, <2>1 DEF w, Views
  <2> QED
    BY <1>1, <1>5, <2>2, AtHost DEF a
<1> USE DEF Sound, OwnPackets, PacketTypes, Initiated, Ends, Served, AtUlp, SamePackets,
            SameCredits, SameContext, Completing, Absent, Answer, Ready, Taken, Refused, After,
            UlpRequest, RdmaOpcodeToPacketType, Unfreed, MetaAt, GetTransactionLocation
<1>8. CASE v.type = "kPull"
  <2>1. CASE type = "kPullRequest"
    BY <1>3, <1>5, <1>6, <1>7, <1>8, <2>1 DEF PullInitiated, PullServed
  <2>2. CASE type = "kPullData"
    BY <1>3, <1>5, <1>6, <1>7, <1>8, <2>2 DEF PullInitiated, PullServed
  <2> QED
    BY <1>1, <1>8, <2>1, <2>2
<1>9. CASE v.type = "kPushUnsolicited"
  <2>1. type = "kPushUnsolicitedData"
    BY <1>1, <1>9
  <2> QED
    BY <1>3, <1>5, <1>6, <1>7, <1>9, <2>1 DEF UnsolicitedInitiated, UnsolicitedServed
<1>10. CASE v.type = "kPushSolicited"
  <2>1. CASE type = "kPushRequest"
    BY <1>3, <1>5, <1>6, <1>7, <1>10, <2>1 DEF SolicitedInitiated, SolicitedServed, DataSent,
       GrantSent
  <2>2. CASE type = "kPushGrant"
    BY <1>3, <1>5, <1>6, <1>7, <1>10, <2>2 DEF SolicitedInitiated, SolicitedServed, DataSent,
       GrantSent
  <2>3. CASE type = "kPushSolicitedData"
    BY <1>3, <1>5, <1>6, <1>7, <1>10, <2>3 DEF SolicitedInitiated, SolicitedServed, DataSent,
       GrantSent
  <2> QED
    BY <1>1, <1>10, <2>1, <2>2, <2>3
<1> QED
  BY <1>1, <1>8, <1>9, <1>10 DEF Types

ResendV(v, type) ==
  LET host == GetTransactionLocation(type, FALSE)
  IN [At(v, host, CreateOrUpdateReceiverPacketContext(MetaAt(v, host), type, FALSE))
      EXCEPT !.network = @ \cup {type}]

LEMMA PacketResent ==
  ASSUME NEW v, Sound(v), NEW type \in v.unacked
  PROVE  Sound(ResendV(v, type))
<1> DEFINE host == GetTransactionLocation(type, FALSE)
           t == MetaAt(v, host)
           u == CreateOrUpdateReceiverPacketContext(t, type, FALSE)
           a == At(v, host, u)
           w == [a EXCEPT !.network = @ \cup {type}]
<1>1. /\ v \in Views /\ v.type \in Types /\ type \in PacketTypes(v.type)
      /\ type \in AllPacketTypes
  BY DEF Sound, OwnPackets, PacketTypes, Views, Types, AllPacketTypes
<1>2. t \in Metadata
  BY <1>1 DEF MetaAt, Views
<1>3. /\ u \in Metadata /\ u.state = t.state /\ SamePackets(t, u) /\ SameCredits(t, u)
      /\ t.context # "none" => SameContext(t, u)
  BY <1>2 DEF CreateOrUpdateReceiverPacketContext, Metadata, SamePackets, SameContext,
     SameCredits
<1>4. ResendV(v, type) = w
  BY DEF ResendV
<1> HIDE DEF u, w
<1>5. /\ w \in Views /\ w.type = v.type /\ w.phase = v.phase
      /\ w.ini = IF host = "kInitiator" THEN u ELSE v.ini
      /\ w.tar = IF host = "kInitiator" THEN v.tar ELSE u
      /\ w.toSend = v.toSend /\ w.unacked = v.unacked
      /\ w.network = v.network \cup {type} /\ w.received = v.received
      /\ w.ackable = v.ackable /\ w.ulp = v.ulp /\ w.timer = v.timer
      /\ w.arrived = v.arrived /\ w.letGo = v.letGo /\ w.atIni = v.atIni /\ w.atTar = v.atTar
  <2>1. a \in Views
    BY <1>1, <1>3, AtHost
  <2> HIDE DEF a, host
  <2>2. /\ w \in Views /\ w.type = a.type /\ w.phase = a.phase /\ w.ini = a.ini /\ w.tar = a.tar
        /\ w.toSend = a.toSend /\ w.unacked = a.unacked
        /\ w.network = a.network \cup {type} /\ w.received = a.received
        /\ w.ackable = a.ackable /\ w.ulp = a.ulp /\ w.timer = a.timer
        /\ w.arrived = a.arrived /\ w.letGo = a.letGo /\ w.atIni = a.atIni /\ w.atTar = a.atTar
    BY <1>1, <2>1 DEF w, Views
  <2> QED
    BY <1>1, <1>3, <2>2, AtHost DEF a
<1>6. /\ w.ini.state = v.ini.state /\ SamePackets(v.ini, w.ini) /\ SameCredits(v.ini, w.ini)
      /\ w.tar.state = v.tar.state /\ SamePackets(v.tar, w.tar) /\ SameCredits(v.tar, w.tar)
      /\ v.tar.context # "none" => SameContext(v.tar, w.tar)
  BY <1>3, <1>5 DEF MetaAt, SamePackets, SameCredits, SameContext
<1>7. OwnPackets(w)
  BY <1>1, <1>5 DEF Sound, OwnPackets
<1>8. Initiated(w)
  <2> USE DEF Sound, Initiated, Ends, SamePackets, SameCredits, Unfreed
  <2>1. Ends(w)
    BY <1>5, <1>6
  <2>2. CASE v.type = "kPull"
    BY <1>1, <1>5, <1>6, <2>1, <2>2 DEF PullInitiated, PacketTypes
  <2>3. CASE v.type = "kPushUnsolicited"
    BY <1>1, <1>5, <1>6, <2>1, <2>3 DEF UnsolicitedInitiated, PacketTypes
  <2>4. CASE v.type = "kPushSolicited"
    BY <1>1, <1>5, <1>6, <2>1, <2>4 DEF SolicitedInitiated, PacketTypes, DataSent
  <2> QED
    BY <1>1, <2>2, <2>3, <2>4 DEF Types
<1>9. Served(w)
  <2> USE DEF Sound, Served, AtUlp, SamePackets, SameCredits, SameContext, Unfreed
  <2>1. AtUlp(w)
    <3>1. UlpRequest(v.type) # "none"
      BY <1>1 DEF UlpRequest, RdmaOpcodeToPacketType, Types
    <3> QED
      BY <1>5, <1>6, <3>1
  <2>2. CASE v.type = "kPull"
    BY <1>1, <1>5, <1>6, <2>1, <2>2 DEF PullServed, PacketTypes
  <2>3. CASE v.type = "kPushUnsolicited"
    BY <1>1, <1>5, <1>6, <2>1, <2>3 DEF UnsolicitedServed, PacketTypes
  <2>4. CASE v.type = "kPushSolicited"
    BY <1>1, <1>5, <1>6, <2>1, <2>4 DEF SolicitedServed, PacketTypes, GrantSent
  <2> QED
    BY <1>1, <2>2, <2>3, <2>4 DEF Types
<1> QED
  BY <1>4, <1>5, <1>7, <1>8, <1>9 DEF Sound

\* A packet that is lost, or a duplicate that is dropped.
LEMMA PacketDropped ==
  ASSUME NEW v, Sound(v), NEW type
  PROVE  Sound([v EXCEPT !.network = @ \ {type}])
<1> DEFINE w == [v EXCEPT !.network = @ \ {type}]
<1>1. v \in Views /\ v.type \in Types
  BY DEF Sound, Views
<1> HIDE DEF w
<1>2. /\ w \in Views /\ w.type = v.type /\ w.phase = v.phase /\ w.ini = v.ini /\ w.tar = v.tar
      /\ w.toSend = v.toSend /\ w.unacked = v.unacked
      /\ w.network = v.network \ {type} /\ w.received = v.received
      /\ w.ackable = v.ackable /\ w.ulp = v.ulp /\ w.timer = v.timer
      /\ w.arrived = v.arrived /\ w.letGo = v.letGo /\ w.atIni = v.atIni /\ w.atTar = v.atTar
  BY <1>1 DEF w, Views
<1>3. OwnPackets(w)
  BY <1>2 DEF Sound, OwnPackets
<1>4. Ends(w) /\ AtUlp(w)
  BY <1>2 DEF Sound, Initiated, Served, Ends, AtUlp
<1>5. PullInitiated(v) => PullInitiated(w)
  BY <1>2 DEF PullInitiated
<1>6. UnsolicitedInitiated(v) => UnsolicitedInitiated(w)
  BY <1>2 DEF UnsolicitedInitiated
<1>7. SolicitedInitiated(v) => SolicitedInitiated(w)
  BY <1>2 DEF SolicitedInitiated
<1>8. (PullServed(v) => PullServed(w)) /\ (UnsolicitedServed(v) => UnsolicitedServed(w))
  BY <1>2 DEF PullServed, UnsolicitedServed
<1>9. SolicitedServed(v) => SolicitedServed(w)
  BY <1>2 DEF SolicitedServed
<1> QED
  BY <1>2, <1>3, <1>4, <1>5, <1>6, <1>7, <1>8, <1>9 DEF Sound, Initiated, Served, w
-----------------------------------------------------------------------------
(* An ACK, and a packet that is accepted. *)

\* The packet leaves the outstanding ones; push data is ready to complete.
AckV(v, type) ==
  LET host == GetTransactionLocation(type, FALSE)
  IN [At(v, host, AckedFromNetwork(MetaAt(v, host), type))
      EXCEPT !.unacked = @ \ {type},
             !.arrived = IF type \in PushData THEN @ \cup {"initiatorRsn"} ELSE @]

\* w is v when the packet is no longer outstanding.
AckedTo(v, w, ini, tar, type, lanes) ==
  /\ w \in Views /\ w.type = v.type /\ w.phase = v.phase /\ w.ini = ini /\ w.tar = tar
  /\ w.toSend = v.toSend /\ w.unacked = v.unacked \ {type} /\ w.network = v.network
  /\ w.received = v.received /\ w.ackable = v.ackable /\ w.ulp = v.ulp /\ w.timer = v.timer
  /\ w.arrived = v.arrived \cup lanes /\ w.letGo = v.letGo
  /\ w.atIni = v.atIni /\ w.atTar = v.atTar

LEMMA PacketAcked ==
  ASSUME NEW v, Sound(v), NEW type \in v.unacked, type \in PushData => type \in v.ackable
  PROVE  Sound(AckV(v, type))
<1> DEFINE host == GetTransactionLocation(type, FALSE)
           t == MetaAt(v, host)
           u == AckedFromNetwork(t, type)
           a == At(v, host, u)
           w == [a EXCEPT !.unacked = @ \ {type},
                          !.arrived = IF type \in PushData THEN @ \cup {"initiatorRsn"} ELSE @]
<1>1. /\ v \in Views /\ v.type \in Types /\ type \in PacketTypes(v.type)
      /\ type \in AllPacketTypes
  BY DEF Sound, OwnPackets, PacketTypes, Views, Types, AllPacketTypes
<1>2. t \in Metadata
  BY <1>1 DEF MetaAt, Views
<1>3. AckV(v, type) = w
  BY DEF AckV
<1> HIDE DEF w
<1>4. ASSUME u \in Metadata
      PROVE  AckedTo(v, w, IF host = "kInitiator" THEN u ELSE v.ini,
                     IF host = "kInitiator" THEN v.tar ELSE u, type,
                     IF type \in PushData THEN {"initiatorRsn"} ELSE {})
  <2> HIDE DEF u
  <2>1. a \in Views
    BY <1>1, <1>4, AtHost
  <2> HIDE DEF a, host
  <2>2. /\ w \in Views /\ w.type = a.type /\ w.phase = a.phase /\ w.ini = a.ini /\ w.tar = a.tar
        /\ w.toSend = a.toSend /\ w.unacked = a.unacked \ {type}
        /\ w.network = a.network /\ w.received = a.received
        /\ w.ackable = a.ackable /\ w.ulp = a.ulp /\ w.timer = a.timer
        /\ w.arrived = IF type \in PushData THEN a.arrived \cup {"initiatorRsn"} ELSE a.arrived
        /\ w.letGo = a.letGo /\ w.atIni = a.atIni /\ w.atTar = a.atTar
    BY <1>1, <2>1 DEF w, Views, Lanes
  <2>3. /\ a.ini = IF host = "kInitiator" THEN u ELSE v.ini
        /\ a.tar = IF host = "kInitiator" THEN v.tar ELSE u
        /\ a.type = v.type /\ a.phase = v.phase /\ a.toSend = v.toSend
        /\ a.unacked = v.unacked /\ a.network = v.network /\ a.received = v.received
        /\ a.ackable = v.ackable /\ a.ulp = v.ulp /\ a.timer = v.timer
        /\ a.arrived = v.arrived /\ a.letGo = v.letGo /\ a.atIni = v.atIni /\ a.atTar = v.atTar
    BY <1>1, <1>4, AtHost DEF a
  <2> QED
    BY <2>2, <2>3 DEF AckedTo
<1> HIDE DEF a, u, t, host
<1>5. CASE v.type = "kPull"
<2>1. CASE type = "kPullRequest"
    <3>1. /\ host = "kInitiator" /\ t = v.ini /\ t.state = "kPullReqNtwkTx"
          /\ Unfreed(t, type) /\ t.held = ReserveOutgoing(type) /\ type \notin PushData
      BY <1>1, <1>5, <2>1 DEF Sound, OwnPackets, Initiated, Served, Ends, AtUlp,
         PullInitiated, PullServed, MetaAt, t, host, GetTransactionLocation, PushData
    <3>2. /\ u \in Metadata /\ u.state = t.state
          /\ u.held = ReleaseIncoming("kPullData")
      BY <1>2, <2>1, <3>1, RequestAcked, ReservesAreReleased DEF u, Live, PullStates
    <3>3. AckedTo(v, w, u, v.tar, type, {})
      BY <1>4, <3>1, <3>2
    <3>4. OwnPackets(w)
      BY <1>1, <1>5, <2>1, <3>1, <3>2, <3>3
         DEF AckedTo, Sound, OwnPackets, Lanes, PacketTypes, PushData
    <3>5. Ends(w)
      BY <1>1, <1>5, <2>1, <3>1, <3>2, <3>3
         DEF AckedTo, Sound, Initiated, Ends, Absent, Completing, Answer
    <3>6. PullInitiated(w)
      BY <1>1, <1>5, <2>1, <3>1, <3>2, <3>3
         DEF AckedTo, Sound, Initiated, PullInitiated, Unfreed, SamePackets, SameCredits,
             Absent, Completing
    <3>7. AtUlp(w)
      BY <1>1, <1>5, <2>1, <3>1, <3>2, <3>3
         DEF AckedTo, Sound, Served, AtUlp, Absent, UlpRequest, RdmaOpcodeToPacketType, Taken,
             Ready, Refused, After
    <3>8. PullServed(w)
      BY <1>1, <1>5, <2>1, <3>1, <3>2, <3>3
         DEF AckedTo, Sound, Served, PullServed, Taken, Ready, Refused, After
    <3> QED
      BY <1>3, <1>5, <3>4, <3>5, <3>6, <3>7, <3>8, <3>3
         DEF AckedTo, Sound, Initiated, Served
  <2>2. CASE type = "kPullData"
    <3>1. /\ host = "kTarget" /\ t = v.tar /\ t.state = "kPullDataNtwkTx"
          /\ Unfreed(t, type) /\ t.held = ReserveOutgoing(type) /\ type \notin PushData
      BY <1>1, <1>5, <2>2 DEF Sound, OwnPackets, Initiated, Served, Ends, AtUlp,
         PullInitiated, PullServed, MetaAt, t, host, GetTransactionLocation, PushData
    <3>2. CreditsMinus(t.held, ReleaseOutgoing("kPullData")) = NoCredits
      BY <2>2, <3>1, ReservesAreReleased, ReservesAreAmounts, CreditSums
    <3>3. /\ u \in Metadata /\ u.state = "erased" /\ u.held = NoCredits
      BY <1>2, <2>2, <3>1, <3>2, PullDataAcked DEF u
    <3>4. AckedTo(v, w, v.ini, u, type, {})
      BY <1>4, <3>1, <3>3
    <3>5. OwnPackets(w)
      BY <1>1, <1>5, <2>2, <3>1, <3>3, <3>4
         DEF AckedTo, Sound, OwnPackets, Lanes, PacketTypes, PushData
    <3>6. Ends(w)
      BY <1>1, <1>5, <2>2, <3>1, <3>3, <3>4
         DEF AckedTo, Sound, Initiated, Ends, Absent, Completing, Answer
    <3>7. PullInitiated(w)
      BY <1>1, <1>5, <2>2, <3>1, <3>3, <3>4
         DEF AckedTo, Sound, Initiated, PullInitiated, Unfreed, SamePackets, SameCredits,
             Absent, Completing
    <3>8. AtUlp(w)
      BY <1>1, <1>5, <2>2, <3>1, <3>3, <3>4
         DEF AckedTo, Sound, Served, AtUlp, Absent, UlpRequest, RdmaOpcodeToPacketType, Taken,
             Ready, Refused, After
    <3>9. PullServed(w)
      BY <1>1, <1>5, <2>2, <3>1, <3>3, <3>4
         DEF AckedTo, Sound, Served, PullServed, Taken, Ready, Refused, After
    <3> QED
      BY <1>3, <1>5, <3>5, <3>6, <3>7, <3>8, <3>9, <3>4
         DEF AckedTo, Sound, Initiated, Served
  <2> QED
    BY <1>1, <1>5, <2>1, <2>2 DEF PacketTypes
<1>6. CASE v.type = "kPushUnsolicited"
<2>1. /\ type = "kPushUnsolicitedData" /\ host = "kInitiator" /\ t = v.ini
        /\ t.state = "kPushUnsolicitedDataNtwkTx" /\ type \in PushData
              /\ type = UlpRequest(v.type)
    BY <1>1, <1>6 DEF Sound, OwnPackets, Initiated, Served, Ends, AtUlp, UnsolicitedInitiated,
       UnsolicitedServed, MetaAt, t, host, GetTransactionLocation, PushData, PacketTypes,
       UlpRequest,
                      RdmaOpcodeToPacketType
  <2>2. /\ u \in Metadata /\ u.state = Completing(v.type) /\ SamePackets(t, u)
        /\ SameCredits(t, u)
    BY <1>2, <1>6, <2>1, PushDataAcked DEF u
  <2>3. AckedTo(v, w, u, v.tar, type, {"initiatorRsn"})
    BY <1>4, <2>1, <2>2
  <2>4. OwnPackets(w)
    BY <1>1, <1>6, <2>1, <2>2, <2>3
       DEF AckedTo, Sound, OwnPackets, Lanes, PacketTypes, PushData
  <2>5. Ends(w)
    BY <1>1, <1>6, <2>1, <2>2, <2>3
       DEF AckedTo, Sound, Initiated, Ends, Absent, Completing, Answer
  <2>6. UnsolicitedInitiated(w)
    BY <1>1, <1>6, <2>1, <2>2, <2>3
       DEF AckedTo, Sound, Initiated, UnsolicitedInitiated, Unfreed, SamePackets, SameCredits,
           Absent, Completing
  <2>7. AtUlp(w)
    BY <1>1, <1>6, <2>1, <2>2, <2>3
       DEF AckedTo, Sound, Served, AtUlp, Absent, UlpRequest, RdmaOpcodeToPacketType, Ready,
           Taken, Refused, After
  <2>8. UnsolicitedServed(w)
    BY <1>1, <1>6, <2>1, <2>2, <2>3
       DEF AckedTo, Sound, Served, UnsolicitedServed, Ready, Taken, Refused, After
  <2> QED
    BY <1>3, <1>6, <2>4, <2>5, <2>6, <2>7, <2>8, <2>3
       DEF AckedTo, Sound, Initiated, Served
<1>7. CASE v.type = "kPushSolicited"
<2>1. CASE type = "kPushRequest"
    <3>1. /\ host = "kInitiator" /\ t = v.ini /\ t.state = "kPushReqNtwkTx"
          /\ Unfreed(t, type) /\ type \notin PushData
      BY <1>1, <1>7, <2>1 DEF Sound, OwnPackets, Initiated, Served, Ends, AtUlp,
         SolicitedInitiated, SolicitedServed, MetaAt, t, host, GetTransactionLocation, PushData
    <3>2. /\ u \in Metadata /\ u.state = t.state /\ u.packets = t.packets
          /\ u.freed = t.freed \cup {type} /\ u.held = CreditsMinus(t.held, NoCredits)
      BY <1>2, <2>1, <3>1, RequestAcked, ReservesAreReleased DEF u, Live, SolicitedStates
    <3>3. /\ u.held = t.held
          /\ Unfreed(t, "kPushSolicitedData") => Unfreed(u, "kPushSolicitedData")
      BY <1>2, <2>1, <3>2, CreditSums DEF Metadata, Unfreed
    <3>4. AckedTo(v, w, u, v.tar, type, {})
      BY <1>4, <3>1, <3>2
    <3>5. OwnPackets(w)
      BY <1>1, <1>7, <2>1, <3>1, <3>2, <3>3, <3>4
         DEF AckedTo, Sound, OwnPackets, Lanes, PacketTypes, PushData
    <3>6. Ends(w)
      BY <1>1, <1>7, <2>1, <3>1, <3>2, <3>3, <3>4
         DEF AckedTo, Sound, Initiated, Ends, Absent, Completing, Answer
    <3>7. SolicitedInitiated(w)
      BY <1>1, <1>7, <2>1, <3>1, <3>2, <3>3, <3>4
         DEF AckedTo, Sound, Initiated, SolicitedInitiated, Absent, Completing, DataSent
    <3>8. AtUlp(w)
      BY <1>1, <1>7, <2>1, <3>1, <3>2, <3>3, <3>4
         DEF AckedTo, Sound, Served, AtUlp, Absent, UlpRequest, RdmaOpcodeToPacketType, Ready,
             Taken, Refused, After
    <3>9. SolicitedServed(w)
      BY <1>1, <1>7, <2>1, <3>1, <3>2, <3>3, <3>4
         DEF AckedTo, Sound, Served, SolicitedServed, GrantSent, Ready, Taken, Refused, After
    <3> QED
      BY <1>3, <1>7, <3>5, <3>6, <3>7, <3>8, <3>9, <3>4
         DEF AckedTo, Sound, Initiated, Served
  <2>2. CASE type = "kPushGrant"
    <3>1. /\ host = "kTarget" /\ t = v.tar /\ t.state = "kPushGrantNtwkTx"
          /\ Unfreed(t, type) /\ t.held = ReserveIncoming("kPushRequest")
                /\ type \notin PushData
      BY <1>1, <1>7, <2>2 DEF Sound, OwnPackets, Initiated, Served, Ends, AtUlp,
         SolicitedInitiated, SolicitedServed, MetaAt, t, host, GetTransactionLocation, PushData
    <3>2. /\ u \in Metadata /\ u.state = t.state
          /\ u.held = ReleaseIncoming("kPushSolicitedData")
      BY <1>2, <2>2, <3>1, RequestAcked, ReservesAreReleased DEF u, Live, SolicitedStates
    <3>3. AckedTo(v, w, v.ini, u, type, {})
      BY <1>4, <3>1, <3>2
    <3>4. OwnPackets(w)
      BY <1>1, <1>7, <2>2, <3>1, <3>2, <3>3
         DEF AckedTo, Sound, OwnPackets, Lanes, PacketTypes, PushData
    <3>5. Ends(w)
      BY <1>1, <1>7, <2>2, <3>1, <3>2, <3>3
         DEF AckedTo, Sound, Initiated, Ends, Absent, Completing, Answer
    <3>6. SolicitedInitiated(w)
      BY <1>1, <1>7, <2>2, <3>1, <3>2, <3>3
         DEF AckedTo, Sound, Initiated, SolicitedInitiated, Unfreed, SamePackets, SameCredits,
             Absent, Completing, DataSent
    <3>7. AtUlp(w)
      BY <1>1, <1>7, <2>2, <3>1, <3>2, <3>3
         DEF AckedTo, Sound, Served, AtUlp, Absent, UlpRequest, RdmaOpcodeToPacketType, Ready,
             Taken, Refused, After
    <3>8. SolicitedServed(w)
      BY <1>1, <1>7, <2>2, <3>1, <3>2, <3>3
         DEF AckedTo, Sound, Served, SolicitedServed, GrantSent, Ready, Taken, Refused, After
    <3> QED
      BY <1>3, <1>7, <3>4, <3>5, <3>6, <3>7, <3>8, <3>3
         DEF AckedTo, Sound, Initiated, Served
  <2>3. CASE type = "kPushSolicitedData"
    <3>1. /\ host = "kInitiator" /\ t = v.ini /\ t.state = "kPushSolicitedDataNtwkTx"
          /\ type \in PushData /\ type = UlpRequest(v.type)
      BY <1>1, <1>7, <2>3 DEF Sound, OwnPackets, Initiated, Served, Ends, AtUlp,
         SolicitedInitiated, SolicitedServed, MetaAt, t, host, GetTransactionLocation,
         PushData, UlpRequest
    <3>2. /\ u \in Metadata /\ u.state = Completing(v.type) /\ SamePackets(t, u)
          /\ SameCredits(t, u)
      BY <1>2, <1>7, <3>1, PushDataAcked DEF u
    <3>3. AckedTo(v, w, u, v.tar, type, {"initiatorRsn"})
      BY <1>4, <3>1, <3>2
    <3>4. OwnPackets(w)
      BY <1>1, <1>7, <2>3, <3>1, <3>2, <3>3
         DEF AckedTo, Sound, OwnPackets, Lanes, PacketTypes, PushData
    <3>5. Ends(w)
      BY <1>1, <1>7, <2>3, <3>1, <3>2, <3>3
         DEF AckedTo, Sound, Initiated, Ends, Absent, Completing, Answer
    <3>6. SolicitedInitiated(w)
      BY <1>1, <1>7, <2>3, <3>1, <3>2, <3>3
         DEF AckedTo, Sound, Initiated, SolicitedInitiated, Unfreed, SamePackets, SameCredits,
             Absent, Completing, DataSent
    <3>7. AtUlp(w)
      BY <1>1, <1>7, <2>3, <3>1, <3>2, <3>3
         DEF AckedTo, Sound, Served, AtUlp, Absent, UlpRequest, RdmaOpcodeToPacketType, Ready,
             Taken, Refused, After
    <3>8. SolicitedServed(w)
      BY <1>1, <1>7, <2>3, <3>1, <3>2, <3>3
         DEF AckedTo, Sound, Served, SolicitedServed, GrantSent, Ready, Taken, Refused, After
    <3> QED
      BY <1>3, <1>7, <3>4, <3>5, <3>6, <3>7, <3>8, <3>3
         DEF AckedTo, Sound, Initiated, Served
  <2> QED
    BY <1>1, <1>7, <2>1, <2>2, <2>3 DEF PacketTypes
<1> QED
  BY <1>1, <1>5, <1>6, <1>7 DEF Types

\* What a response acknowledges.
ImpliedTypes(type) ==
  CASE type = "kPullData" -> {"kPullRequest"}
    [] type = "kPushGrant" -> {"kPushRequest"}
    [] type = "kPushSolicitedData" -> {"kPushGrant"}
    [] OTHER -> {}

\* The packet is new to its receiver, and what it acknowledges is acknowledged.
AcceptV(v, type) ==
  LET host == GetTransactionLocation(type, TRUE)
  IN [At(v, host,
         Reserve(CreateOrUpdateTransactionFromNetwork(
                   CreateOrUpdateReceiverPacketContext(MetaAt(v, host), type, TRUE), type),
                 ReserveIncoming(type)))
      EXCEPT !.network = @ \ {type}, !.received = @ \cup {type},
             !.ackable = IF type \in PushData THEN @ ELSE @ \cup {type},
             !.arrived = @ \cup {Lane(type)}]

\* w is v when the packet has been accepted.
AcceptedTo(v, w, ini, tar, type, acks, lane) ==
  /\ w \in Views /\ w.type = v.type /\ w.phase = v.phase /\ w.ini = ini /\ w.tar = tar
  /\ w.toSend = v.toSend /\ w.unacked = v.unacked /\ w.network = v.network \ {type}
  /\ w.received = v.received \cup {type} /\ w.ackable = v.ackable \cup acks /\ w.ulp = v.ulp
  /\ w.timer = v.timer /\ w.arrived = v.arrived \cup {lane} /\ w.letGo = v.letGo
  /\ w.atIni = v.atIni /\ w.atTar = v.atTar

LEMMA PacketAccepted ==
  ASSUME NEW v, Sound(v), NEW type \in v.network, type \notin v.received,
         ImpliedTypes(type) \cap v.unacked = {}
  PROVE  Sound(AcceptV(v, type))
<1> DEFINE host == GetTransactionLocation(type, TRUE)
           t == MetaAt(v, host)
           u == Reserve(CreateOrUpdateTransactionFromNetwork(
                          CreateOrUpdateReceiverPacketContext(t, type, TRUE), type),
                        ReserveIncoming(type))
           a == At(v, host, u)
           w == [a EXCEPT !.network = @ \ {type}, !.received = @ \cup {type},
                          !.ackable = IF type \in PushData THEN @ ELSE @ \cup {type},
                          !.arrived = @ \cup {Lane(type)}]
           acks == IF type \in PushData THEN {} ELSE {type}
<1>1. /\ v \in Views /\ v.type \in Types /\ type \in PacketTypes(v.type)
      /\ type \in AllPacketTypes /\ Lane(type) \in Lanes
  BY DEF Sound, OwnPackets, PacketTypes, Views, Types, AllPacketTypes, Lanes, Lane
<1>2. t \in Metadata
  BY <1>1 DEF MetaAt, Views
<1>3. AcceptV(v, type) = w
  BY DEF AcceptV
<1> HIDE DEF w
<1>4. ASSUME u \in Metadata
      PROVE  AcceptedTo(v, w, IF host = "kInitiator" THEN u ELSE v.ini,
                        IF host = "kInitiator" THEN v.tar ELSE u, type, acks, Lane(type))
  <2> HIDE DEF u
  <2>1. a \in Views
    BY <1>1, <1>4, AtHost
  <2> HIDE DEF host
  <2>2. /\ a \in Views /\ a.type = v.type /\ a.phase = v.phase
        /\ a.ini = (IF host = "kInitiator" THEN u ELSE v.ini)
        /\ a.tar = (IF host = "kInitiator" THEN v.tar ELSE u) /\ a.toSend = v.toSend
        /\ a.unacked = v.unacked /\ a.network = v.network /\ a.received = v.received
        /\ a.ackable = v.ackable /\ a.ulp = v.ulp /\ a.timer = v.timer
        /\ a.arrived = v.arrived /\ a.letGo = v.letGo /\ a.atIni = v.atIni
        /\ a.atTar = v.atTar
    BY <1>1, <1>4, AtHost DEF a
  <2> HIDE DEF a
  <2>3. /\ w \in Views /\ w.type = a.type /\ w.phase = a.phase /\ w.ini = a.ini
        /\ w.tar = a.tar /\ w.toSend = a.toSend /\ w.unacked = a.unacked
        /\ w.network = a.network \ {type} /\ w.received = a.received \cup {type}
        /\ w.ackable = a.ackable \cup acks /\ w.ulp = a.ulp /\ w.timer = a.timer
        /\ w.arrived = a.arrived \cup {Lane(type)} /\ w.letGo = a.letGo /\ w.atIni = a.atIni
        /\ w.atTar = a.atTar
    BY <1>1, <2>1 DEF w, Views
  <2> QED
    BY <2>2, <2>3 DEF AcceptedTo
<1> HIDE DEF a, u, acks, t, host
<1>5. CASE v.type = "kPull"
  <2>1. CASE type = "kPullRequest"
    <3>1. /\ host = "kTarget" /\ t = v.tar /\ t.state = "none" /\ t.held = NoCredits
          /\ acks = {type} /\ Lane(type) = "targetRsn"
      BY <1>1, <1>5, <2>1
         DEF Sound, OwnPackets, Initiated, Served, Ends, AtUlp, PullInitiated, PullServed,
             MetaAt, GetTransactionLocation, acks, t, host, Lane, PushData, Ready, Taken,
             Refused, After, UlpRequest, RdmaOpcodeToPacketType, PacketTypes, Absent,
             ImpliedTypes
    <3>2. /\ u \in Metadata /\ Unfreed(u, type) /\ u.context = type
          /\ u.state = "kPullReqNtwkRx" /\ u.held = ReleaseIncoming(type)
      <4>1. type \in {"kPullRequest", "kPushUnsolicitedData"}
        BY <2>1
      <4>2. /\ u \in Metadata /\ Unfreed(u, type) /\ u.context = type
            /\ u.held = CreditsPlus(t.held, ReserveIncoming(type))
            /\ u.state = "kPullReqNtwkRx"
        BY <1>2, <2>1, <3>1, <4>1, FirstAccepted DEF u
      <4>3. CreditsPlus(NoCredits, ReserveIncoming(type)) = ReleaseIncoming(type)
        BY <2>1, ReservesAreReleased, ReservesAreAmounts, CreditSums
      <4> QED
        BY <2>1, <3>1, <4>2, <4>3
    <3>3. AcceptedTo(v, w, v.ini, u, type, {type}, "targetRsn")
      BY <1>4, <3>1, <3>2
    <3>4. OwnPackets(w)
      BY <1>1, <1>5, <2>1, <3>1, <3>2, <3>3
         DEF AcceptedTo, Sound, OwnPackets, Lanes, PacketTypes, PushData, UlpRequest,
             RdmaOpcodeToPacketType
    <3>5. Ends(w)
      BY <1>1, <1>5, <2>1, <3>1, <3>2, <3>3
         DEF AcceptedTo, Sound, Initiated, Ends, Absent, Completing, Answer
    <3>6. PullInitiated(w)
      BY <1>1, <1>5, <2>1, <3>1, <3>2, <3>3
         DEF AcceptedTo, Sound, Initiated, PullInitiated, Absent, Completing, ImpliedTypes,
             SameCredits, Unfreed
    <3>7. AtUlp(w)
      BY <1>1, <1>5, <2>1, <3>1, <3>2, <3>3
         DEF AcceptedTo, Sound, Served, AtUlp, Absent, UlpRequest, RdmaOpcodeToPacketType,
             ImpliedTypes, SameCredits, Unfreed, Ready, Taken, Refused, After
    <3>8. PullServed(w)
      BY <1>1, <1>5, <2>1, <3>1, <3>2, <3>3
         DEF AcceptedTo, Sound, Served, PullServed, ImpliedTypes, SameCredits, Unfreed,
             Ready, Taken, Refused, After
    <3> QED
      BY <1>3, <1>1, <1>5, <2>1, <3>1, <3>2, <3>3, <3>4, <3>5, <3>6, <3>7, <3>8
         DEF AcceptedTo, Sound, Initiated, Served
  <2>2. CASE type = "kPullData"
    <3>1. /\ host = "kInitiator" /\ t = v.ini /\ t.state = "kPullReqNtwkTx"
          /\ t.held = ReleaseIncoming("kPullData")
          /\ acks = {type} /\ Lane(type) = "initiatorRsn"
      BY <1>1, <1>5, <2>2
         DEF Sound, OwnPackets, Initiated, Served, Ends, AtUlp, PullInitiated, PullServed,
             MetaAt, GetTransactionLocation, acks, t, host, Lane, PushData, Ready, Taken,
             Refused, After, UlpRequest, RdmaOpcodeToPacketType, PacketTypes, Absent,
             ImpliedTypes
    <3>2. /\ u \in Metadata /\ u.state = "kPullDataNtwkRx" /\ Unfreed(u, "kPullData")
          /\ u.held = ReleaseIncoming("kPullData")
      <4>1. /\ u \in Metadata /\ u.state = "kPullDataNtwkRx" /\ u.context = "kPullData"
            /\ SameCredits(t, u) /\ u.packets = t.packets \cup {"kPullData"}
            /\ u.freed = t.freed \ {"kPullData"}
        BY <1>2, <2>2, <3>1, PullDataAccepted DEF u
      <4> QED
        BY <2>2, <3>1, <4>1 DEF Unfreed, SameCredits
    <3>3. AcceptedTo(v, w, u, v.tar, type, {type}, "initiatorRsn")
      BY <1>4, <3>1, <3>2
    <3>4. OwnPackets(w)
      BY <1>1, <1>5, <2>2, <3>1, <3>2, <3>3
         DEF AcceptedTo, Sound, OwnPackets, Lanes, PacketTypes, PushData, UlpRequest,
             RdmaOpcodeToPacketType
    <3>5. Ends(w)
      BY <1>1, <1>5, <2>2, <3>1, <3>2, <3>3
         DEF AcceptedTo, Sound, Initiated, Ends, Absent, Completing, Answer
    <3>6. PullInitiated(w)
      BY <1>1, <1>5, <2>2, <3>1, <3>2, <3>3
         DEF AcceptedTo, Sound, Initiated, PullInitiated, Absent, Completing, ImpliedTypes,
             SameCredits, Unfreed
    <3>7. AtUlp(w)
      BY <1>1, <1>5, <2>2, <3>1, <3>2, <3>3
         DEF AcceptedTo, Sound, Served, AtUlp, Absent, UlpRequest, RdmaOpcodeToPacketType,
             ImpliedTypes, SameCredits, Unfreed, Ready, Taken, Refused, After
    <3>8. PullServed(w)
      BY <1>1, <1>5, <2>2, <3>1, <3>2, <3>3
         DEF AcceptedTo, Sound, Served, PullServed, ImpliedTypes, SameCredits, Unfreed,
             Ready, Taken, Refused, After
    <3> QED
      BY <1>3, <1>1, <1>5, <2>2, <3>1, <3>2, <3>3, <3>4, <3>5, <3>6, <3>7, <3>8
         DEF AcceptedTo, Sound, Initiated, Served
  <2> QED
    BY <1>1, <1>5, <2>1, <2>2 DEF PacketTypes
<1>6. CASE v.type = "kPushUnsolicited"
  <2>0. type = "kPushUnsolicitedData"
    BY <1>1, <1>6 DEF PacketTypes
  <2>1. /\ host = "kTarget" /\ t = v.tar /\ t.state = "none" /\ t.held = NoCredits
        /\ acks = {} /\ Lane(type) = "targetRsn"
    BY <1>1, <1>6, <2>0
       DEF Sound, OwnPackets, Initiated, Served, Ends, AtUlp, UnsolicitedInitiated,
           UnsolicitedServed, MetaAt, GetTransactionLocation, acks, t, host, Lane, PushData,
           Ready, Taken, Refused, After, UlpRequest, RdmaOpcodeToPacketType, PacketTypes,
           Absent, ImpliedTypes
  <2>2. /\ u \in Metadata /\ Unfreed(u, type) /\ u.context = type
        /\ u.state = "kPushUnsolicitedDataNtwkRx" /\ u.held = ReleaseIncoming(type)
    <3>1. type \in {"kPullRequest", "kPushUnsolicitedData"}
      BY <2>0
    <3>2. /\ u \in Metadata /\ Unfreed(u, type) /\ u.context = type
          /\ u.held = CreditsPlus(t.held, ReserveIncoming(type))
          /\ u.state = "kPushUnsolicitedDataNtwkRx"
      BY <1>2, <2>0, <2>1, <3>1, FirstAccepted DEF u
    <3>3. CreditsPlus(NoCredits, ReserveIncoming(type)) = ReleaseIncoming(type)
      BY <2>0, ReservesAreReleased, ReservesAreAmounts, CreditSums
    <3> QED
      BY <2>0, <2>1, <3>2, <3>3
  <2>3. AcceptedTo(v, w, v.ini, u, type, {}, "targetRsn")
    BY <1>4, <2>1, <2>2
  <2>4. OwnPackets(w)
    BY <1>1, <1>6, <2>0, <2>1, <2>2, <2>3
       DEF AcceptedTo, Sound, OwnPackets, Lanes, PacketTypes, PushData, UlpRequest,
           RdmaOpcodeToPacketType
  <2>5. Ends(w)
    BY <1>1, <1>6, <2>0, <2>1, <2>2, <2>3
       DEF AcceptedTo, Sound, Initiated, Ends, Absent, Completing, Answer
  <2>6. UnsolicitedInitiated(w)
    BY <1>1, <1>6, <2>0, <2>1, <2>2, <2>3
       DEF AcceptedTo, Sound, Initiated, UnsolicitedInitiated, Absent, Completing,
           ImpliedTypes, SameCredits, Unfreed
  <2>7. AtUlp(w)
    BY <1>1, <1>6, <2>0, <2>1, <2>2, <2>3
       DEF AcceptedTo, Sound, Served, AtUlp, Absent, UlpRequest, RdmaOpcodeToPacketType,
           ImpliedTypes, SameCredits, Unfreed, Ready, Taken, Refused, After
  <2>8. UnsolicitedServed(w)
    BY <1>1, <1>6, <2>0, <2>1, <2>2, <2>3
       DEF AcceptedTo, Sound, Served, UnsolicitedServed, ImpliedTypes, SameCredits, Unfreed,
           Ready, Taken, Refused, After
  <2> QED
    BY <1>3, <1>1, <1>6, <2>0, <2>1, <2>2, <2>3, <2>4, <2>5, <2>6, <2>7, <2>8
       DEF AcceptedTo, Sound, Initiated, Served
<1>7. CASE v.type = "kPushSolicited"
  <2>1. CASE type = "kPushRequest"
    <3>1. /\ host = "kTarget" /\ t = v.tar /\ t.state = "none" /\ t.held = NoCredits
          /\ acks = {type} /\ Lane(type) = "targetSsn"
      BY <1>1, <1>7, <2>1
         DEF Sound, OwnPackets, Initiated, Served, Ends, AtUlp, SolicitedInitiated,
             SolicitedServed, MetaAt, GetTransactionLocation, acks, t, host, Lane, PushData,
             Ready, Taken, Refused, After, UlpRequest, RdmaOpcodeToPacketType, PacketTypes,
             Absent, ImpliedTypes, DataSent, GrantSent
    <3>2. /\ u \in Metadata /\ Unfreed(u, "kPushGrant") /\ u.state = "kPushReqNtwkRx"
          /\ u.held = ReserveIncoming("kPushRequest")
      <4>1. /\ u \in Metadata /\ Unfreed(u, "kPushGrant") /\ u.state = "kPushReqNtwkRx"
            /\ u.held = CreditsPlus(t.held, ReserveIncoming("kPushRequest"))
        BY <1>2, <2>1, <3>1, PushRequestAccepted DEF u
      <4>2. CreditsPlus(NoCredits, ReserveIncoming("kPushRequest"))
              = ReserveIncoming("kPushRequest")
        BY ReservesAreAmounts, CreditSums
      <4> QED
        BY <3>1, <4>1, <4>2
    <3>3. AcceptedTo(v, w, v.ini, u, type, {type}, "targetSsn")
      BY <1>4, <3>1, <3>2
    <3>4. OwnPackets(w)
      BY <1>1, <1>7, <2>1, <3>1, <3>2, <3>3
         DEF AcceptedTo, Sound, OwnPackets, Lanes, PacketTypes, PushData, UlpRequest,
             RdmaOpcodeToPacketType
    <3>5. Ends(w)
      BY <1>1, <1>7, <2>1, <3>1, <3>2, <3>3
         DEF AcceptedTo, Sound, Initiated, Ends, Absent, Completing, Answer
    <3>6. SolicitedInitiated(w)
      BY <1>1, <1>7, <2>1, <3>1, <3>2, <3>3
         DEF AcceptedTo, Sound, Initiated, SolicitedInitiated, Absent, Completing,
             ImpliedTypes, SameCredits, Unfreed, DataSent
    <3>7. AtUlp(w)
      BY <1>1, <1>7, <2>1, <3>1, <3>2, <3>3
         DEF AcceptedTo, Sound, Served, AtUlp, Absent, UlpRequest, RdmaOpcodeToPacketType,
             ImpliedTypes, SameCredits, Unfreed, Ready, Taken, Refused, After
    <3>8. SolicitedServed(w)
      BY <1>1, <1>7, <2>1, <3>1, <3>2, <3>3
         DEF AcceptedTo, Sound, Served, SolicitedServed, ImpliedTypes, SameCredits, Unfreed,
             GrantSent, Ready, Taken, Refused, After
    <3> QED
      BY <1>3, <1>1, <1>7, <2>1, <3>1, <3>2, <3>3, <3>4, <3>5, <3>6, <3>7, <3>8
         DEF AcceptedTo, Sound, Initiated, Served
  <2>2. CASE type = "kPushGrant"
    <3>1. /\ host = "kInitiator" /\ t = v.ini /\ t.state = "kPushReqNtwkTx"
          /\ Unfreed(t, "kPushSolicitedData")
          /\ t.held = ReserveOutgoing("kPushRequest")
          /\ acks = {type} /\ Lane(type) = "initiatorSsn"
      BY <1>1, <1>7, <2>2
         DEF Sound, OwnPackets, Initiated, Served, Ends, AtUlp, SolicitedInitiated,
             SolicitedServed, MetaAt, GetTransactionLocation, acks, t, host, Lane, PushData,
             Ready, Taken, Refused, After, UlpRequest, RdmaOpcodeToPacketType, PacketTypes,
             Absent, ImpliedTypes, DataSent, GrantSent
    <3>2. /\ u \in Metadata /\ u.state = "kPushGrantNtwkRx" /\ Unfreed(u, "kPushSolicitedData")
          /\ u.held = ReserveOutgoing("kPushRequest")
      <4>1. /\ u \in Metadata /\ u.state = "kPushGrantNtwkRx" /\ u.context = "kPushGrant"
            /\ SameCredits(t, u) /\ u.packets = t.packets \cup {"kPushGrant"}
            /\ u.freed = t.freed \ {"kPushGrant"}
        BY <1>2, <2>2, <3>1, PushGrantAccepted DEF u
      <4> QED
        BY <2>2, <3>1, <4>1 DEF Unfreed, SameCredits
    <3>3. AcceptedTo(v, w, u, v.tar, type, {type}, "initiatorSsn")
      BY <1>4, <3>1, <3>2
    <3>4. OwnPackets(w)
      BY <1>1, <1>7, <2>2, <3>1, <3>2, <3>3
         DEF AcceptedTo, Sound, OwnPackets, Lanes, PacketTypes, PushData, UlpRequest,
             RdmaOpcodeToPacketType
    <3>5. Ends(w)
      BY <1>1, <1>7, <2>2, <3>1, <3>2, <3>3
         DEF AcceptedTo, Sound, Initiated, Ends, Absent, Completing, Answer
    <3>6. SolicitedInitiated(w)
      BY <1>1, <1>7, <2>2, <3>1, <3>2, <3>3
         DEF AcceptedTo, Sound, Initiated, SolicitedInitiated, Absent, Completing,
             ImpliedTypes, SameCredits, Unfreed, DataSent
    <3>7. AtUlp(w)
      BY <1>1, <1>7, <2>2, <3>1, <3>2, <3>3
         DEF AcceptedTo, Sound, Served, AtUlp, Absent, UlpRequest, RdmaOpcodeToPacketType,
             ImpliedTypes, SameCredits, Unfreed, Ready, Taken, Refused, After
    <3>8. SolicitedServed(w)
      BY <1>1, <1>7, <2>2, <3>1, <3>2, <3>3
         DEF AcceptedTo, Sound, Served, SolicitedServed, ImpliedTypes, SameCredits, Unfreed,
             GrantSent, Ready, Taken, Refused, After
    <3> QED
      BY <1>3, <1>1, <1>7, <2>2, <3>1, <3>2, <3>3, <3>4, <3>5, <3>6, <3>7, <3>8
         DEF AcceptedTo, Sound, Initiated, Served
  <2>3. CASE type = "kPushSolicitedData"
    <3>1. /\ host = "kTarget" /\ t = v.tar /\ t.state = "kPushGrantNtwkTx"
          /\ t.held = ReleaseIncoming(type)
          /\ acks = {} /\ Lane(type) = "targetRsn"
      BY <1>1, <1>7, <2>3
         DEF Sound, OwnPackets, Initiated, Served, Ends, AtUlp, SolicitedInitiated,
             SolicitedServed, MetaAt, GetTransactionLocation, acks, t, host, Lane, PushData,
             Ready, Taken, Refused, After, UlpRequest, RdmaOpcodeToPacketType, PacketTypes,
             Absent, ImpliedTypes, DataSent, GrantSent
    <3>2. /\ u \in Metadata /\ Unfreed(u, type) /\ u.context = type
          /\ u.state = "kPushSolicitedDataNtwkRx" /\ u.held = ReleaseIncoming(type)
      <4>1. /\ u \in Metadata /\ u.state = "kPushSolicitedDataNtwkRx"
            /\ u.context = "kPushSolicitedData"
            /\ SameCredits(t, u) /\ u.packets = t.packets \cup {"kPushSolicitedData"}
            /\ u.freed = t.freed \ {"kPushSolicitedData"}
        BY <1>2, <2>3, <3>1, SolicitedDataAccepted DEF u
      <4> QED
        BY <2>3, <3>1, <4>1 DEF Unfreed, SameCredits
    <3>3. AcceptedTo(v, w, v.ini, u, type, {}, "targetRsn")
      BY <1>4, <3>1, <3>2
    <3>4. OwnPackets(w)
      BY <1>1, <1>7, <2>3, <3>1, <3>2, <3>3
         DEF AcceptedTo, Sound, OwnPackets, Lanes, PacketTypes, PushData, UlpRequest,
             RdmaOpcodeToPacketType
    <3>5. Ends(w)
      BY <1>1, <1>7, <2>3, <3>1, <3>2, <3>3
         DEF AcceptedTo, Sound, Initiated, Ends, Absent, Completing, Answer
    <3>6. SolicitedInitiated(w)
      BY <1>1, <1>7, <2>3, <3>1, <3>2, <3>3
         DEF AcceptedTo, Sound, Initiated, SolicitedInitiated, Absent, Completing,
             ImpliedTypes, SameCredits, Unfreed, DataSent
    <3>7. AtUlp(w)
      BY <1>1, <1>7, <2>3, <3>1, <3>2, <3>3
         DEF AcceptedTo, Sound, Served, AtUlp, Absent, UlpRequest, RdmaOpcodeToPacketType,
             ImpliedTypes, SameCredits, Unfreed, Ready, Taken, Refused, After
    <3>8. SolicitedServed(w)
      BY <1>1, <1>7, <2>3, <3>1, <3>2, <3>3
         DEF AcceptedTo, Sound, Served, SolicitedServed, ImpliedTypes, SameCredits, Unfreed,
             GrantSent, Ready, Taken, Refused, After
    <3> QED
      BY <1>3, <1>1, <1>7, <2>3, <3>1, <3>2, <3>3, <3>4, <3>5, <3>6, <3>7, <3>8
         DEF AcceptedTo, Sound, Initiated, Served
  <2> QED
    BY <1>1, <1>7, <2>1, <2>2, <2>3 DEF PacketTypes
<1> QED
  BY <1>1, <1>5, <1>6, <1>7 DEF Types
-----------------------------------------------------------------------------
(* The ULPs. *)

\* InitiateTransaction.
BeginV(v) ==
  LET first == RdmaOpcodeToPacketType(v.type)
  IN [v EXCEPT !.phase = "begun",
               !.ini = CreateOrUpdateTransactionFromUlp(Reserve(@, ReserveOutgoing(first)), v.type),
               !.toSend = @ \cup {first}]

LEMMA TransactionBegun ==
  ASSUME NEW v, Sound(v), v.phase = "new"
  PROVE  Sound(BeginV(v))
<1> DEFINE first == RdmaOpcodeToPacketType(v.type)
           u == CreateOrUpdateTransactionFromUlp(Reserve(v.ini, ReserveOutgoing(first)), v.type)
           w == [v EXCEPT !.phase = "begun", !.ini = u, !.toSend = @ \cup {first}]
<1>1. v \in Views /\ v.type \in Types /\ v.ini \in Metadata /\ v.tar \in Metadata
  BY DEF Sound, Views
<1>2. BeginV(v) = w
  BY DEF BeginV
<1> HIDE DEF w, u
<1>3. ASSUME u \in Metadata
      PROVE  /\ w \in Views /\ w.type = v.type /\ w.phase = "begun" /\ w.ini = u
             /\ w.tar = v.tar /\ w.toSend = v.toSend \cup {RdmaOpcodeToPacketType(v.type)}
             /\ w.unacked = v.unacked /\ w.network = v.network /\ w.received = v.received
             /\ w.ackable = v.ackable /\ w.ulp = v.ulp /\ w.timer = v.timer
             /\ w.arrived = v.arrived /\ w.letGo = v.letGo /\ w.atIni = v.atIni
             /\ w.atTar = v.atTar
  BY <1>1, <1>3 DEF w, Views, AllPacketTypes, UlpRequest, RdmaOpcodeToPacketType, Types
<1>4. CASE v.type = "kPull"
  <2>1. /\ v.ini.state = "none" /\ v.ini.held = NoCredits
        /\ v.received \cup v.network \cup v.unacked \cup v.toSend = {}
    BY <1>1, <1>4
       DEF Sound, OwnPackets, Initiated, Served, Ends, AtUlp, PullInitiated, PullServed,
           Absent, PacketTypes, Ready, Taken, Refused, After, UlpRequest,
           RdmaOpcodeToPacketType
  <2>2. /\ u \in Metadata /\ u.state = "kPullReqUlpRx" /\ Unfreed(u, "kPullRequest")
        /\ u.held = ReserveOutgoing("kPullRequest")
    BY <1>1, <1>4, <2>1, Begun
       DEF u, Starting, RdmaOpcodeToPacketType
  <2>3. /\ w \in Views /\ w.type = v.type /\ w.phase = "begun" /\ w.ini = u /\ w.tar = v.tar
        /\ w.toSend = v.toSend \cup {RdmaOpcodeToPacketType(v.type)}
        /\ w.unacked = v.unacked /\ w.network = v.network /\ w.received = v.received
        /\ w.ackable = v.ackable /\ w.ulp = v.ulp /\ w.timer = v.timer
        /\ w.arrived = v.arrived /\ w.letGo = v.letGo /\ w.atIni = v.atIni
        /\ w.atTar = v.atTar
    BY <1>3, <2>2
  <2>4. OwnPackets(w)
    BY <1>1, <1>4, <2>1, <2>2, <2>3
       DEF Sound, OwnPackets, Lanes, PacketTypes, PushData, UlpRequest,
           RdmaOpcodeToPacketType
  <2>5. Ends(w)
    BY <1>1, <1>4, <2>1, <2>2, <2>3
       DEF Sound, Initiated, Ends, Absent, Completing, Answer
  <2>6. PullInitiated(w)
    BY <1>1, <1>4, <2>1, <2>2, <2>3
       DEF Sound, Initiated, PullInitiated, Absent, Completing, RdmaOpcodeToPacketType
  <2>7. AtUlp(w)
    BY <1>1, <1>4, <2>1, <2>2, <2>3
       DEF Sound, Served, AtUlp, Absent, UlpRequest, RdmaOpcodeToPacketType,
           RdmaOpcodeToPacketType, Ready, Taken, Refused, After
  <2>8. PullServed(w)
    BY <1>1, <1>4, <2>1, <2>2, <2>3
       DEF Sound, Served, PullServed, RdmaOpcodeToPacketType, Ready, Taken, Refused,
           After
  <2> QED
    BY <1>2, <1>1, <1>4, <2>1, <2>2, <2>3, <2>4, <2>5, <2>6, <2>7, <2>8
       DEF Sound, Initiated, Served
<1>5. CASE v.type = "kPushUnsolicited"
  <2>1. /\ v.ini.state = "none" /\ v.ini.held = NoCredits
        /\ v.received \cup v.network \cup v.unacked \cup v.toSend = {}
    BY <1>1, <1>5
       DEF Sound, OwnPackets, Initiated, Served, Ends, AtUlp, UnsolicitedInitiated,
           UnsolicitedServed, Absent, PacketTypes, Ready, Taken, Refused, After, UlpRequest,
           RdmaOpcodeToPacketType
  <2>2. /\ u \in Metadata /\ u.state = "kPushUnsolicitedReqUlpRx"
        /\ Unfreed(u, "kPushUnsolicitedData")
        /\ u.held = ReserveOutgoing("kPushUnsolicitedData")
    BY <1>1, <1>5, <2>1, Begun
       DEF u, Starting, RdmaOpcodeToPacketType
  <2>3. /\ w \in Views /\ w.type = v.type /\ w.phase = "begun" /\ w.ini = u /\ w.tar = v.tar
        /\ w.toSend = v.toSend \cup {RdmaOpcodeToPacketType(v.type)}
        /\ w.unacked = v.unacked /\ w.network = v.network /\ w.received = v.received
        /\ w.ackable = v.ackable /\ w.ulp = v.ulp /\ w.timer = v.timer
        /\ w.arrived = v.arrived /\ w.letGo = v.letGo /\ w.atIni = v.atIni
        /\ w.atTar = v.atTar
    BY <1>3, <2>2
  <2>4. OwnPackets(w)
    BY <1>1, <1>5, <2>1, <2>2, <2>3
       DEF Sound, OwnPackets, Lanes, PacketTypes, PushData, UlpRequest,
           RdmaOpcodeToPacketType
  <2>5. Ends(w)
    BY <1>1, <1>5, <2>1, <2>2, <2>3
       DEF Sound, Initiated, Ends, Absent, Completing, Answer
  <2>6. UnsolicitedInitiated(w)
    BY <1>1, <1>5, <2>1, <2>2, <2>3
       DEF Sound, Initiated, UnsolicitedInitiated, Absent, Completing,
           RdmaOpcodeToPacketType
  <2>7. AtUlp(w)
    BY <1>1, <1>5, <2>1, <2>2, <2>3
       DEF Sound, Served, AtUlp, Absent, UlpRequest, RdmaOpcodeToPacketType,
           RdmaOpcodeToPacketType, Ready, Taken, Refused, After
  <2>8. UnsolicitedServed(w)
    BY <1>1, <1>5, <2>1, <2>2, <2>3
       DEF Sound, Served, UnsolicitedServed, RdmaOpcodeToPacketType, Ready, Taken,
           Refused, After
  <2> QED
    BY <1>2, <1>1, <1>5, <2>1, <2>2, <2>3, <2>4, <2>5, <2>6, <2>7, <2>8
       DEF Sound, Initiated, Served
<1>6. CASE v.type = "kPushSolicited"
  <2>1. /\ v.ini.state = "none" /\ v.ini.held = NoCredits
        /\ v.received \cup v.network \cup v.unacked \cup v.toSend = {}
    BY <1>1, <1>6
       DEF Sound, OwnPackets, Initiated, Served, Ends, AtUlp, SolicitedInitiated,
           SolicitedServed, Absent, PacketTypes, Ready, Taken, Refused, After, UlpRequest,
           RdmaOpcodeToPacketType, DataSent, GrantSent
  <2>2. /\ u \in Metadata /\ u.state = "kPushSolicitedReqUlpRx"
        /\ Unfreed(u, "kPushRequest") /\ Unfreed(u, "kPushSolicitedData")
        /\ u.held = ReserveOutgoing("kPushRequest")
    BY <1>1, <1>6, <2>1, Begun
       DEF u, Starting, RdmaOpcodeToPacketType
  <2>3. /\ w \in Views /\ w.type = v.type /\ w.phase = "begun" /\ w.ini = u /\ w.tar = v.tar
        /\ w.toSend = v.toSend \cup {RdmaOpcodeToPacketType(v.type)}
        /\ w.unacked = v.unacked /\ w.network = v.network /\ w.received = v.received
        /\ w.ackable = v.ackable /\ w.ulp = v.ulp /\ w.timer = v.timer
        /\ w.arrived = v.arrived /\ w.letGo = v.letGo /\ w.atIni = v.atIni
        /\ w.atTar = v.atTar
    BY <1>3, <2>2
  <2>4. OwnPackets(w)
    BY <1>1, <1>6, <2>1, <2>2, <2>3
       DEF Sound, OwnPackets, Lanes, PacketTypes, PushData, UlpRequest,
           RdmaOpcodeToPacketType
  <2>5. Ends(w)
    BY <1>1, <1>6, <2>1, <2>2, <2>3
       DEF Sound, Initiated, Ends, Absent, Completing, Answer
  <2>6. SolicitedInitiated(w)
    BY <1>1, <1>6, <2>1, <2>2, <2>3
       DEF Sound, Initiated, SolicitedInitiated, Absent, Completing,
           RdmaOpcodeToPacketType, DataSent
  <2>7. AtUlp(w)
    BY <1>1, <1>6, <2>1, <2>2, <2>3
       DEF Sound, Served, AtUlp, Absent, UlpRequest, RdmaOpcodeToPacketType,
           RdmaOpcodeToPacketType, Ready, Taken, Refused, After
  <2>8. SolicitedServed(w)
    BY <1>1, <1>6, <2>1, <2>2, <2>3
       DEF Sound, Served, SolicitedServed, RdmaOpcodeToPacketType, GrantSent, Ready,
           Taken, Refused, After
  <2> QED
    BY <1>2, <1>1, <1>6, <2>1, <2>2, <2>3, <2>4, <2>5, <2>6, <2>7, <2>8
       DEF Sound, Initiated, Served
<1> QED
  BY <1>1, <1>4, <1>5, <1>6 DEF Types

\* InitiatePullData.
RespondV(v) ==
  [v EXCEPT !.tar = UpdateState(CreatePacket(Reserve(@, ReserveOutgoing("kPullData")),
                                             "kPullData"), "kPullData", "UlpRx"),
            !.ulp = @ \ {"kPullData"}, !.toSend = @ \cup {"kPullData"}]

LEMMA PullResponded ==
  ASSUME NEW v, Sound(v), "kPullData" \in v.ulp
  PROVE  Sound(RespondV(v))
<1> DEFINE u == UpdateState(CreatePacket(Reserve(v.tar, ReserveOutgoing("kPullData")),
                                         "kPullData"), "kPullData", "UlpRx")
           w == [v EXCEPT !.tar = u, !.ulp = @ \ {"kPullData"}, !.toSend = @ \cup {"kPullData"}]
<1>1. v \in Views /\ v.type \in Types /\ v.ini \in Metadata /\ v.tar \in Metadata
  BY DEF Sound, Views
<1>2. RespondV(v) = w
  BY DEF RespondV
<1> HIDE DEF w, u
<1>3. ASSUME u \in Metadata
      PROVE  /\ w \in Views /\ w.type = v.type /\ w.phase = v.phase /\ w.ini = v.ini
             /\ w.tar = u /\ w.toSend = v.toSend \cup {"kPullData"} /\ w.unacked = v.unacked
             /\ w.network = v.network /\ w.received = v.received /\ w.ackable = v.ackable
             /\ w.ulp = v.ulp \ {"kPullData"} /\ w.timer = v.timer /\ w.arrived = v.arrived
             /\ w.letGo = v.letGo /\ w.atIni = v.atIni /\ w.atTar = v.atTar
  BY <1>1, <1>3 DEF w, Views, AllPacketTypes, UlpRequest, RdmaOpcodeToPacketType, Types
<1>4. CASE v.type = "kPull"
  <2>1. v.tar.state = "kPullReqAckUlpRx" /\ v.tar.held = NoCredits
    BY <1>1, <1>4
       DEF Sound, OwnPackets, Initiated, Served, Ends, AtUlp, PullInitiated, PullServed
  <2>2. /\ u \in Metadata /\ u.state = "kPullDataUlpRx" /\ Unfreed(u, "kPullData")
        /\ u.held = ReserveOutgoing("kPullData")
    BY <1>1, <1>4, <2>1, Responded
       DEF u
  <2>3. /\ w \in Views /\ w.type = v.type /\ w.phase = v.phase /\ w.ini = v.ini /\ w.tar = u
        /\ w.toSend = v.toSend \cup {"kPullData"} /\ w.unacked = v.unacked
        /\ w.network = v.network /\ w.received = v.received /\ w.ackable = v.ackable
        /\ w.ulp = v.ulp \ {"kPullData"} /\ w.timer = v.timer /\ w.arrived = v.arrived
        /\ w.letGo = v.letGo /\ w.atIni = v.atIni /\ w.atTar = v.atTar
    BY <1>3, <2>2
  <2>4. OwnPackets(w)
    BY <1>1, <1>4, <2>1, <2>2, <2>3
       DEF Sound, OwnPackets, Lanes, PacketTypes, PushData, UlpRequest,
           RdmaOpcodeToPacketType
  <2>5. Ends(w)
    BY <1>1, <1>4, <2>1, <2>2, <2>3
       DEF Sound, Initiated, Ends, Absent, Completing, Answer
  <2>6. PullInitiated(w)
    BY <1>1, <1>4, <2>1, <2>2, <2>3
       DEF Sound, Initiated, PullInitiated, Absent, Completing
  <2>7. AtUlp(w)
    BY <1>1, <1>4, <2>1, <2>2, <2>3
       DEF Sound, Served, AtUlp, Absent, UlpRequest, RdmaOpcodeToPacketType, Ready,
           Taken, Refused, After
  <2>8. PullServed(w)
    BY <1>1, <1>4, <2>1, <2>2, <2>3
       DEF Sound, Served, PullServed, Ready, Taken, Refused, After
  <2> QED
    BY <1>2, <1>1, <1>4, <2>1, <2>2, <2>3, <2>4, <2>5, <2>6, <2>7, <2>8
       DEF Sound, Initiated, Served
<1>5. v.type = "kPull"
  BY <1>1 DEF Sound, OwnPackets, UlpRequest, RdmaOpcodeToPacketType, Types
<1> QED
  BY <1>5, <1>4

\* The callback of the RX scheduler at the initiator.
TellInitiatorV(v) ==
  [v EXCEPT !.ini = IF Answer(v.type) = "kAck" THEN Complete(@, v.type)
                    ELSE ForwardToUlp(@, Answer(v.type)),
            !.atIni = @ \ {Answer(v.type)}]

LEMMA InitiatorTold ==
  ASSUME NEW v, Sound(v), Answer(v.type) \in v.atIni
  PROVE  Sound(TellInitiatorV(v))
<1> DEFINE u == IF Answer(v.type) = "kAck" THEN Complete(v.ini, v.type)
                ELSE ForwardToUlp(v.ini, Answer(v.type))
           w == [v EXCEPT !.ini = u, !.atIni = @ \ {Answer(v.type)}]
<1>1. v \in Views /\ v.type \in Types /\ v.ini \in Metadata /\ v.tar \in Metadata
  BY DEF Sound, Views
<1>2. TellInitiatorV(v) = w
  BY DEF TellInitiatorV
<1> HIDE DEF w, u
<1>3. ASSUME u \in Metadata
      PROVE  /\ w \in Views /\ w.type = v.type /\ w.phase = v.phase /\ w.ini = u
             /\ w.tar = v.tar /\ w.toSend = v.toSend /\ w.unacked = v.unacked
             /\ w.network = v.network /\ w.received = v.received /\ w.ackable = v.ackable
             /\ w.ulp = v.ulp /\ w.timer = v.timer /\ w.arrived = v.arrived
             /\ w.letGo = v.letGo /\ w.atIni = v.atIni \ {Answer(v.type)}
             /\ w.atTar = v.atTar
  BY <1>1, <1>3 DEF w, Views, AllPacketTypes, UlpRequest, RdmaOpcodeToPacketType, Types
<1>4. CASE v.type = "kPull"
  <2>1. /\ v.ini.state = "kPullDataNtwkRx" /\ Unfreed(v.ini, "kPullData")
        /\ v.ini.held = ReleaseIncoming("kPullData")
    BY <1>1, <1>4
       DEF Sound, OwnPackets, Initiated, Served, Ends, AtUlp, PullInitiated, PullServed,
           Absent, Completing, UlpRequest, RdmaOpcodeToPacketType
  <2>2. u \in Metadata /\ u.state = "erased" /\ u.held = NoCredits
    BY <1>1, <1>4, <2>1, PullDataForwarded
       DEF u, Answer, UlpRequest, RdmaOpcodeToPacketType
  <2>3. /\ w \in Views /\ w.type = v.type /\ w.phase = v.phase /\ w.ini = u /\ w.tar = v.tar
        /\ w.toSend = v.toSend /\ w.unacked = v.unacked /\ w.network = v.network
        /\ w.received = v.received /\ w.ackable = v.ackable /\ w.ulp = v.ulp
        /\ w.timer = v.timer /\ w.arrived = v.arrived /\ w.letGo = v.letGo
        /\ w.atIni = v.atIni \ {Answer(v.type)} /\ w.atTar = v.atTar
    BY <1>3, <2>2
  <2>4. OwnPackets(w)
    BY <1>1, <1>4, <2>1, <2>2, <2>3
       DEF Sound, OwnPackets, Lanes, PacketTypes, PushData, UlpRequest,
           RdmaOpcodeToPacketType
  <2>5. Ends(w)
    BY <1>1, <1>4, <2>1, <2>2, <2>3
       DEF Sound, Initiated, Ends, Absent, Completing, Answer
  <2>6. PullInitiated(w)
    BY <1>1, <1>4, <2>1, <2>2, <2>3
       DEF Sound, Initiated, PullInitiated, Absent, Completing
  <2>7. AtUlp(w)
    BY <1>1, <1>4, <2>1, <2>2, <2>3
       DEF Sound, Served, AtUlp, Absent, UlpRequest, RdmaOpcodeToPacketType, Ready,
           Taken, Refused, After
  <2>8. PullServed(w)
    BY <1>1, <1>4, <2>1, <2>2, <2>3
       DEF Sound, Served, PullServed, Ready, Taken, Refused, After
  <2> QED
    BY <1>2, <1>1, <1>4, <2>1, <2>2, <2>3, <2>4, <2>5, <2>6, <2>7, <2>8
       DEF Sound, Initiated, Served
<1>5. CASE v.type = "kPushUnsolicited"
  <2>1. /\ v.ini.state = Completing(v.type) /\ Unfreed(v.ini, UlpRequest(v.type))
        /\ v.ini.held = ReserveOutgoing("kPushUnsolicitedData")
    BY <1>1, <1>5
       DEF Sound, OwnPackets, Initiated, Served, Ends, AtUlp, UnsolicitedInitiated,
           UnsolicitedServed, Absent, Completing, UlpRequest, RdmaOpcodeToPacketType
  <2>2. u \in Metadata /\ u.state = "erased" /\ u.held = NoCredits
    BY <1>1, <1>5, <2>1, PushCompleted, ReservesAreReleased
       DEF u, Answer, UlpRequest, RdmaOpcodeToPacketType
  <2>3. /\ w \in Views /\ w.type = v.type /\ w.phase = v.phase /\ w.ini = u /\ w.tar = v.tar
        /\ w.toSend = v.toSend /\ w.unacked = v.unacked /\ w.network = v.network
        /\ w.received = v.received /\ w.ackable = v.ackable /\ w.ulp = v.ulp
        /\ w.timer = v.timer /\ w.arrived = v.arrived /\ w.letGo = v.letGo
        /\ w.atIni = v.atIni \ {Answer(v.type)} /\ w.atTar = v.atTar
    BY <1>3, <2>2
  <2>4. OwnPackets(w)
    BY <1>1, <1>5, <2>1, <2>2, <2>3
       DEF Sound, OwnPackets, Lanes, PacketTypes, PushData, UlpRequest,
           RdmaOpcodeToPacketType
  <2>5. Ends(w)
    BY <1>1, <1>5, <2>1, <2>2, <2>3
       DEF Sound, Initiated, Ends, Absent, Completing, Answer
  <2>6. UnsolicitedInitiated(w)
    BY <1>1, <1>5, <2>1, <2>2, <2>3
       DEF Sound, Initiated, UnsolicitedInitiated, Absent, Completing
  <2>7. AtUlp(w)
    BY <1>1, <1>5, <2>1, <2>2, <2>3
       DEF Sound, Served, AtUlp, Absent, UlpRequest, RdmaOpcodeToPacketType, Ready,
           Taken, Refused, After
  <2>8. UnsolicitedServed(w)
    BY <1>1, <1>5, <2>1, <2>2, <2>3
       DEF Sound, Served, UnsolicitedServed, Ready, Taken, Refused, After
  <2> QED
    BY <1>2, <1>1, <1>5, <2>1, <2>2, <2>3, <2>4, <2>5, <2>6, <2>7, <2>8
       DEF Sound, Initiated, Served
<1>6. CASE v.type = "kPushSolicited"
  <2>1. /\ v.ini.state = Completing(v.type) /\ Unfreed(v.ini, UlpRequest(v.type))
        /\ v.ini.held = ReserveOutgoing("kPushRequest")
    BY <1>1, <1>6
       DEF Sound, OwnPackets, Initiated, Served, Ends, AtUlp, SolicitedInitiated,
           SolicitedServed, Absent, Completing, UlpRequest, RdmaOpcodeToPacketType,
           DataSent, GrantSent
  <2>2. u \in Metadata /\ u.state = "erased" /\ u.held = NoCredits
    BY <1>1, <1>6, <2>1, PushCompleted, ReservesAreReleased
       DEF u, Answer, UlpRequest, RdmaOpcodeToPacketType
  <2>3. /\ w \in Views /\ w.type = v.type /\ w.phase = v.phase /\ w.ini = u /\ w.tar = v.tar
        /\ w.toSend = v.toSend /\ w.unacked = v.unacked /\ w.network = v.network
        /\ w.received = v.received /\ w.ackable = v.ackable /\ w.ulp = v.ulp
        /\ w.timer = v.timer /\ w.arrived = v.arrived /\ w.letGo = v.letGo
        /\ w.atIni = v.atIni \ {Answer(v.type)} /\ w.atTar = v.atTar
    BY <1>3, <2>2
  <2>4. OwnPackets(w)
    BY <1>1, <1>6, <2>1, <2>2, <2>3
       DEF Sound, OwnPackets, Lanes, PacketTypes, PushData, UlpRequest,
           RdmaOpcodeToPacketType
  <2>5. Ends(w)
    BY <1>1, <1>6, <2>1, <2>2, <2>3
       DEF Sound, Initiated, Ends, Absent, Completing, Answer
  <2>6. SolicitedInitiated(w)
    BY <1>1, <1>6, <2>1, <2>2, <2>3
       DEF Sound, Initiated, SolicitedInitiated, Absent, Completing, DataSent
  <2>7. AtUlp(w)
    BY <1>1, <1>6, <2>1, <2>2, <2>3
       DEF Sound, Served, AtUlp, Absent, UlpRequest, RdmaOpcodeToPacketType, Ready,
           Taken, Refused, After
  <2>8. SolicitedServed(w)
    BY <1>1, <1>6, <2>1, <2>2, <2>3
       DEF Sound, Served, SolicitedServed, GrantSent, Ready, Taken, Refused, After
  <2> QED
    BY <1>2, <1>1, <1>6, <2>1, <2>2, <2>3, <2>4, <2>5, <2>6, <2>7, <2>8
       DEF Sound, Initiated, Served
<1> QED
  BY <1>1, <1>4, <1>5, <1>6 DEF Types

\* The callback of the RX scheduler at the target.
TellTargetV(v) ==
  LET request == UlpRequest(v.type)
  IN [v EXCEPT !.tar = ForwardToUlp(@, request), !.atTar = @ \ {request},
               !.ulp = @ \cup {request}]

LEMMA TargetTold ==
  ASSUME NEW v, Sound(v), UlpRequest(v.type) \in v.atTar
  PROVE  Sound(TellTargetV(v))
<1> DEFINE request == UlpRequest(v.type)
           u == ForwardToUlp(v.tar, request)
           w == [v EXCEPT !.tar = u, !.atTar = @ \ {request}, !.ulp = @ \cup {request}]
<1>1. v \in Views /\ v.type \in Types /\ v.ini \in Metadata /\ v.tar \in Metadata
  BY DEF Sound, Views
<1>2. TellTargetV(v) = w
  BY DEF TellTargetV
<1> HIDE DEF w, u
<1>3. ASSUME u \in Metadata
      PROVE  /\ w \in Views /\ w.type = v.type /\ w.phase = v.phase /\ w.ini = v.ini
             /\ w.tar = u /\ w.toSend = v.toSend /\ w.unacked = v.unacked
             /\ w.network = v.network /\ w.received = v.received /\ w.ackable = v.ackable
             /\ w.ulp = v.ulp \cup {UlpRequest(v.type)} /\ w.timer = v.timer
             /\ w.arrived = v.arrived /\ w.letGo = v.letGo /\ w.atIni = v.atIni
             /\ w.atTar = v.atTar \ {UlpRequest(v.type)}
  <2>1. UlpRequest(v.type) \in AllPacketTypes /\ "kPullData" \in AllPacketTypes
    BY <1>1 DEF AllPacketTypes, UlpRequest, RdmaOpcodeToPacketType, Types
  <2>2. /\ v.ulp \cup {UlpRequest(v.type)} \in SUBSET AllPacketTypes
        /\ v.atTar \ {UlpRequest(v.type)} \in SUBSET AllPacketTypes
    BY <1>1, <2>1 DEF Views
  <2> QED
    BY <1>1, <1>3, <2>2 DEF w, Views
<1>4. CASE v.type = "kPull"
  <2>1. /\ v.tar.state \in {Ready(v.type), Refused(v.type)}
        /\ Unfreed(v.tar, UlpRequest(v.type))
        /\ v.tar.context = UlpRequest(v.type)
        /\ v.tar.held = ReleaseIncoming(UlpRequest(v.type))
        /\ "targetRsn" \in v.letGo /\ v.timer = "off"
    BY <1>1, <1>4
       DEF Sound, OwnPackets, Initiated, Served, Ends, AtUlp, PullInitiated, PullServed
  <2>2. /\ u \in Metadata /\ u.state = Taken(v.type) /\ Unfreed(u, UlpRequest(v.type))
        /\ u.context = UlpRequest(v.type)
        /\ u.held = ReleaseIncoming(UlpRequest(v.type))
    BY <1>1, <1>4, <2>1, RequestForwarded
       DEF u, SamePackets, SameContext, SameCredits, Unfreed
  <2>3. /\ w \in Views /\ w.type = v.type /\ w.phase = v.phase /\ w.ini = v.ini /\ w.tar = u
        /\ w.toSend = v.toSend /\ w.unacked = v.unacked /\ w.network = v.network
        /\ w.received = v.received /\ w.ackable = v.ackable
        /\ w.ulp = v.ulp \cup {UlpRequest(v.type)} /\ w.timer = v.timer
        /\ w.arrived = v.arrived /\ w.letGo = v.letGo /\ w.atIni = v.atIni
        /\ w.atTar = v.atTar \ {UlpRequest(v.type)}
    BY <1>3, <2>2
  <2>4. OwnPackets(w)
    BY <1>1, <1>4, <2>1, <2>2, <2>3
       DEF Sound, OwnPackets, Lanes, PacketTypes, PushData, UlpRequest,
           RdmaOpcodeToPacketType
  <2>5. Ends(w)
    BY <1>1, <1>4, <2>1, <2>2, <2>3
       DEF Sound, Initiated, Ends, Absent, Completing, Answer
  <2>6. PullInitiated(w)
    BY <1>1, <1>4, <2>1, <2>2, <2>3
       DEF Sound, Initiated, PullInitiated, Absent, Completing, UlpRequest,
           RdmaOpcodeToPacketType
  <2>7. AtUlp(w)
    BY <1>1, <1>4, <2>1, <2>2, <2>3
       DEF Sound, Served, AtUlp, Absent, UlpRequest, RdmaOpcodeToPacketType, UlpRequest,
           RdmaOpcodeToPacketType, Ready, Taken, Refused, After
  <2>8. PullServed(w)
    BY <1>1, <1>4, <2>1, <2>2, <2>3
       DEF Sound, Served, PullServed, UlpRequest, RdmaOpcodeToPacketType, Ready, Taken,
           Refused, After
  <2> QED
    BY <1>2, <1>1, <1>4, <2>1, <2>2, <2>3, <2>4, <2>5, <2>6, <2>7, <2>8
       DEF Sound, Initiated, Served
<1>5. CASE v.type = "kPushUnsolicited"
  <2>1. /\ v.tar.state \in {Ready(v.type), Refused(v.type)}
        /\ Unfreed(v.tar, UlpRequest(v.type))
        /\ v.tar.context = UlpRequest(v.type)
        /\ v.tar.held = ReleaseIncoming(UlpRequest(v.type))
        /\ "targetRsn" \in v.letGo /\ v.timer = "off"
    BY <1>1, <1>5
       DEF Sound, OwnPackets, Initiated, Served, Ends, AtUlp, UnsolicitedInitiated,
           UnsolicitedServed
  <2>2. /\ u \in Metadata /\ u.state = Taken(v.type) /\ Unfreed(u, UlpRequest(v.type))
        /\ u.context = UlpRequest(v.type)
        /\ u.held = ReleaseIncoming(UlpRequest(v.type))
    BY <1>1, <1>5, <2>1, RequestForwarded
       DEF u, SamePackets, SameContext, SameCredits, Unfreed
  <2>3. /\ w \in Views /\ w.type = v.type /\ w.phase = v.phase /\ w.ini = v.ini /\ w.tar = u
        /\ w.toSend = v.toSend /\ w.unacked = v.unacked /\ w.network = v.network
        /\ w.received = v.received /\ w.ackable = v.ackable
        /\ w.ulp = v.ulp \cup {UlpRequest(v.type)} /\ w.timer = v.timer
        /\ w.arrived = v.arrived /\ w.letGo = v.letGo /\ w.atIni = v.atIni
        /\ w.atTar = v.atTar \ {UlpRequest(v.type)}
    BY <1>3, <2>2
  <2>4. OwnPackets(w)
    BY <1>1, <1>5, <2>1, <2>2, <2>3
       DEF Sound, OwnPackets, Lanes, PacketTypes, PushData, UlpRequest,
           RdmaOpcodeToPacketType
  <2>5. Ends(w)
    BY <1>1, <1>5, <2>1, <2>2, <2>3
       DEF Sound, Initiated, Ends, Absent, Completing, Answer
  <2>6. UnsolicitedInitiated(w)
    BY <1>1, <1>5, <2>1, <2>2, <2>3
       DEF Sound, Initiated, UnsolicitedInitiated, Absent, Completing, UlpRequest,
           RdmaOpcodeToPacketType
  <2>7. AtUlp(w)
    BY <1>1, <1>5, <2>1, <2>2, <2>3
       DEF Sound, Served, AtUlp, Absent, UlpRequest, RdmaOpcodeToPacketType, UlpRequest,
           RdmaOpcodeToPacketType, Ready, Taken, Refused, After
  <2>8. UnsolicitedServed(w)
    BY <1>1, <1>5, <2>1, <2>2, <2>3
       DEF Sound, Served, UnsolicitedServed, UlpRequest, RdmaOpcodeToPacketType, Ready,
           Taken, Refused, After
  <2> QED
    BY <1>2, <1>1, <1>5, <2>1, <2>2, <2>3, <2>4, <2>5, <2>6, <2>7, <2>8
       DEF Sound, Initiated, Served
<1>6. CASE v.type = "kPushSolicited"
  <2>1. /\ v.tar.state \in {Ready(v.type), Refused(v.type)}
        /\ Unfreed(v.tar, UlpRequest(v.type))
        /\ v.tar.context = UlpRequest(v.type)
        /\ v.tar.held = ReleaseIncoming(UlpRequest(v.type))
        /\ "targetRsn" \in v.letGo /\ v.timer = "off"
    BY <1>1, <1>6
       DEF Sound, OwnPackets, Initiated, Served, Ends, AtUlp, SolicitedInitiated,
           SolicitedServed, DataSent, GrantSent
  <2>2. /\ u \in Metadata /\ u.state = Taken(v.type) /\ Unfreed(u, UlpRequest(v.type))
        /\ u.context = UlpRequest(v.type)
        /\ u.held = ReleaseIncoming(UlpRequest(v.type))
    BY <1>1, <1>6, <2>1, RequestForwarded
       DEF u, SamePackets, SameContext, SameCredits, Unfreed
  <2>3. /\ w \in Views /\ w.type = v.type /\ w.phase = v.phase /\ w.ini = v.ini /\ w.tar = u
        /\ w.toSend = v.toSend /\ w.unacked = v.unacked /\ w.network = v.network
        /\ w.received = v.received /\ w.ackable = v.ackable
        /\ w.ulp = v.ulp \cup {UlpRequest(v.type)} /\ w.timer = v.timer
        /\ w.arrived = v.arrived /\ w.letGo = v.letGo /\ w.atIni = v.atIni
        /\ w.atTar = v.atTar \ {UlpRequest(v.type)}
    BY <1>3, <2>2
  <2>4. OwnPackets(w)
    BY <1>1, <1>6, <2>1, <2>2, <2>3
       DEF Sound, OwnPackets, Lanes, PacketTypes, PushData, UlpRequest,
           RdmaOpcodeToPacketType
  <2>5. Ends(w)
    BY <1>1, <1>6, <2>1, <2>2, <2>3
       DEF Sound, Initiated, Ends, Absent, Completing, Answer
  <2>6. SolicitedInitiated(w)
    BY <1>1, <1>6, <2>1, <2>2, <2>3
       DEF Sound, Initiated, SolicitedInitiated, Absent, Completing, UlpRequest,
           RdmaOpcodeToPacketType, DataSent
  <2>7. AtUlp(w)
    BY <1>1, <1>6, <2>1, <2>2, <2>3
       DEF Sound, Served, AtUlp, Absent, UlpRequest, RdmaOpcodeToPacketType, UlpRequest,
           RdmaOpcodeToPacketType, Ready, Taken, Refused, After
  <2>8. SolicitedServed(w)
    BY <1>1, <1>6, <2>1, <2>2, <2>3
       DEF Sound, Served, SolicitedServed, UlpRequest, RdmaOpcodeToPacketType,
           GrantSent, Ready, Taken, Refused, After
  <2> QED
    BY <1>2, <1>1, <1>6, <2>1, <2>2, <2>3, <2>4, <2>5, <2>6, <2>7, <2>8
       DEF Sound, Initiated, Served
<1> QED
  BY <1>1, <1>4, <1>5, <1>6 DEF Types

\* AckFromUlp.
UlpAckV(v) ==
  LET request == UlpRequest(v.type)
  IN [v EXCEPT !.tar = AckedFromUlp(ReleaseResources(UpdateState(@, request, "UlpAckRx"),
                                                     request, ReleaseIncoming(request)),
                                    request),
               !.ulp = (@ \ {request})
                                   \cup (IF v.type = "kPull" THEN {"kPullData"} ELSE {}),
               !.ackable = @ \cup {request}]

LEMMA UlpAcked ==
  ASSUME NEW v, Sound(v), UlpRequest(v.type) \in v.ulp
  PROVE  Sound(UlpAckV(v))
<1> DEFINE request == UlpRequest(v.type)
           u == AckedFromUlp(ReleaseResources(UpdateState(v.tar, request, "UlpAckRx"),
                                              request, ReleaseIncoming(request)), request)
           w == [v EXCEPT !.tar = u,
                          !.ulp = (@ \ {request})
                                   \cup (IF v.type = "kPull" THEN {"kPullData"} ELSE {}),
                          !.ackable = @ \cup {request}]
<1>1. v \in Views /\ v.type \in Types /\ v.ini \in Metadata /\ v.tar \in Metadata
  BY DEF Sound, Views
<1>2. UlpAckV(v) = w
  BY DEF UlpAckV
<1> HIDE DEF w, u
<1>3. ASSUME u \in Metadata
      PROVE  /\ w \in Views /\ w.type = v.type /\ w.phase = v.phase /\ w.ini = v.ini
             /\ w.tar = u /\ w.toSend = v.toSend /\ w.unacked = v.unacked
             /\ w.network = v.network /\ w.received = v.received
             /\ w.ackable = v.ackable \cup {UlpRequest(v.type)}
             /\ w.ulp = (v.ulp \ {UlpRequest(v.type)})
                       \cup (IF v.type = "kPull" THEN {"kPullData"} ELSE {})
             /\ w.timer = v.timer /\ w.arrived = v.arrived /\ w.letGo = v.letGo
             /\ w.atIni = v.atIni /\ w.atTar = v.atTar
  <2>1. UlpRequest(v.type) \in AllPacketTypes /\ "kPullData" \in AllPacketTypes
    BY <1>1 DEF AllPacketTypes, UlpRequest, RdmaOpcodeToPacketType, Types
  <2>2. /\ v.ackable \cup {UlpRequest(v.type)} \in SUBSET AllPacketTypes
        /\ (v.ulp \ {UlpRequest(v.type)})
             \cup (IF v.type = "kPull" THEN {"kPullData"} ELSE {})
            \in SUBSET AllPacketTypes
    BY <1>1, <2>1 DEF Views
  <2> QED
    BY <1>1, <1>3, <2>2 DEF w, Views
<1>4. CASE v.type = "kPull"
  <2>1. /\ v.tar.state = Taken(v.type) /\ Unfreed(v.tar, UlpRequest(v.type))
        /\ v.tar.context = UlpRequest(v.type)
        /\ v.tar.held = ReleaseIncoming(UlpRequest(v.type))
        /\ "targetRsn" \in v.letGo /\ UlpRequest(v.type) \in v.received
    BY <1>1, <1>4
       DEF Sound, OwnPackets, Initiated, Served, Ends, AtUlp, PullInitiated, PullServed
  <2>2. /\ u \in Metadata /\ u.held = NoCredits
        /\ u.state = IF v.type = "kPull" THEN "kPullReqAckUlpRx" ELSE "erased"
    BY <1>1, <1>4, <2>1, AckedByUlp
       DEF u
  <2>3. /\ w \in Views /\ w.type = v.type /\ w.phase = v.phase /\ w.ini = v.ini /\ w.tar = u
        /\ w.toSend = v.toSend /\ w.unacked = v.unacked /\ w.network = v.network
        /\ w.received = v.received /\ w.ackable = v.ackable \cup {UlpRequest(v.type)}
        /\ w.ulp = (v.ulp \ {UlpRequest(v.type)})
                       \cup (IF v.type = "kPull" THEN {"kPullData"} ELSE {})
        /\ w.timer = v.timer /\ w.arrived = v.arrived /\ w.letGo = v.letGo
        /\ w.atIni = v.atIni /\ w.atTar = v.atTar
    BY <1>3, <2>2
  <2>4. OwnPackets(w)
    BY <1>1, <1>4, <2>1, <2>2, <2>3
       DEF Sound, OwnPackets, Lanes, PacketTypes, PushData, UlpRequest,
           RdmaOpcodeToPacketType
  <2>5. Ends(w)
    BY <1>1, <1>4, <2>1, <2>2, <2>3
       DEF Sound, Initiated, Ends, Absent, Completing, Answer
  <2>6. PullInitiated(w)
    BY <1>1, <1>4, <2>1, <2>2, <2>3
       DEF Sound, Initiated, PullInitiated, Absent, Completing, UlpRequest,
           RdmaOpcodeToPacketType
  <2>7. AtUlp(w)
    BY <1>1, <1>4, <2>1, <2>2, <2>3
       DEF Sound, Served, AtUlp, Absent, UlpRequest, RdmaOpcodeToPacketType, UlpRequest,
           RdmaOpcodeToPacketType, Ready, Taken, Refused, After
  <2>8. PullServed(w)
    BY <1>1, <1>4, <2>1, <2>2, <2>3
       DEF Sound, Served, PullServed, UlpRequest, RdmaOpcodeToPacketType, Ready, Taken,
           Refused, After
  <2> QED
    BY <1>2, <1>1, <1>4, <2>1, <2>2, <2>3, <2>4, <2>5, <2>6, <2>7, <2>8
       DEF Sound, Initiated, Served
<1>5. CASE v.type = "kPushUnsolicited"
  <2>1. /\ v.tar.state = Taken(v.type) /\ Unfreed(v.tar, UlpRequest(v.type))
        /\ v.tar.context = UlpRequest(v.type)
        /\ v.tar.held = ReleaseIncoming(UlpRequest(v.type))
        /\ "targetRsn" \in v.letGo /\ UlpRequest(v.type) \in v.received
    BY <1>1, <1>5
       DEF Sound, OwnPackets, Initiated, Served, Ends, AtUlp, UnsolicitedInitiated,
           UnsolicitedServed
  <2>2. /\ u \in Metadata /\ u.held = NoCredits
        /\ u.state = IF v.type = "kPull" THEN "kPullReqAckUlpRx" ELSE "erased"
    BY <1>1, <1>5, <2>1, AckedByUlp
       DEF u
  <2>3. /\ w \in Views /\ w.type = v.type /\ w.phase = v.phase /\ w.ini = v.ini /\ w.tar = u
        /\ w.toSend = v.toSend /\ w.unacked = v.unacked /\ w.network = v.network
        /\ w.received = v.received /\ w.ackable = v.ackable \cup {UlpRequest(v.type)}
        /\ w.ulp = (v.ulp \ {UlpRequest(v.type)})
                       \cup (IF v.type = "kPull" THEN {"kPullData"} ELSE {})
        /\ w.timer = v.timer /\ w.arrived = v.arrived /\ w.letGo = v.letGo
        /\ w.atIni = v.atIni /\ w.atTar = v.atTar
    BY <1>3, <2>2
  <2>4. OwnPackets(w)
    BY <1>1, <1>5, <2>1, <2>2, <2>3
       DEF Sound, OwnPackets, Lanes, PacketTypes, PushData, UlpRequest,
           RdmaOpcodeToPacketType
  <2>5. Ends(w)
    BY <1>1, <1>5, <2>1, <2>2, <2>3
       DEF Sound, Initiated, Ends, Absent, Completing, Answer
  <2>6. UnsolicitedInitiated(w)
    BY <1>1, <1>5, <2>1, <2>2, <2>3
       DEF Sound, Initiated, UnsolicitedInitiated, Absent, Completing, UlpRequest,
           RdmaOpcodeToPacketType
  <2>7. AtUlp(w)
    BY <1>1, <1>5, <2>1, <2>2, <2>3
       DEF Sound, Served, AtUlp, Absent, UlpRequest, RdmaOpcodeToPacketType, UlpRequest,
           RdmaOpcodeToPacketType, Ready, Taken, Refused, After
  <2>8. UnsolicitedServed(w)
    BY <1>1, <1>5, <2>1, <2>2, <2>3
       DEF Sound, Served, UnsolicitedServed, UlpRequest, RdmaOpcodeToPacketType, Ready,
           Taken, Refused, After
  <2> QED
    BY <1>2, <1>1, <1>5, <2>1, <2>2, <2>3, <2>4, <2>5, <2>6, <2>7, <2>8
       DEF Sound, Initiated, Served
<1>6. CASE v.type = "kPushSolicited"
  <2>1. /\ v.tar.state = Taken(v.type) /\ Unfreed(v.tar, UlpRequest(v.type))
        /\ v.tar.context = UlpRequest(v.type)
        /\ v.tar.held = ReleaseIncoming(UlpRequest(v.type))
        /\ "targetRsn" \in v.letGo /\ UlpRequest(v.type) \in v.received
    BY <1>1, <1>6
       DEF Sound, OwnPackets, Initiated, Served, Ends, AtUlp, SolicitedInitiated,
           SolicitedServed, DataSent, GrantSent
  <2>2. /\ u \in Metadata /\ u.held = NoCredits
        /\ u.state = IF v.type = "kPull" THEN "kPullReqAckUlpRx" ELSE "erased"
    BY <1>1, <1>6, <2>1, AckedByUlp
       DEF u
  <2>3. /\ w \in Views /\ w.type = v.type /\ w.phase = v.phase /\ w.ini = v.ini /\ w.tar = u
        /\ w.toSend = v.toSend /\ w.unacked = v.unacked /\ w.network = v.network
        /\ w.received = v.received /\ w.ackable = v.ackable \cup {UlpRequest(v.type)}
        /\ w.ulp = (v.ulp \ {UlpRequest(v.type)})
                       \cup (IF v.type = "kPull" THEN {"kPullData"} ELSE {})
        /\ w.timer = v.timer /\ w.arrived = v.arrived /\ w.letGo = v.letGo
        /\ w.atIni = v.atIni /\ w.atTar = v.atTar
    BY <1>3, <2>2
  <2>4. OwnPackets(w)
    BY <1>1, <1>6, <2>1, <2>2, <2>3
       DEF Sound, OwnPackets, Lanes, PacketTypes, PushData, UlpRequest,
           RdmaOpcodeToPacketType
  <2>5. Ends(w)
    BY <1>1, <1>6, <2>1, <2>2, <2>3
       DEF Sound, Initiated, Ends, Absent, Completing, Answer
  <2>6. SolicitedInitiated(w)
    BY <1>1, <1>6, <2>1, <2>2, <2>3
       DEF Sound, Initiated, SolicitedInitiated, Absent, Completing, UlpRequest,
           RdmaOpcodeToPacketType, DataSent
  <2>7. AtUlp(w)
    BY <1>1, <1>6, <2>1, <2>2, <2>3
       DEF Sound, Served, AtUlp, Absent, UlpRequest, RdmaOpcodeToPacketType, UlpRequest,
           RdmaOpcodeToPacketType, Ready, Taken, Refused, After
  <2>8. SolicitedServed(w)
    BY <1>1, <1>6, <2>1, <2>2, <2>3
       DEF Sound, Served, SolicitedServed, UlpRequest, RdmaOpcodeToPacketType,
           GrantSent, Ready, Taken, Refused, After
  <2> QED
    BY <1>2, <1>1, <1>6, <2>1, <2>2, <2>3, <2>4, <2>5, <2>6, <2>7, <2>8
       DEF Sound, Initiated, Served
<1> QED
  BY <1>1, <1>4, <1>5, <1>6 DEF Types

\* HandleNackFromUlp.
UlpNackV(v) ==
  LET request == UlpRequest(v.type)
  IN [v EXCEPT !.tar = IF @.context \notin @.packets THEN Failed(@)
                       ELSE UpdateState(@, request, "UlpRnrRx"),
               !.ulp = @ \ {request}, !.timer = "armed"]

LEMMA UlpNacked ==
  ASSUME NEW v, Sound(v), UlpRequest(v.type) \in v.ulp
  PROVE  Sound(UlpNackV(v))
<1> DEFINE request == UlpRequest(v.type)
           u == IF v.tar.context \notin v.tar.packets THEN Failed(v.tar)
                ELSE UpdateState(v.tar, request, "UlpRnrRx")
           w == [v EXCEPT !.tar = u, !.ulp = @ \ {request}, !.timer = "armed"]
<1>1. v \in Views /\ v.type \in Types /\ v.ini \in Metadata /\ v.tar \in Metadata
  BY DEF Sound, Views
<1>2. UlpNackV(v) = w
  BY DEF UlpNackV
<1> HIDE DEF w, u
<1>3. ASSUME u \in Metadata
      PROVE  /\ w \in Views /\ w.type = v.type /\ w.phase = v.phase /\ w.ini = v.ini
             /\ w.tar = u /\ w.toSend = v.toSend /\ w.unacked = v.unacked
             /\ w.network = v.network /\ w.received = v.received /\ w.ackable = v.ackable
             /\ w.ulp = v.ulp \ {UlpRequest(v.type)} /\ w.timer = "armed"
             /\ w.arrived = v.arrived /\ w.letGo = v.letGo /\ w.atIni = v.atIni
             /\ w.atTar = v.atTar
  <2>1. UlpRequest(v.type) \in AllPacketTypes /\ "kPullData" \in AllPacketTypes
    BY <1>1 DEF AllPacketTypes, UlpRequest, RdmaOpcodeToPacketType, Types
  <2>2. /\ v.ulp \ {UlpRequest(v.type)} \in SUBSET AllPacketTypes
    BY <1>1, <2>1 DEF Views
  <2> QED
    BY <1>1, <1>3, <2>2 DEF w, Views
<1>4. CASE v.type = "kPull"
  <2>1. /\ v.tar.state = Taken(v.type) /\ Unfreed(v.tar, UlpRequest(v.type))
        /\ v.tar.context = UlpRequest(v.type)
        /\ v.tar.held = ReleaseIncoming(UlpRequest(v.type))
        /\ "targetRsn" \in v.letGo /\ UlpRequest(v.type) \notin v.atTar
    BY <1>1, <1>4
       DEF Sound, OwnPackets, Initiated, Served, Ends, AtUlp, PullInitiated, PullServed,
           Ready, Taken, Refused
  <2>2. /\ u \in Metadata /\ u.state = Refused(v.type) /\ Unfreed(u, UlpRequest(v.type))
        /\ u.context = UlpRequest(v.type)
        /\ u.held = ReleaseIncoming(UlpRequest(v.type))
    BY <1>1, <1>4, <2>1, NackedByUlp
       DEF u, SamePackets, SameContext, SameCredits, Unfreed
  <2>3. /\ w \in Views /\ w.type = v.type /\ w.phase = v.phase /\ w.ini = v.ini /\ w.tar = u
        /\ w.toSend = v.toSend /\ w.unacked = v.unacked /\ w.network = v.network
        /\ w.received = v.received /\ w.ackable = v.ackable
        /\ w.ulp = v.ulp \ {UlpRequest(v.type)} /\ w.timer = "armed"
        /\ w.arrived = v.arrived /\ w.letGo = v.letGo /\ w.atIni = v.atIni
        /\ w.atTar = v.atTar
    BY <1>3, <2>2
  <2>4. OwnPackets(w)
    BY <1>1, <1>4, <2>1, <2>2, <2>3
       DEF Sound, OwnPackets, Lanes, PacketTypes, PushData, UlpRequest,
           RdmaOpcodeToPacketType
  <2>5. Ends(w)
    BY <1>1, <1>4, <2>1, <2>2, <2>3
       DEF Sound, Initiated, Ends, Absent, Completing, Answer
  <2>6. PullInitiated(w)
    BY <1>1, <1>4, <2>1, <2>2, <2>3
       DEF Sound, Initiated, PullInitiated, Absent, Completing, UlpRequest,
           RdmaOpcodeToPacketType
  <2>7. AtUlp(w)
    BY <1>1, <1>4, <2>1, <2>2, <2>3
       DEF Sound, Served, AtUlp, Absent, UlpRequest, RdmaOpcodeToPacketType, UlpRequest,
           RdmaOpcodeToPacketType, Ready, Taken, Refused, After
  <2>8. PullServed(w)
    BY <1>1, <1>4, <2>1, <2>2, <2>3
       DEF Sound, Served, PullServed, UlpRequest, RdmaOpcodeToPacketType, Ready, Taken,
           Refused, After
  <2> QED
    BY <1>2, <1>1, <1>4, <2>1, <2>2, <2>3, <2>4, <2>5, <2>6, <2>7, <2>8
       DEF Sound, Initiated, Served
<1>5. CASE v.type = "kPushUnsolicited"
  <2>1. /\ v.tar.state = Taken(v.type) /\ Unfreed(v.tar, UlpRequest(v.type))
        /\ v.tar.context = UlpRequest(v.type)
        /\ v.tar.held = ReleaseIncoming(UlpRequest(v.type))
        /\ "targetRsn" \in v.letGo /\ UlpRequest(v.type) \notin v.atTar
    BY <1>1, <1>5
       DEF Sound, OwnPackets, Initiated, Served, Ends, AtUlp, UnsolicitedInitiated,
           UnsolicitedServed, Ready, Taken, Refused
  <2>2. /\ u \in Metadata /\ u.state = Refused(v.type) /\ Unfreed(u, UlpRequest(v.type))
        /\ u.context = UlpRequest(v.type)
        /\ u.held = ReleaseIncoming(UlpRequest(v.type))
    BY <1>1, <1>5, <2>1, NackedByUlp
       DEF u, SamePackets, SameContext, SameCredits, Unfreed
  <2>3. /\ w \in Views /\ w.type = v.type /\ w.phase = v.phase /\ w.ini = v.ini /\ w.tar = u
        /\ w.toSend = v.toSend /\ w.unacked = v.unacked /\ w.network = v.network
        /\ w.received = v.received /\ w.ackable = v.ackable
        /\ w.ulp = v.ulp \ {UlpRequest(v.type)} /\ w.timer = "armed"
        /\ w.arrived = v.arrived /\ w.letGo = v.letGo /\ w.atIni = v.atIni
        /\ w.atTar = v.atTar
    BY <1>3, <2>2
  <2>4. OwnPackets(w)
    BY <1>1, <1>5, <2>1, <2>2, <2>3
       DEF Sound, OwnPackets, Lanes, PacketTypes, PushData, UlpRequest,
           RdmaOpcodeToPacketType
  <2>5. Ends(w)
    BY <1>1, <1>5, <2>1, <2>2, <2>3
       DEF Sound, Initiated, Ends, Absent, Completing, Answer
  <2>6. UnsolicitedInitiated(w)
    BY <1>1, <1>5, <2>1, <2>2, <2>3
       DEF Sound, Initiated, UnsolicitedInitiated, Absent, Completing, UlpRequest,
           RdmaOpcodeToPacketType
  <2>7. AtUlp(w)
    BY <1>1, <1>5, <2>1, <2>2, <2>3
       DEF Sound, Served, AtUlp, Absent, UlpRequest, RdmaOpcodeToPacketType, UlpRequest,
           RdmaOpcodeToPacketType, Ready, Taken, Refused, After
  <2>8. UnsolicitedServed(w)
    BY <1>1, <1>5, <2>1, <2>2, <2>3
       DEF Sound, Served, UnsolicitedServed, UlpRequest, RdmaOpcodeToPacketType, Ready,
           Taken, Refused, After
  <2> QED
    BY <1>2, <1>1, <1>5, <2>1, <2>2, <2>3, <2>4, <2>5, <2>6, <2>7, <2>8
       DEF Sound, Initiated, Served
<1>6. CASE v.type = "kPushSolicited"
  <2>1. /\ v.tar.state = Taken(v.type) /\ Unfreed(v.tar, UlpRequest(v.type))
        /\ v.tar.context = UlpRequest(v.type)
        /\ v.tar.held = ReleaseIncoming(UlpRequest(v.type))
        /\ "targetRsn" \in v.letGo /\ UlpRequest(v.type) \notin v.atTar
    BY <1>1, <1>6
       DEF Sound, OwnPackets, Initiated, Served, Ends, AtUlp, SolicitedInitiated,
           SolicitedServed, Ready, Taken, Refused, DataSent, GrantSent
  <2>2. /\ u \in Metadata /\ u.state = Refused(v.type) /\ Unfreed(u, UlpRequest(v.type))
        /\ u.context = UlpRequest(v.type)
        /\ u.held = ReleaseIncoming(UlpRequest(v.type))
    BY <1>1, <1>6, <2>1, NackedByUlp
       DEF u, SamePackets, SameContext, SameCredits, Unfreed
  <2>3. /\ w \in Views /\ w.type = v.type /\ w.phase = v.phase /\ w.ini = v.ini /\ w.tar = u
        /\ w.toSend = v.toSend /\ w.unacked = v.unacked /\ w.network = v.network
        /\ w.received = v.received /\ w.ackable = v.ackable
        /\ w.ulp = v.ulp \ {UlpRequest(v.type)} /\ w.timer = "armed"
        /\ w.arrived = v.arrived /\ w.letGo = v.letGo /\ w.atIni = v.atIni
        /\ w.atTar = v.atTar
    BY <1>3, <2>2
  <2>4. OwnPackets(w)
    BY <1>1, <1>6, <2>1, <2>2, <2>3
       DEF Sound, OwnPackets, Lanes, PacketTypes, PushData, UlpRequest,
           RdmaOpcodeToPacketType
  <2>5. Ends(w)
    BY <1>1, <1>6, <2>1, <2>2, <2>3
       DEF Sound, Initiated, Ends, Absent, Completing, Answer
  <2>6. SolicitedInitiated(w)
    BY <1>1, <1>6, <2>1, <2>2, <2>3
       DEF Sound, Initiated, SolicitedInitiated, Absent, Completing, UlpRequest,
           RdmaOpcodeToPacketType, DataSent
  <2>7. AtUlp(w)
    BY <1>1, <1>6, <2>1, <2>2, <2>3
       DEF Sound, Served, AtUlp, Absent, UlpRequest, RdmaOpcodeToPacketType, UlpRequest,
           RdmaOpcodeToPacketType, Ready, Taken, Refused, After
  <2>8. SolicitedServed(w)
    BY <1>1, <1>6, <2>1, <2>2, <2>3
       DEF Sound, Served, SolicitedServed, UlpRequest, RdmaOpcodeToPacketType,
           GrantSent, Ready, Taken, Refused, After
  <2> QED
    BY <1>2, <1>1, <1>6, <2>1, <2>2, <2>3, <2>4, <2>5, <2>6, <2>7, <2>8
       DEF Sound, Initiated, Served
<1> QED
  BY <1>1, <1>4, <1>5, <1>6 DEF Types
-----------------------------------------------------------------------------
(* A retry, and what the reorder engine lets go. *)

LEMMA RequestRetried ==
  ASSUME NEW v, Sound(v), v.timer = "armed"
  PROVE  Sound([v EXCEPT !.timer = "off", !.atTar = @ \cup {UlpRequest(v.type)}])
<1> DEFINE w == [v EXCEPT !.timer = "off", !.atTar = @ \cup {UlpRequest(v.type)}]
<1>1. v \in Views /\ v.type \in Types
  BY DEF Sound, Views
<1>2. UlpRequest(v.type) \in AllPacketTypes
  BY <1>1 DEF Types, UlpRequest, RdmaOpcodeToPacketType, AllPacketTypes
<1>3. /\ w \in Views /\ w.type = v.type /\ w.phase = v.phase /\ w.ini = v.ini
      /\ w.tar = v.tar /\ w.toSend = v.toSend /\ w.unacked = v.unacked
      /\ w.network = v.network /\ w.received = v.received /\ w.ackable = v.ackable
      /\ w.ulp = v.ulp /\ w.timer = "off" /\ w.arrived = v.arrived /\ w.letGo = v.letGo
      /\ w.atIni = v.atIni /\ w.atTar = v.atTar \cup {UlpRequest(v.type)}
  BY <1>1, <1>2 DEF Views
<1> SUFFICES Sound(w)
  OBVIOUS
<1> HIDE DEF w
<1>4. OwnPackets(w)
  BY <1>3 DEF Sound, OwnPackets
<1>5. Initiated(w)
  BY <1>3 DEF Sound, Initiated, Ends, PullInitiated, UnsolicitedInitiated, SolicitedInitiated
<1>6. v.tar.state = Refused(v.type) /\ "targetRsn" \in v.letGo
  BY DEF Sound, Served, AtUlp
<1>7. AtUlp(w)
  BY <1>3, <1>6 DEF Sound, Served, AtUlp
<1>8. Served(w)
  BY <1>3, <1>7 DEF Sound, Served, PullServed, UnsolicitedServed, SolicitedServed
<1> QED
  BY <1>3, <1>4, <1>5, <1>8 DEF Sound

\* w is v after the engine has let packets of the transaction go.
LetThrough(v, w) ==
  /\ w \in Views /\ w.type = v.type /\ w.phase = v.phase /\ w.ini = v.ini /\ w.tar = v.tar
  /\ w.unacked = v.unacked /\ w.network = v.network /\ w.received = v.received
  /\ w.ackable = v.ackable /\ w.ulp = v.ulp /\ w.timer = v.timer /\ w.arrived = v.arrived
  /\ v.letGo \subseteq w.letGo /\ w.letGo \subseteq v.arrived
  /\ \A type \in w.toSend \ v.toSend :
       \/ type = "kPushSolicitedData" /\ "initiatorSsn" \in w.letGo \ v.letGo
       \/ type = "kPushGrant" /\ "targetSsn" \in w.letGo \ v.letGo
  /\ \A type \in w.atIni \ v.atIni :
       type = Answer(v.type) /\ "initiatorRsn" \in w.letGo \ v.letGo
  /\ \A type \in w.atTar \ v.atTar :
       type = UlpRequest(v.type) /\ "targetRsn" \in w.letGo \ v.letGo

LEMMA StaysSound ==
  ASSUME NEW v, Sound(v), NEW w, LetThrough(v, w)
  PROVE  Sound(w)
<1>1. v \in Views /\ v.type \in Types
  BY DEF Sound, Views
<1>2. "kPushSolicitedData" \in w.toSend \ v.toSend
        => v.type = "kPushSolicited" /\ v.ini.state = "kPushGrantNtwkRx"
           /\ "initiatorSsn" \in w.letGo
  <2> SUFFICES ASSUME "initiatorSsn" \in w.letGo \ v.letGo
               PROVE  v.type = "kPushSolicited" /\ v.ini.state = "kPushGrantNtwkRx"
    BY DEF LetThrough
  <2>1. "initiatorSsn" \in v.arrived
    BY DEF LetThrough
  <2>2. v.type = "kPushSolicited"
    BY <2>1 DEF Sound, OwnPackets
  <2> QED
    BY <2>1, <2>2 DEF Sound, Initiated, SolicitedInitiated
<1>3. "kPushGrant" \in w.toSend \ v.toSend
        => v.type = "kPushSolicited" /\ v.tar.state = "kPushReqNtwkRx"
           /\ "targetSsn" \in w.letGo
  <2> SUFFICES ASSUME "targetSsn" \in w.letGo \ v.letGo
               PROVE  v.type = "kPushSolicited" /\ v.tar.state = "kPushReqNtwkRx"
    BY DEF LetThrough
  <2>1. "targetSsn" \in v.arrived
    BY DEF LetThrough
  <2>2. v.type = "kPushSolicited"
    BY <2>1 DEF Sound, OwnPackets
  <2> QED
    BY <2>1, <2>2 DEF Sound, Served, SolicitedServed
<1>4. w.toSend \subseteq v.toSend \cup {"kPushSolicitedData", "kPushGrant"}
  BY DEF LetThrough
<1>5. Answer(v.type) \in w.atIni \ v.atIni
        => v.ini.state = Completing(v.type) /\ "initiatorRsn" \in w.letGo
  <2> SUFFICES ASSUME "initiatorRsn" \in w.letGo \ v.letGo
               PROVE  v.ini.state = Completing(v.type)
    BY DEF LetThrough
  <2>1. "initiatorRsn" \in v.arrived
    BY DEF LetThrough
  <2> QED
    BY <2>1 DEF Sound, Initiated, Ends
<1>6. UlpRequest(v.type) \in w.atTar \ v.atTar
        => v.tar.state = Ready(v.type) /\ "targetRsn" \in w.letGo /\ v.timer = "off"
  <2> SUFFICES ASSUME "targetRsn" \in w.letGo \ v.letGo
               PROVE  v.tar.state = Ready(v.type) /\ v.timer = "off"
    BY DEF LetThrough
  <2>1. "targetRsn" \in v.arrived
    BY DEF LetThrough
  <2>2. v.tar.state \notin {Taken(v.type), Refused(v.type)} \cup After(v.type)
    BY DEF Sound, Served, AtUlp
  <2> QED
    BY <1>1, <2>1, <2>2 DEF Sound, Served, AtUlp, Views
<1>7. w.atIni \subseteq v.atIni \cup {Answer(v.type)}
  BY DEF LetThrough
<1>8. w.atTar \subseteq v.atTar \cup {UlpRequest(v.type)}
  BY DEF LetThrough
<1>9. OwnPackets(w)
  <2>1. w.toSend \subseteq PacketTypes(v.type)
    BY <1>2, <1>3, <1>4 DEF Sound, OwnPackets, PacketTypes
  <2> QED
    BY <1>7, <1>8, <2>1 DEF Sound, OwnPackets, LetThrough
<1>10. Ends(w)
  BY <1>5 DEF Sound, Initiated, Ends, LetThrough
<1>11. AtUlp(w)
  BY <1>6 DEF Sound, Served, AtUlp, LetThrough
<1>12. v.type = "kPull" => PullInitiated(w) /\ PullServed(w)
  BY <1>2, <1>3, <1>4 DEF Sound, Initiated, Served, PullInitiated, PullServed, LetThrough
<1>13. v.type = "kPushUnsolicited" => UnsolicitedInitiated(w) /\ UnsolicitedServed(w)
  BY <1>2, <1>3, <1>4 DEF Sound, Initiated, Served, UnsolicitedInitiated, UnsolicitedServed,
                          LetThrough
<1>14. v.type = "kPushSolicited" => SolicitedInitiated(w)
  BY <1>2, <1>3, <1>4 DEF Sound, Initiated, SolicitedInitiated, LetThrough
<1>15. v.type = "kPushSolicited" => SolicitedServed(w)
  BY <1>2, <1>3, <1>4 DEF Sound, Served, SolicitedServed, LetThrough
<1> QED
  BY <1>9, <1>10, <1>11, <1>12, <1>13, <1>14, <1>15 DEF Sound, Initiated, Served, LetThrough
-----------------------------------------------------------------------------
(* The view of a transaction, field by field, before and after a step. *)

LEMMA Typed ==
  ASSUME LifeTypes, NEW r \in WorkRsns
  PROVE  View(r) \in Views
<1>1. work[r] \in Types
  BY DEF LifeTypes, WorkRsns
<1> HIDE DEF WorkRsns
<1>2. /\ transactions["kInitiator"][r] \in Metadata /\ transactions["kTarget"][r] \in Metadata
  BY DEF LifeTypes, Locations
<1> QED
  BY <1>1, <1>2 DEF View, Views, TypesOf, LanesOf

LEMMA TypedNext ==
  ASSUME LifeTypes', NEW r \in WorkRsns'
  PROVE  View(r)' \in Views
<1>1. work'[r] \in Types
  BY DEF LifeTypes, WorkRsns
<1> HIDE DEF WorkRsns
<1>2. /\ transactions'["kInitiator"][r] \in Metadata
      /\ transactions'["kTarget"][r] \in Metadata
  BY DEF LifeTypes, Locations
<1> QED
  BY <1>1, <1>2 DEF View, Views, TypesOf, LanesOf

LEMMA SameView ==
  ASSUME NEW v \in Views, NEW w \in Views, w.type = v.type, w.phase = v.phase,
         w.ini = v.ini, w.tar = v.tar, w.toSend = v.toSend, w.unacked = v.unacked,
         w.network = v.network, w.received = v.received, w.ackable = v.ackable,
         w.ulp = v.ulp, w.timer = v.timer, w.arrived = v.arrived, w.letGo = v.letGo,
         w.atIni = v.atIni, w.atTar = v.atTar
  PROVE  w = v
BY DEF Views

LEMMA OfItsTransaction ==
  ASSUME NEW p \in Packets
  PROVE  /\ p = Packet(p.rsn, p.type) /\ p.rsn \in WorkRsns /\ p.type \in AllPacketTypes
         /\ \A S : p \in S <=> p.type \in TypesOf(S, p.rsn)
BY DEF Packets, Packet, TypesOf

\* h is a host and t what it knows of transaction r after the step.
LEMMA MetaSet ==
  ASSUME LifeTypes, NEW h \in Locations, NEW r \in WorkRsns, NEW t \in Metadata, Set(h, r, t)
  PROVE  /\ transactions' \in [Locations -> [WorkRsns -> Metadata]]
         /\ \A x \in WorkRsns :
              /\ transactions'["kInitiator"][x]
                   = IF x = r /\ h = "kInitiator" THEN t ELSE transactions["kInitiator"][x]
              /\ transactions'["kTarget"][x]
                   = IF x = r /\ h # "kInitiator" THEN t ELSE transactions["kTarget"][x]
BY DEF LifeTypes, Set, Locations

LEMMA OneTransaction ==
  ASSUME LifeIInv, LifeTypes', NEW r, UNCHANGED work,
         Sound(View(r)'), \A x \in WorkRsns : x # r => View(x)' = View(x)
  PROVE  LifeIInv'
<1>1. WorkRsns' = WorkRsns
  BY DEF WorkRsns
<1>2. ASSUME NEW x \in WorkRsns PROVE Sound(View(x)')
  <2>1. CASE x = r
    BY <2>1
  <2>2. CASE x # r
    BY <2>2 DEF LifeIInv
  <2> QED
    BY <2>1, <2>2
<1> QED
  BY <1>1, <1>2 DEF LifeIInv
-----------------------------------------------------------------------------
(* Every action moves the views of its transaction as a step above says.   *)

LEMMA ViewNext ==
  ASSUME NEW r
  PROVE  View(r)' =
           [type |-> work'[r],
            phase |-> IF r <= made' THEN "begun" ELSE "new",
            ini |-> transactions'["kInitiator"][r],
            tar |-> transactions'["kTarget"][r],
            toSend |-> TypesOf(toSend', r),
            unacked |-> TypesOf(unacked', r),
            network |-> TypesOf(network', r),
            received |-> TypesOf(received', r),
            ackable |-> TypesOf(ackable', r),
            ulp |-> TypesOf(ulp', r),
            timer |-> IF r \in waiting' THEN "armed" ELSE "off",
            arrived |-> LanesOf(arrived', r),
            letGo |-> LanesOf(LetGoOf', r),
            atIni |-> TypesOf(Entries(rxQueue'["kInitiator"]), r),
            atTar |-> TypesOf(Entries(rxQueue'["kTarget"]), r)]
BY DEF View, TypesOf, LanesOf, Entries

LEMMA FieldsNow ==
  ASSUME NEW r, NEW v, v = View(r)
  PROVE  /\ v.type = work[r] /\ v.phase = IF r <= made THEN "begun" ELSE "new"
         /\ v.ini = transactions["kInitiator"][r] /\ v.tar = transactions["kTarget"][r]
         /\ v.toSend = TypesOf(toSend, r) /\ v.unacked = TypesOf(unacked, r)
         /\ v.network = TypesOf(network, r) /\ v.received = TypesOf(received, r)
         /\ v.ackable = TypesOf(ackable, r) /\ v.ulp = TypesOf(ulp, r)
         /\ v.timer = IF r \in waiting THEN "armed" ELSE "off"
         /\ v.arrived = LanesOf(arrived, r) /\ v.letGo = LanesOf(LetGoOf, r)
         /\ v.atIni = TypesOf(Entries(rxQueue["kInitiator"]), r)
         /\ v.atTar = TypesOf(Entries(rxQueue["kTarget"]), r)
BY DEF View

LEMMA FieldsNext ==
  ASSUME NEW r, NEW w, w = View(r)'
  PROVE  /\ w.type = work'[r] /\ w.phase = IF r <= made' THEN "begun" ELSE "new"
         /\ w.ini = transactions'["kInitiator"][r] /\ w.tar = transactions'["kTarget"][r]
         /\ w.toSend = TypesOf(toSend', r) /\ w.unacked = TypesOf(unacked', r)
         /\ w.network = TypesOf(network', r) /\ w.received = TypesOf(received', r)
         /\ w.ackable = TypesOf(ackable', r) /\ w.ulp = TypesOf(ulp', r)
         /\ w.timer = IF r \in waiting' THEN "armed" ELSE "off"
         /\ w.arrived = LanesOf(arrived', r) /\ w.letGo = LanesOf(LetGoOf', r)
         /\ w.atIni = TypesOf(Entries(rxQueue'["kInitiator"]), r)
         /\ w.atTar = TypesOf(Entries(rxQueue'["kTarget"]), r)
BY ViewNext

LEMMA BecomesView ==
  ASSUME NEW r \in WorkRsns', LifeTypes', NEW s \in Views,
         work'[r] = s.type, s.phase = IF r <= made' THEN "begun" ELSE "new",
         transactions'["kInitiator"][r] = s.ini, transactions'["kTarget"][r] = s.tar,
         TypesOf(toSend', r) = s.toSend, TypesOf(unacked', r) = s.unacked,
         TypesOf(network', r) = s.network, TypesOf(received', r) = s.received,
         TypesOf(ackable', r) = s.ackable, TypesOf(ulp', r) = s.ulp,
         s.timer = IF r \in waiting' THEN "armed" ELSE "off",
         LanesOf(arrived', r) = s.arrived, LanesOf(LetGoOf', r) = s.letGo,
         TypesOf(Entries(rxQueue'["kInitiator"]), r) = s.atIni,
         TypesOf(Entries(rxQueue'["kTarget"]), r) = s.atTar
  PROVE  View(r)' = s
<1> DEFINE w == View(r)'
<1> SUFFICES w = s
  OBVIOUS
<1>1. w \in Views
  BY TypedNext
<1>2. w = View(r)'
  OBVIOUS
<1> HIDE DEF w
<1> QED
  BY <1>1, <1>2, FieldsNext, SameView

LEMMA KeepsView ==
  ASSUME NEW r, work'[r] = work[r], r <= made' <=> r <= made,
         transactions'["kInitiator"][r] = transactions["kInitiator"][r],
         transactions'["kTarget"][r] = transactions["kTarget"][r],
         TypesOf(toSend', r) = TypesOf(toSend, r), TypesOf(unacked', r) = TypesOf(unacked, r),
         TypesOf(network', r) = TypesOf(network, r),
         TypesOf(received', r) = TypesOf(received, r),
         TypesOf(ackable', r) = TypesOf(ackable, r), TypesOf(ulp', r) = TypesOf(ulp, r),
         r \in waiting' <=> r \in waiting,
         LanesOf(arrived', r) = LanesOf(arrived, r),
         LanesOf(LetGoOf', r) = LanesOf(LetGoOf, r),
         TypesOf(Entries(rxQueue'["kInitiator"]), r) = TypesOf(Entries(rxQueue["kInitiator"]), r),
         TypesOf(Entries(rxQueue'["kTarget"]), r) = TypesOf(Entries(rxQueue["kTarget"]), r)
  PROVE  View(r)' = View(r)
BY ViewNext DEF View

LEMMA TypesKept ==
  ASSUME LifeTypes, UNCHANGED <<work, mode>>, made' \in 0..Len(work),
         transactions' \in [Locations -> [WorkRsns -> Metadata]],
         toSend' \subseteq Packets, unacked' \subseteq Packets, network' \subseteq Packets,
         received' \subseteq Packets, ackable' \subseteq Packets, ulp' \subseteq Packets,
         waiting' \subseteq WorkRsns, arrived' \in [Lanes -> SUBSET WorkRsns],
         QueuesOnce(rxQueue')
  PROVE  LifeTypes'
<1>1. WorkRsns' = WorkRsns
  BY DEF WorkRsns
<1>2. Packets' = Packets
  BY <1>1 DEF Packets
<1>3. QueuesOnce(rxQueue)'
  BY <1>2 DEF QueuesOnce
<1> HIDE DEF Packets
<1> QED
  BY <1>1, <1>2, <1>3 DEF LifeTypes

With(S, e) == S \cup {e}
Without(S, e) == S \ {e}

\* A packet that comes to a set, or goes from it.
LEMMA PacketsKept ==
  ASSUME NEW S, S \subseteq Packets, NEW p \in Packets
  PROVE  With(S, p) \subseteq Packets /\ Without(S, p) \subseteq Packets
BY DEF With, Without

LEMMA PacketAdded ==
  ASSUME NEW S, NEW p \in Packets, NEW x
  PROVE  TypesOf(With(S, p), x)
           = IF x = p.rsn THEN With(TypesOf(S, x), p.type) ELSE TypesOf(S, x)
BY DEF TypesOf, Packet, Packets, With

LEMMA PacketRemoved ==
  ASSUME NEW S, NEW p \in Packets, NEW x
  PROVE  TypesOf(Without(S, p), x)
           = IF x = p.rsn THEN Without(TypesOf(S, x), p.type) ELSE TypesOf(S, x)
BY DEF TypesOf, Packet, Packets, Without

LEMMA TransmissionStep ==
  ASSUME LifeIInv, NEW p \in toSend, TransmitPacket(p)
  PROVE  LifeIInv'
<1> DEFINE r == p.rsn
           type == p.type
           v == View(r)
           host == GetTransactionLocation(type, FALSE)
           t == MetaAt(v, host)
           u == IF type \notin t.packets THEN Failed(t)
                ELSE UpdateState(CreateOrUpdateReceiverPacketContext(t, type, FALSE),
                                  type, "NtwkTx")
           s == SendV(v, type)
<1>1. LifeTypes
  BY DEF LifeIInv
<1>2. /\ p \in Packets /\ r \in WorkRsns /\ type \in AllPacketTypes /\ type \in v.toSend
      /\ v = View(r)
  BY <1>1, OfItsTransaction DEF LifeTypes, View
<1>3. Sound(v) /\ v \in Views /\ Sound(s) /\ s \in Views
  BY <1>2, PacketSent DEF LifeIInv, Sound
<1>4. host \in Locations /\ t = transactions[host][r]
  BY DEF GetTransactionLocation, Locations, MetaAt, View
<1>5. Set(host, r, u)
  BY <1>4 DEF TransmitPacket
<1>6. s = [At(v, host, u) EXCEPT !.toSend = @ \ {type}, !.unacked = @ \cup {type},
                                 !.network = @ \cup {type}]
  BY DEF SendV
<1> HIDE DEF s, u, t
<1>7. /\ s.type = v.type /\ s.phase = v.phase
      /\ s.ini = IF host = "kInitiator" THEN u ELSE v.ini
      /\ s.tar = IF host = "kInitiator" THEN v.tar ELSE u
      /\ s.toSend = Without(v.toSend, type) /\ s.unacked = With(v.unacked, type)
      /\ s.network = With(v.network, type) /\ s.received = v.received
      /\ s.ackable = v.ackable /\ s.ulp = v.ulp /\ s.timer = v.timer
      /\ s.arrived = v.arrived /\ s.letGo = v.letGo /\ s.atIni = v.atIni /\ s.atTar = v.atTar
  BY <1>3, <1>6 DEF At, Views, With, Without
<1>8. u \in Metadata
  BY <1>3, <1>7 DEF Views
<1> HIDE DEF host
<1>9. /\ toSend' = Without(toSend, p) /\ unacked' = With(unacked, p)
      /\ network' = With(network, p)
      /\ UNCHANGED <<work, mode, made, arrived, rxQueue, received, ackable, ulp, waiting>>
  BY DEF TransmitPacket, answerVars, With, Without
<1>10. WorkRsns' = WorkRsns /\ LetGoOf' = LetGoOf
  BY <1>9 DEF WorkRsns, LetGoOf, LetGo, LaneRsns
<1>11. LifeTypes'
  <2>1. transactions' \in [Locations -> [WorkRsns -> Metadata]]
    BY <1>1, <1>2, <1>4, <1>5, <1>8, MetaSet
  <2> QED
    BY <1>1, <1>2, <1>9, <2>1, PacketsKept, TypesKept DEF LifeTypes
<1>12. \A x \in WorkRsns :
         /\ transactions'["kInitiator"][x]
              = IF x = r /\ host = "kInitiator" THEN u ELSE transactions["kInitiator"][x]
         /\ transactions'["kTarget"][x]
              = IF x = r /\ host # "kInitiator" THEN u ELSE transactions["kTarget"][x]
  BY <1>1, <1>2, <1>4, <1>5, <1>8, MetaSet
<1>13. \A x : /\ TypesOf(toSend', x) = IF x = r THEN Without(TypesOf(toSend, x), type)
                                        ELSE TypesOf(toSend, x)
              /\ TypesOf(unacked', x) = IF x = r THEN With(TypesOf(unacked, x), type)
                                         ELSE TypesOf(unacked, x)
              /\ TypesOf(network', x) = IF x = r THEN With(TypesOf(network, x), type)
                                         ELSE TypesOf(network, x)
  BY <1>2, <1>9, PacketAdded, PacketRemoved
<1> HIDE DEF r, type, v
<1>14. View(r)' = s
  BY <1>2, <1>3, <1>7, <1>9, <1>10, <1>11, <1>12, <1>13, FieldsNow, BecomesView
<1>15. \A x \in WorkRsns : x # r => View(x)' = View(x)
  BY <1>9, <1>10, <1>12, <1>13, KeepsView
<1> QED
  BY <1>3, <1>9, <1>11, <1>14, <1>15, OneTransaction

LEMMA RetransmissionStep ==
  ASSUME LifeIInv, NEW p \in unacked, Retransmit(p)
  PROVE  LifeIInv'
<1> DEFINE r == p.rsn
           type == p.type
           v == View(r)
           host == GetTransactionLocation(type, FALSE)
           t == MetaAt(v, host)
           u == CreateOrUpdateReceiverPacketContext(t, type, FALSE)
           s == ResendV(v, type)
<1>1. LifeTypes
  BY DEF LifeIInv
<1>2. /\ p \in Packets /\ r \in WorkRsns /\ type \in AllPacketTypes /\ type \in v.unacked
      /\ v = View(r)
  BY <1>1, OfItsTransaction DEF LifeTypes, View
<1>3. Sound(v) /\ v \in Views /\ Sound(s) /\ s \in Views
  BY <1>2, PacketResent DEF LifeIInv, Sound
<1>4. host \in Locations /\ t = transactions[host][r]
  BY DEF GetTransactionLocation, Locations, MetaAt, View
<1>5. Set(host, r, u)
  BY <1>4 DEF Retransmit
<1>6. s = [At(v, host, u) EXCEPT !.network = @ \cup {type}]
  BY DEF ResendV
<1> HIDE DEF s, u, t
<1>7. /\ s.type = v.type /\ s.phase = v.phase
      /\ s.ini = IF host = "kInitiator" THEN u ELSE v.ini
      /\ s.tar = IF host = "kInitiator" THEN v.tar ELSE u
      /\ s.toSend = v.toSend /\ s.unacked = v.unacked
      /\ s.network = With(v.network, type) /\ s.received = v.received
      /\ s.ackable = v.ackable /\ s.ulp = v.ulp /\ s.timer = v.timer
      /\ s.arrived = v.arrived /\ s.letGo = v.letGo /\ s.atIni = v.atIni /\ s.atTar = v.atTar
  BY <1>3, <1>6 DEF At, Views, With
<1>8. u \in Metadata
  BY <1>3, <1>7 DEF Views
<1> HIDE DEF host
<1>9. /\ network' = With(network, p)
      /\ UNCHANGED <<work, mode, made, toSend, unacked, arrived, rxQueue, received, ackable,
                     ulp, waiting>>
  BY DEF Retransmit, answerVars, queueVars, With
<1>10. WorkRsns' = WorkRsns /\ LetGoOf' = LetGoOf
  BY <1>9 DEF WorkRsns, LetGoOf, LetGo, LaneRsns
<1>11. LifeTypes'
  <2>1. transactions' \in [Locations -> [WorkRsns -> Metadata]]
    BY <1>1, <1>2, <1>4, <1>5, <1>8, MetaSet
  <2> QED
    BY <1>1, <1>2, <1>9, <2>1, PacketsKept, TypesKept DEF LifeTypes
<1>12. \A x \in WorkRsns :
         /\ transactions'["kInitiator"][x]
              = IF x = r /\ host = "kInitiator" THEN u ELSE transactions["kInitiator"][x]
         /\ transactions'["kTarget"][x]
              = IF x = r /\ host # "kInitiator" THEN u ELSE transactions["kTarget"][x]
  BY <1>1, <1>2, <1>4, <1>5, <1>8, MetaSet
<1>13. \A x : TypesOf(network', x) = IF x = r THEN With(TypesOf(network, x), type)
                                     ELSE TypesOf(network, x)
  BY <1>2, <1>9, PacketAdded
<1> HIDE DEF r, type, v
<1>14. View(r)' = s
  BY <1>2, <1>3, <1>7, <1>9, <1>10, <1>11, <1>12, <1>13, FieldsNow, BecomesView
<1>15. \A x \in WorkRsns : x # r => View(x)' = View(x)
  BY <1>9, <1>10, <1>12, <1>13, KeepsView
<1> QED
  BY <1>3, <1>9, <1>11, <1>14, <1>15, OneTransaction

LEMMA LossStep ==
  ASSUME LifeIInv, NEW p \in network, Lose(p)
  PROVE  LifeIInv'
<1> DEFINE r == p.rsn
           type == p.type
           v == View(r)
           s == [v EXCEPT !.network = @ \ {type}]
<1>1. LifeTypes
  BY DEF LifeIInv
<1>2. /\ p \in Packets /\ r \in WorkRsns /\ type \in AllPacketTypes /\ type \in v.network
      /\ v = View(r)
  BY <1>1, OfItsTransaction DEF LifeTypes, View
<1>3. Sound(v) /\ v \in Views /\ Sound(s) /\ s \in Views
  BY <1>2, PacketDropped DEF LifeIInv, Sound
<1>4. s = [v EXCEPT !.network = @ \ {type}]
  OBVIOUS
<1> HIDE DEF s
<1>5. /\ s.type = v.type /\ s.phase = v.phase /\ s.ini = v.ini /\ s.tar = v.tar
      /\ s.toSend = v.toSend /\ s.unacked = v.unacked
      /\ s.network = Without(v.network, type) /\ s.received = v.received
      /\ s.ackable = v.ackable /\ s.ulp = v.ulp /\ s.timer = v.timer
      /\ s.arrived = v.arrived /\ s.letGo = v.letGo /\ s.atIni = v.atIni /\ s.atTar = v.atTar
  BY <1>3, <1>4 DEF Views, Without
<1>6. /\ network' = Without(network, p)
      /\ UNCHANGED <<work, mode, made, transactions, toSend, unacked, arrived, rxQueue,
                     received, ackable, ulp, waiting>>
  BY DEF Lose, answerVars, queueVars, Without
<1>7. WorkRsns' = WorkRsns /\ LetGoOf' = LetGoOf
  BY <1>6 DEF WorkRsns, LetGoOf, LetGo, LaneRsns
<1>8. LifeTypes'
  BY <1>1, <1>2, <1>6, PacketsKept, TypesKept DEF LifeTypes
<1>9. \A x : TypesOf(network', x) = IF x = r THEN Without(TypesOf(network, x), type)
                                    ELSE TypesOf(network, x)
  BY <1>2, <1>6, PacketRemoved
<1> HIDE DEF r, type, v
<1>10. View(r)' = s
  BY <1>2, <1>3, <1>5, <1>6, <1>7, <1>8, <1>9, FieldsNow, BecomesView
<1>11. \A x \in WorkRsns : x # r => View(x)' = View(x)
  BY <1>6, <1>7, <1>9, KeepsView
<1> QED
  BY <1>3, <1>6, <1>8, <1>10, <1>11, OneTransaction

LEMMA InitiationStep ==
  ASSUME LifeIInv, InitiateTransaction
  PROVE  LifeIInv'
<1> SUFFICES ASSUME NEW r, r = made + 1 PROVE LifeIInv'
  OBVIOUS
<1> DEFINE v == View(r)
           first == RdmaOpcodeToPacketType(v.type)
           p == Packet(r, first)
           u == CreateOrUpdateTransactionFromUlp(Reserve(v.ini, ReserveOutgoing(first)), v.type)
           s == BeginV(v)
<1>1. LifeTypes
  BY DEF LifeIInv
<1>2. /\ made \in Nat /\ made' = r /\ r \in WorkRsns /\ r \in 0..Len(work) /\ v = View(r)
      /\ v.phase = "new" /\ v.type = work[r]
  <2>1. Len(work) \in Nat /\ made \in 0..Len(work)
    BY <1>1 DEF LifeTypes
  <2>2. made < Len(work) /\ made' = made + 1
    BY DEF InitiateTransaction
  <2>3. v.phase = (IF r <= made THEN "begun" ELSE "new") /\ v.type = work[r]
    BY DEF View
  <2> QED
    BY <2>1, <2>2, <2>3 DEF WorkRsns
<1>3. Sound(v) /\ v \in Views /\ Sound(s) /\ s \in Views
  BY <1>2, TransactionBegun DEF LifeIInv, Sound
<1>4. Set("kInitiator", r, u)
  BY DEF InitiateTransaction, View
<1>5. s = [v EXCEPT !.phase = "begun", !.ini = u, !.toSend = @ \cup {first}]
  BY DEF BeginV
<1> HIDE DEF s, u
<1>6. /\ s.type = v.type /\ s.phase = "begun" /\ s.ini = u /\ s.tar = v.tar
      /\ s.toSend = With(v.toSend, first) /\ s.unacked = v.unacked
      /\ s.network = v.network /\ s.received = v.received
      /\ s.ackable = v.ackable /\ s.ulp = v.ulp /\ s.timer = v.timer
      /\ s.arrived = v.arrived /\ s.letGo = v.letGo /\ s.atIni = v.atIni /\ s.atTar = v.atTar
  BY <1>3, <1>5 DEF Views, With
<1>7. u \in Metadata
  BY <1>3, <1>6 DEF Views
<1>8. p \in Packets /\ p.rsn = r /\ p.type = first
  <2>1. first \in AllPacketTypes
    BY <1>3 DEF Views, Types, RdmaOpcodeToPacketType, AllPacketTypes
  <2> QED
    BY <1>2, <2>1 DEF Packets, Packet
<1>9. /\ toSend' = With(toSend, p)
      /\ UNCHANGED <<work, mode, unacked, network, arrived, rxQueue, received, ackable,
                     ulp, waiting>>
  BY <1>2 DEF InitiateTransaction, answerVars, netVars, With
<1> HIDE DEF p, first
<1>10. WorkRsns' = WorkRsns /\ LetGoOf' = LetGoOf
  BY <1>9 DEF WorkRsns, LetGoOf, LetGo, LaneRsns
<1>11. LifeTypes'
  <2>1. transactions' \in [Locations -> [WorkRsns -> Metadata]]
    BY <1>1, <1>2, <1>4, <1>7, MetaSet DEF Locations
  <2> QED
    BY <1>1, <1>2, <1>8, <1>9, <2>1, PacketsKept, TypesKept DEF LifeTypes
<1>12. \A x \in WorkRsns :
         /\ transactions'["kInitiator"][x] = IF x = r THEN u ELSE transactions["kInitiator"][x]
         /\ transactions'["kTarget"][x] = transactions["kTarget"][x]
  BY <1>1, <1>2, <1>4, <1>7, MetaSet DEF Locations
<1>13. \A x : TypesOf(toSend', x) = IF x = r THEN With(TypesOf(toSend, x), first)
                                    ELSE TypesOf(toSend, x)
  BY <1>8, <1>9, PacketAdded
<1>14. \A x \in WorkRsns : x # r => (x <= made' <=> x <= made)
  BY <1>2 DEF WorkRsns
<1>15. r <= made'
  BY <1>2
<1> HIDE DEF v
<1>16. View(r)' = s
  BY <1>2, <1>3, <1>6, <1>9, <1>10, <1>11, <1>12, <1>13, <1>15, FieldsNow, BecomesView
<1>17. \A x \in WorkRsns : x # r => View(x)' = View(x)
  BY <1>9, <1>10, <1>12, <1>13, <1>14, KeepsView
<1> QED
  BY <1>3, <1>9, <1>11, <1>16, <1>17, OneTransaction

LEMMA ResponseStep ==
  ASSUME LifeIInv, NEW r \in WorkRsns, InitiatePullData(r)
  PROVE  LifeIInv'
<1> DEFINE v == View(r)
           p == Packet(r, "kPullData")
           u == UpdateState(CreatePacket(Reserve(v.tar, ReserveOutgoing("kPullData")),
                                         "kPullData"), "kPullData", "UlpRx")
           s == RespondV(v)
<1>1. LifeTypes
  BY DEF LifeIInv
<1>2. /\ p \in Packets /\ p.rsn = r /\ p.type = "kPullData" /\ "kPullData" \in v.ulp
      /\ v = View(r)
  BY DEF InitiatePullData, Packets, Packet, AllPacketTypes, View, TypesOf
<1>3. Sound(v) /\ v \in Views /\ Sound(s) /\ s \in Views
  BY <1>2, PullResponded DEF LifeIInv, Sound
<1>4. Set("kTarget", r, u)
  BY DEF InitiatePullData, View
<1>5. s = [v EXCEPT !.tar = u, !.ulp = @ \ {"kPullData"}, !.toSend = @ \cup {"kPullData"}]
  BY DEF RespondV
<1> HIDE DEF s, u
<1>6. /\ s.type = v.type /\ s.phase = v.phase /\ s.ini = v.ini /\ s.tar = u
      /\ s.toSend = With(v.toSend, "kPullData") /\ s.unacked = v.unacked
      /\ s.network = v.network /\ s.received = v.received
      /\ s.ackable = v.ackable /\ s.ulp = Without(v.ulp, "kPullData") /\ s.timer = v.timer
      /\ s.arrived = v.arrived /\ s.letGo = v.letGo /\ s.atIni = v.atIni /\ s.atTar = v.atTar
  BY <1>3, <1>5 DEF Views, With, Without
<1>7. u \in Metadata
  BY <1>3, <1>6 DEF Views
<1>8. /\ toSend' = With(toSend, p) /\ ulp' = Without(ulp, p)
      /\ UNCHANGED <<work, mode, made, unacked, network, arrived, rxQueue, received, ackable,
                     waiting>>
  BY DEF InitiatePullData, netVars, With, Without
<1> HIDE DEF p
<1>9. WorkRsns' = WorkRsns /\ LetGoOf' = LetGoOf
  BY <1>8 DEF WorkRsns, LetGoOf, LetGo, LaneRsns
<1>10. LifeTypes'
  <2>1. transactions' \in [Locations -> [WorkRsns -> Metadata]]
    BY <1>1, <1>4, <1>7, MetaSet DEF Locations
  <2> QED
    BY <1>1, <1>2, <1>8, <2>1, PacketsKept, TypesKept DEF LifeTypes
<1>11. \A x \in WorkRsns :
         /\ transactions'["kInitiator"][x] = transactions["kInitiator"][x]
         /\ transactions'["kTarget"][x] = IF x = r THEN u ELSE transactions["kTarget"][x]
  BY <1>1, <1>4, <1>7, MetaSet DEF Locations
<1>12. \A x : /\ TypesOf(toSend', x) = IF x = r THEN With(TypesOf(toSend, x), "kPullData")
                                       ELSE TypesOf(toSend, x)
              /\ TypesOf(ulp', x) = IF x = r THEN Without(TypesOf(ulp, x), "kPullData")
                                    ELSE TypesOf(ulp, x)
  BY <1>2, <1>8, PacketAdded, PacketRemoved
<1> HIDE DEF v
<1>13. View(r)' = s
  BY <1>2, <1>3, <1>6, <1>8, <1>9, <1>10, <1>11, <1>12, FieldsNow, BecomesView
<1>14. \A x \in WorkRsns : x # r => View(x)' = View(x)
  BY <1>8, <1>9, <1>11, <1>12, KeepsView
<1> QED
  BY <1>3, <1>8, <1>10, <1>13, <1>14, OneTransaction

\* The ULP only has the request of the transaction, or is to respond.
LEMMA OnlyItsRequest ==
  ASSUME NEW v, Sound(v), NEW type \in v.ulp, type # "kPullData"
  PROVE  type = UlpRequest(v.type) /\ (type = "kPullRequest" <=> v.type = "kPull")
<1>1. type \in {UlpRequest(v.type)} \cup {"kPullData"} /\ v.type \in Types
  BY DEF Sound, OwnPackets, Views
<1> QED
  BY <1>1 DEF Types, UlpRequest, RdmaOpcodeToPacketType

LEMMA UlpAckStep ==
  ASSUME LifeIInv, NEW p \in ulp, AckFromUlp(p)
  PROVE  LifeIInv'
<1> DEFINE r == p.rsn
           type == p.type
           v == View(r)
           answer == Packet(r, "kPullData")
           u == AckedFromUlp(ReleaseResources(UpdateState(v.tar, type, "UlpAckRx"),
                                              type, ReleaseIncoming(type)), type)
           left == IF v.type = "kPull" THEN With(Without(ulp, p), answer) ELSE Without(ulp, p)
           s == UlpAckV(v)
<1>1. LifeTypes
  BY DEF LifeIInv
<1>2. /\ p \in Packets /\ r \in WorkRsns /\ type \in AllPacketTypes /\ type \in v.ulp
      /\ v = View(r)
  BY <1>1, OfItsTransaction DEF LifeTypes, View
<1>3. type = UlpRequest(v.type) /\ (type = "kPullRequest" <=> v.type = "kPull")
  BY <1>2, OnlyItsRequest DEF LifeIInv, AckFromUlp
<1>4. Sound(v) /\ v \in Views /\ Sound(s) /\ s \in Views
  BY <1>2, <1>3, UlpAcked DEF LifeIInv, Sound
<1>5. Set("kTarget", r, u)
  BY DEF AckFromUlp, View
<1>6. s = [v EXCEPT !.tar = u,
                    !.ulp = (@ \ {type}) \cup (IF v.type = "kPull" THEN {"kPullData"} ELSE {}),
                    !.ackable = @ \cup {type}]
  BY <1>3 DEF UlpAckV
<1> HIDE DEF s, u
<1>7. /\ s.type = v.type /\ s.phase = v.phase /\ s.ini = v.ini /\ s.tar = u
      /\ s.toSend = v.toSend /\ s.unacked = v.unacked
      /\ s.network = v.network /\ s.received = v.received
      /\ s.ackable = With(v.ackable, type)
      /\ s.ulp = IF v.type = "kPull" THEN With(Without(v.ulp, type), "kPullData")
                 ELSE Without(v.ulp, type)
      /\ s.timer = v.timer /\ s.arrived = v.arrived /\ s.letGo = v.letGo
      /\ s.atIni = v.atIni /\ s.atTar = v.atTar
  BY <1>4, <1>6 DEF Views, With, Without
<1>8. u \in Metadata
  BY <1>4, <1>7 DEF Views
<1>9. answer \in Packets /\ answer.rsn = r /\ answer.type = "kPullData"
  BY <1>2 DEF Packets, Packet, AllPacketTypes
<1>10. /\ ackable' = With(ackable, p) /\ ulp' = left
       /\ UNCHANGED <<work, mode, made, toSend, unacked, network, arrived, rxQueue, received,
                      waiting>>
  <2>1. ulp' = (ulp \ {p}) \cup (IF p.type = "kPullRequest" THEN {answer} ELSE {})
    BY DEF AckFromUlp
  <2> QED
    BY <1>3, <2>1 DEF AckFromUlp, queueVars, With, Without
<1> HIDE DEF answer
<1>11. WorkRsns' = WorkRsns /\ LetGoOf' = LetGoOf
  BY <1>10 DEF WorkRsns, LetGoOf, LetGo, LaneRsns
<1>12. left \subseteq Packets
  BY <1>1, <1>2, <1>9, PacketsKept DEF LifeTypes
<1>13. \A x : TypesOf(left, x) = IF x # r THEN TypesOf(ulp, x)
                                 ELSE IF v.type = "kPull"
                                 THEN With(Without(TypesOf(ulp, x), type), "kPullData")
                                 ELSE Without(TypesOf(ulp, x), type)
  BY <1>2, <1>9, PacketAdded, PacketRemoved
<1> HIDE DEF left
<1>14. LifeTypes'
  <2>1. transactions' \in [Locations -> [WorkRsns -> Metadata]]
    BY <1>1, <1>2, <1>5, <1>8, MetaSet DEF Locations
  <2> QED
    BY <1>1, <1>2, <1>10, <1>12, <2>1, PacketsKept, TypesKept DEF LifeTypes
<1>15. \A x \in WorkRsns :
         /\ transactions'["kInitiator"][x] = transactions["kInitiator"][x]
         /\ transactions'["kTarget"][x] = IF x = r THEN u ELSE transactions["kTarget"][x]
  BY <1>1, <1>2, <1>5, <1>8, MetaSet DEF Locations
<1>16. \A x : TypesOf(ackable', x) = IF x = r THEN With(TypesOf(ackable, x), type)
                                     ELSE TypesOf(ackable, x)
  BY <1>2, <1>10, PacketAdded
<1> HIDE DEF r, type, v
<1>17. View(r)' = s
  BY <1>2, <1>4, <1>7, <1>10, <1>11, <1>13, <1>14, <1>15, <1>16, FieldsNow, BecomesView
<1>18. \A x \in WorkRsns : x # r => View(x)' = View(x)
  BY <1>10, <1>11, <1>13, <1>15, <1>16, KeepsView
<1> QED
  BY <1>4, <1>10, <1>14, <1>17, <1>18, OneTransaction

LEMMA UlpNackStep ==
  ASSUME LifeIInv, NEW p \in ulp, HandleNackFromUlp(p)
  PROVE  LifeIInv'
<1> DEFINE r == p.rsn
           type == p.type
           v == View(r)
           u == IF v.tar.context \notin v.tar.packets THEN Failed(v.tar)
                ELSE UpdateState(v.tar, type, "UlpRnrRx")
           s == UlpNackV(v)
<1>1. LifeTypes
  BY DEF LifeIInv
<1>2. /\ p \in Packets /\ r \in WorkRsns /\ type \in AllPacketTypes /\ type \in v.ulp
      /\ v = View(r)
  BY <1>1, OfItsTransaction DEF LifeTypes, View
<1>3. type = UlpRequest(v.type)
  BY <1>2, OnlyItsRequest DEF LifeIInv, HandleNackFromUlp
<1>4. Sound(v) /\ v \in Views /\ Sound(s) /\ s \in Views
  BY <1>2, <1>3, UlpNacked DEF LifeIInv, Sound
<1>5. Set("kTarget", r, u)
  BY DEF HandleNackFromUlp, View
<1>6. s = [v EXCEPT !.tar = u, !.ulp = @ \ {type}, !.timer = "armed"]
  BY <1>3 DEF UlpNackV
<1> HIDE DEF s, u
<1>7. /\ s.type = v.type /\ s.phase = v.phase /\ s.ini = v.ini /\ s.tar = u
      /\ s.toSend = v.toSend /\ s.unacked = v.unacked
      /\ s.network = v.network /\ s.received = v.received
      /\ s.ackable = v.ackable /\ s.ulp = Without(v.ulp, type) /\ s.timer = "armed"
      /\ s.arrived = v.arrived /\ s.letGo = v.letGo /\ s.atIni = v.atIni /\ s.atTar = v.atTar
  BY <1>4, <1>6 DEF Views, Without
<1>8. u \in Metadata
  BY <1>4, <1>7 DEF Views
<1>9. /\ ulp' = Without(ulp, p) /\ waiting' = With(waiting, r)
      /\ UNCHANGED <<work, mode, made, toSend, unacked, network, arrived, rxQueue, received,
                     ackable>>
  BY DEF HandleNackFromUlp, queueVars, netVars, With, Without
<1>10. WorkRsns' = WorkRsns /\ LetGoOf' = LetGoOf
  BY <1>9 DEF WorkRsns, LetGoOf, LetGo, LaneRsns
<1>11. LifeTypes'
  <2>1. transactions' \in [Locations -> [WorkRsns -> Metadata]]
    BY <1>1, <1>2, <1>5, <1>8, MetaSet DEF Locations
  <2>2. With(waiting, r) \subseteq WorkRsns
    BY <1>1, <1>2 DEF LifeTypes, With
  <2> QED
    BY <1>1, <1>2, <1>9, <2>1, <2>2, PacketsKept, TypesKept DEF LifeTypes
<1>12. \A x \in WorkRsns :
         /\ transactions'["kInitiator"][x] = transactions["kInitiator"][x]
         /\ transactions'["kTarget"][x] = IF x = r THEN u ELSE transactions["kTarget"][x]
  BY <1>1, <1>2, <1>5, <1>8, MetaSet DEF Locations
<1>13. \A x : TypesOf(ulp', x) = IF x = r THEN Without(TypesOf(ulp, x), type)
                                 ELSE TypesOf(ulp, x)
  BY <1>2, <1>9, PacketRemoved
<1>14. r \in waiting' /\ \A x : x # r => (x \in waiting' <=> x \in waiting)
  BY <1>9 DEF With
<1> HIDE DEF r, type, v
<1>15. View(r)' = s
  BY <1>2, <1>4, <1>7, <1>9, <1>10, <1>11, <1>12, <1>13, <1>14, FieldsNow, BecomesView
<1>16. \A x \in WorkRsns : x # r => View(x)' = View(x)
  BY <1>9, <1>10, <1>12, <1>13, <1>14, KeepsView
<1> QED
  BY <1>4, <1>9, <1>11, <1>15, <1>16, OneTransaction
-----------------------------------------------------------------------------
(* The queues of the RX scheduler.                                         *)

Once(q) == \A j, k \in 1..Len(q) : q[j] = q[k] => j = k

LEMMA HeadTaken ==
  ASSUME NEW S, NEW q \in Seq(S), q # <<>>, Once(q)
  PROVE  /\ Head(q) \in S /\ Head(q) \in Entries(q) /\ Tail(q) \in Seq(S) /\ Once(Tail(q))
         /\ Entries(Tail(q)) = Without(Entries(q), Head(q))
<1>1. /\ Len(q) \in Nat /\ Len(q) > 0 /\ Head(q) = q[1] /\ q[1] \in S
      /\ Tail(q) \in Seq(S) /\ Len(Tail(q)) = Len(q) - 1
      /\ \A k \in 1..Len(Tail(q)) : Tail(q)[k] = q[k + 1]
  OBVIOUS
<1>2. Head(q) \in Entries(q)
  BY <1>1 DEF Entries
<1>3. Once(Tail(q))
  BY <1>1 DEF Once
<1>4. ASSUME NEW e \in Entries(Tail(q)) PROVE e \in Without(Entries(q), Head(q))
  <2>1. PICK k \in 1..Len(Tail(q)) : e = Tail(q)[k]
    BY DEF Entries
  <2>2. k + 1 \in 1..Len(q) /\ e = q[k + 1] /\ k + 1 # 1
    BY <1>1, <2>1
  <2> QED
    BY <1>1, <2>2 DEF Entries, Without, Once
<1>5. ASSUME NEW e \in Without(Entries(q), Head(q)) PROVE e \in Entries(Tail(q))
  <2>1. PICK k \in 1..Len(q) : e = q[k]
    BY DEF Entries, Without
  <2>2. k # 1
    BY <1>1, <2>1 DEF Without
  <2>3. k - 1 \in 1..Len(Tail(q)) /\ Tail(q)[k - 1] = q[k]
    BY <1>1, <2>2
  <2> QED
    BY <2>1, <2>3 DEF Entries
<1> QED
  BY <1>1, <1>2, <1>3, <1>4, <1>5

LEMMA OneAppended ==
  ASSUME NEW S, NEW q \in Seq(S), NEW e \in S, e \notin Entries(q), Once(q)
  PROVE  /\ Append(q, e) \in Seq(S) /\ Once(Append(q, e))
         /\ Entries(Append(q, e)) = With(Entries(q), e)
<1>1. /\ Len(q) \in Nat /\ Append(q, e) \in Seq(S) /\ Len(Append(q, e)) = Len(q) + 1
      /\ Append(q, e)[Len(q) + 1] = e
      /\ \A k \in 1..Len(q) : Append(q, e)[k] = q[k]
  OBVIOUS
<1>2. \A k \in 1..Len(q) : q[k] # e
  BY DEF Entries
<1>3. Once(Append(q, e))
  BY <1>1, <1>2 DEF Once
<1>4. ASSUME NEW x \in Entries(Append(q, e)) PROVE x \in With(Entries(q), e)
  <2>1. PICK k \in 1..(Len(q) + 1) : x = Append(q, e)[k]
    BY <1>1 DEF Entries
  <2> QED
    BY <1>1, <2>1 DEF Entries, With
<1>5. ASSUME NEW x \in With(Entries(q), e) PROVE x \in Entries(Append(q, e))
  <2>1. CASE x = e
    BY <1>1, <2>1 DEF Entries
  <2>2. CASE x \in Entries(q)
    <3>1. PICK k \in 1..Len(q) : x = q[k]
      BY <2>2 DEF Entries
    <3> QED
      BY <1>1, <3>1 DEF Entries
  <2> QED
    BY <2>1, <2>2 DEF With
<1> QED
  BY <1>1, <1>3, <1>4, <1>5

\* Only the queue of h changes, to q.
LEMMA QueueSet ==
  ASSUME LifeTypes, NEW h \in Locations, NEW q \in Seq(Packets), Once(q),
         rxQueue' = [rxQueue EXCEPT ![h] = q]
  PROVE  /\ QueuesOnce(rxQueue')
         /\ rxQueue'["kInitiator"] = IF h = "kInitiator" THEN q ELSE rxQueue["kInitiator"]
         /\ rxQueue'["kTarget"] = IF h = "kInitiator" THEN rxQueue["kTarget"] ELSE q
BY DEF LifeTypes, QueuesOnce, Once, Locations

LEMMA QueueNow ==
  ASSUME LifeTypes, NEW h \in Locations
  PROVE  rxQueue[h] \in Seq(Packets) /\ Once(rxQueue[h])
BY DEF LifeTypes, QueuesOnce, Once

LEMMA DeliveryStep ==
  ASSUME LifeIInv, NEW host \in Locations, DeliverToUlp(host)
  PROVE  LifeIInv'
<1> SUFFICES ASSUME NEW p, p = Head(rxQueue[host]) PROVE LifeIInv'
  OBVIOUS
<1> DEFINE r == p.rsn
           type == p.type
           v == View(r)
           rest == Tail(rxQueue[host])
           t == IF host = "kInitiator" THEN v.ini ELSE v.tar
           u == IF type = "kAck" THEN Complete(t, work[r]) ELSE ForwardToUlp(t, type)
           s == IF host = "kInitiator" THEN TellInitiatorV(v) ELSE TellTargetV(v)
<1>1. LifeTypes
  BY DEF LifeIInv
<1>2. /\ p \in Packets /\ p \in Entries(rxQueue[host])
      /\ rest \in Seq(Packets) /\ Once(rest)
      /\ Entries(rest) = Without(Entries(rxQueue[host]), p)
  <2>1. rxQueue[host] \in Seq(Packets) /\ Once(rxQueue[host])
    BY <1>1, QueueNow
  <2>2. rxQueue[host] # <<>>
    BY DEF DeliverToUlp
  <2> QED
    BY <2>1, <2>2, HeadTaken
<1>3. /\ r \in WorkRsns /\ type \in AllPacketTypes /\ v = View(r) /\ v.type = work[r]
      /\ host = "kInitiator" => type \in v.atIni
      /\ host # "kInitiator" => type \in v.atTar
  <2>1. type \in TypesOf(Entries(rxQueue[host]), r) /\ r \in WorkRsns /\ type \in AllPacketTypes
    BY <1>2, OfItsTransaction
  <2> QED
    BY <2>1 DEF View, Locations
<1>4. Sound(v) /\ v \in Views
  BY <1>3 DEF LifeIInv, Sound
<1>5. type = IF host = "kInitiator" THEN Answer(v.type) ELSE UlpRequest(v.type)
  BY <1>3, <1>4 DEF Sound, OwnPackets
<1>6. Sound(s) /\ s \in Views
  <2>1. Sound(s)
    BY <1>3, <1>4, <1>5, InitiatorTold, TargetTold
  <2> QED
    BY <2>1 DEF Sound
<1>7. host # "kInitiator" => type # "kAck"
  BY <1>4, <1>5 DEF Views, Types, UlpRequest, RdmaOpcodeToPacketType
<1>8. Set(host, r, u)
  BY DEF DeliverToUlp, View, Locations
<1>9. s = IF host = "kInitiator" THEN [v EXCEPT !.ini = u, !.atIni = @ \ {type}]
          ELSE [v EXCEPT !.tar = u, !.atTar = @ \ {type}, !.ulp = @ \cup {type}]
  BY <1>3, <1>5, <1>7 DEF TellInitiatorV, TellTargetV
<1> HIDE DEF s, u
<1>10. /\ s.type = v.type /\ s.phase = v.phase
       /\ s.ini = IF host = "kInitiator" THEN u ELSE v.ini
       /\ s.tar = IF host = "kInitiator" THEN v.tar ELSE u
       /\ s.toSend = v.toSend /\ s.unacked = v.unacked
       /\ s.network = v.network /\ s.received = v.received /\ s.ackable = v.ackable
       /\ s.ulp = IF host = "kInitiator" THEN v.ulp ELSE With(v.ulp, type)
       /\ s.timer = v.timer /\ s.arrived = v.arrived /\ s.letGo = v.letGo
       /\ s.atIni = IF host = "kInitiator" THEN Without(v.atIni, type) ELSE v.atIni
       /\ s.atTar = IF host = "kInitiator" THEN v.atTar ELSE Without(v.atTar, type)
  <2>1. CASE host = "kInitiator"
    BY <1>4, <1>9, <2>1 DEF Views, Without
  <2>2. CASE host # "kInitiator"
    BY <1>4, <1>9, <2>2 DEF Views, With, Without
  <2> QED
    BY <2>1, <2>2
<1>11. u \in Metadata
  BY <1>6, <1>10 DEF Views
<1>12. /\ rxQueue' = [rxQueue EXCEPT ![host] = rest]
       /\ ulp' = IF host = "kInitiator" THEN ulp ELSE With(ulp, p)
       /\ UNCHANGED <<work, mode, made, toSend, unacked, network, arrived, received, ackable,
                      waiting>>
  BY DEF DeliverToUlp, netVars, With, Locations
<1> HIDE DEF rest
<1>13. WorkRsns' = WorkRsns /\ LetGoOf' = LetGoOf
  BY <1>12 DEF WorkRsns, LetGoOf, LetGo, LaneRsns
<1>14. /\ QueuesOnce(rxQueue')
       /\ rxQueue'["kInitiator"] = IF host = "kInitiator" THEN rest ELSE rxQueue["kInitiator"]
       /\ rxQueue'["kTarget"] = IF host = "kInitiator" THEN rxQueue["kTarget"] ELSE rest
  BY <1>1, <1>2, <1>12, QueueSet
<1>15. LifeTypes'
  <2>1. transactions' \in [Locations -> [WorkRsns -> Metadata]]
    BY <1>1, <1>3, <1>8, <1>11, MetaSet
  <2>2. ulp' \subseteq Packets
    BY <1>1, <1>2, <1>12, PacketsKept DEF LifeTypes
  <2> QED
    BY <1>1, <1>12, <1>14, <2>1, <2>2, TypesKept DEF LifeTypes
<1>16. \A x \in WorkRsns :
         /\ transactions'["kInitiator"][x]
              = IF x = r /\ host = "kInitiator" THEN u ELSE transactions["kInitiator"][x]
         /\ transactions'["kTarget"][x]
              = IF x = r /\ host # "kInitiator" THEN u ELSE transactions["kTarget"][x]
  BY <1>1, <1>3, <1>8, <1>11, MetaSet
<1>17. \A x : /\ TypesOf(With(ulp, p), x) = IF x = r THEN With(TypesOf(ulp, x), type)
                                            ELSE TypesOf(ulp, x)
              /\ TypesOf(Entries(rest), x)
                   = IF x = r THEN Without(TypesOf(Entries(rxQueue[host]), x), type)
                     ELSE TypesOf(Entries(rxQueue[host]), x)
  BY <1>2, PacketAdded, PacketRemoved
<1> HIDE DEF r, type, v, t
<1>18. CASE host = "kInitiator"
  <2>1. View(r)' = s
    BY <1>3, <1>6, <1>10, <1>12, <1>13, <1>14, <1>15, <1>16, <1>17, <1>18, FieldsNow,
       BecomesView
  <2>2. \A x \in WorkRsns : x # r => View(x)' = View(x)
    BY <1>12, <1>13, <1>14, <1>16, <1>17, <1>18, KeepsView
  <2> QED
    BY <1>6, <1>12, <1>15, <2>1, <2>2, OneTransaction
<1>19. CASE host = "kTarget"
  <2>1. View(r)' = s
    BY <1>3, <1>6, <1>10, <1>12, <1>13, <1>14, <1>15, <1>16, <1>17, <1>19, FieldsNow,
       BecomesView
  <2>2. \A x \in WorkRsns : x # r => View(x)' = View(x)
    BY <1>12, <1>13, <1>14, <1>16, <1>17, <1>19, KeepsView
  <2> QED
    BY <1>6, <1>12, <1>15, <2>1, <2>2, OneTransaction
<1> QED
  BY <1>18, <1>19 DEF Locations

\* The packet p has just left the network.
LEMMA RetryStep ==
  ASSUME LifeIInv, NEW p \in Packets, NEW r \in waiting, p.rsn = r, Retry(r),
         network' = Without(network, p), UNCHANGED <<unacked, received, ackable>>
  PROVE  LifeIInv'
<1> DEFINE v == View(r)
           type == UlpRequest(work[r])
           p2 == Packet(r, type)
           longer == Append(rxQueue["kTarget"], p2)
           s1 == [v EXCEPT !.network = @ \ {p.type}]
           s == [s1 EXCEPT !.timer = "off", !.atTar = @ \cup {UlpRequest(s1.type)}]
<1>1. LifeTypes
  BY DEF LifeIInv
<1>2. /\ r \in WorkRsns /\ v = View(r) /\ v.type = work[r] /\ v.timer = "armed"
  BY <1>1 DEF LifeTypes, View
<1>3. Sound(v) /\ v \in Views
  BY <1>2 DEF LifeIInv, Sound
<1>4. Sound(s1) /\ s1 \in Views
  BY <1>3, PacketDropped DEF Sound
<1>5. /\ s1.type = v.type /\ s1.phase = v.phase /\ s1.ini = v.ini /\ s1.tar = v.tar
      /\ s1.toSend = v.toSend /\ s1.unacked = v.unacked
      /\ s1.network = Without(v.network, p.type) /\ s1.received = v.received
      /\ s1.ackable = v.ackable /\ s1.ulp = v.ulp /\ s1.timer = v.timer
      /\ s1.arrived = v.arrived /\ s1.letGo = v.letGo
      /\ s1.atIni = v.atIni /\ s1.atTar = v.atTar
  BY <1>3 DEF Views, Without
<1>6. s = [s1 EXCEPT !.timer = "off", !.atTar = @ \cup {type}]
  BY <1>2, <1>5
<1> HIDE DEF s1
<1>7. Sound(s) /\ s \in Views
  <2>1. Sound(s)
    BY <1>2, <1>4, <1>5, RequestRetried
  <2> QED
    BY <2>1 DEF Sound
<1> HIDE DEF s
<1>8. /\ s.type = v.type /\ s.phase = v.phase /\ s.ini = v.ini /\ s.tar = v.tar
      /\ s.toSend = v.toSend /\ s.unacked = v.unacked
      /\ s.network = Without(v.network, p.type) /\ s.received = v.received
      /\ s.ackable = v.ackable /\ s.ulp = v.ulp /\ s.timer = "off"
      /\ s.arrived = v.arrived /\ s.letGo = v.letGo
      /\ s.atIni = v.atIni /\ s.atTar = With(v.atTar, type)
  BY <1>4, <1>5, <1>6 DEF Views, With
<1>9. type \notin v.atTar
  BY <1>2, <1>3 DEF Sound, Served, AtUlp
<1>10. /\ p2 \in Packets /\ p2.rsn = r /\ p2.type = type
       /\ p2 \notin Entries(rxQueue["kTarget"])
  <2>1. type \in AllPacketTypes
    BY <1>2, <1>3 DEF Views, Types, UlpRequest, RdmaOpcodeToPacketType, AllPacketTypes
  <2>2. p2 \in Packets /\ p2.rsn = r /\ p2.type = type
    BY <1>2, <2>1 DEF Packets, Packet
  <2>3. v.atTar = TypesOf(Entries(rxQueue["kTarget"]), r)
    BY FieldsNow
  <2> QED
    BY <1>9, <2>1, <2>2, <2>3 DEF TypesOf
<1>11. /\ waiting' = Without(waiting, r) /\ rxQueue' = [rxQueue EXCEPT !["kTarget"] = longer]
       /\ UNCHANGED <<work, mode, made, transactions, toSend, arrived, ulp>>
  BY DEF Retry, Without
<1> HIDE DEF p2, type
<1>12. longer \in Seq(Packets) /\ Once(longer)
      /\ Entries(longer) = With(Entries(rxQueue["kTarget"]), p2)
  <2>1. rxQueue["kTarget"] \in Seq(Packets) /\ Once(rxQueue["kTarget"])
    BY <1>1, QueueNow DEF Locations
  <2> QED
    BY <1>10, <2>1, OneAppended
<1> HIDE DEF longer
<1>13. WorkRsns' = WorkRsns /\ LetGoOf' = LetGoOf
  BY <1>11 DEF WorkRsns, LetGoOf, LetGo, LaneRsns
<1>14. /\ QueuesOnce(rxQueue') /\ rxQueue'["kInitiator"] = rxQueue["kInitiator"]
       /\ rxQueue'["kTarget"] = longer
  <2>1. "kTarget" \in Locations /\ "kTarget" # "kInitiator"
    BY DEF Locations
  <2> QED
    BY <1>1, <1>11, <1>12, <2>1, QueueSet
<1>15. LifeTypes'
  <2>1. Without(waiting, r) \subseteq WorkRsns
    BY <1>1 DEF LifeTypes, Without
  <2> QED
    BY <1>1, <1>11, <1>14, <2>1, PacketsKept, TypesKept DEF LifeTypes
<1>16. \A x : /\ TypesOf(network', x) = IF x = r THEN Without(TypesOf(network, x), p.type)
                                        ELSE TypesOf(network, x)
              /\ TypesOf(Entries(longer), x)
                   = IF x = r THEN With(TypesOf(Entries(rxQueue["kTarget"]), x), type)
                     ELSE TypesOf(Entries(rxQueue["kTarget"]), x)
  BY <1>10, <1>12, PacketAdded, PacketRemoved
<1>17. r \notin waiting' /\ \A x : x # r => (x \in waiting' <=> x \in waiting)
  BY <1>11 DEF Without
<1> HIDE DEF v
<1>18. View(r)' = s
  BY <1>2, <1>7, <1>8, <1>11, <1>13, <1>14, <1>15, <1>16, <1>17, FieldsNow, BecomesView
<1>19. \A x \in WorkRsns : x # r => View(x)' = View(x)
  BY <1>11, <1>13, <1>14, <1>16, <1>17, KeepsView
<1> QED
  BY <1>7, <1>11, <1>15, <1>18, <1>19, OneTransaction

LEMMA TimeoutStep ==
  ASSUME LifeIInv, NEW r \in WorkRsns, RnrTimeout(r)
  PROVE  LifeIInv'
<1> DEFINE p == Packet(r, "kAck")
<1>1. p \in Packets /\ p.rsn = r
  BY DEF Packets, Packet, AllPacketTypes
<1>2. network = Without(network, p)
  <2>1. "kAck" \notin View(r).network
    BY DEF LifeIInv, Sound, OwnPackets, PacketTypes, Views, Types
  <2>2. View(r).network = TypesOf(network, r)
    BY FieldsNow
  <2>3. p \notin network
    BY <2>1, <2>2 DEF TypesOf, AllPacketTypes
  <2> QED
    BY <2>3 DEF Without
<1>3. r \in waiting /\ Retry(r) /\ UNCHANGED <<unacked, network, received, ackable>>
  BY DEF RnrTimeout, netVars
<1> HIDE DEF p
<1> QED
  BY <1>1, <1>2, <1>3, RetryStep

LEMMA DuplicateStep ==
  ASSUME LifeIInv, NEW p \in network, HandleDuplicateNackedPacket(p)
  PROVE  LifeIInv'
<1>1. p \in Packets
  BY DEF LifeIInv, LifeTypes
<1>2. network' = Without(network, p) /\ UNCHANGED <<unacked, received, ackable>>
  BY DEF HandleDuplicateNackedPacket, Without
<1>3. CASE p.type \in PushData /\ p.rsn \in waiting
  BY <1>1, <1>2, <1>3, RetryStep DEF HandleDuplicateNackedPacket
<1>4. CASE ~(p.type \in PushData /\ p.rsn \in waiting)
  <2> DEFINE r == p.rsn
             v == View(r)
             s == [v EXCEPT !.network = @ \ {p.type}]
  <2>1. UNCHANGED <<work, mode, made, transactions, toSend, arrived, rxQueue, ulp, waiting>>
    BY <1>4 DEF HandleDuplicateNackedPacket, queueVars, answerVars
  <2>2. r \in WorkRsns /\ Sound(v) /\ v \in Views /\ Sound(s) /\ s \in Views /\ v = View(r)
    BY <1>1, OfItsTransaction, PacketDropped DEF LifeIInv, Sound
  <2>3. /\ s.type = v.type /\ s.phase = v.phase /\ s.ini = v.ini /\ s.tar = v.tar
        /\ s.toSend = v.toSend /\ s.unacked = v.unacked
        /\ s.network = Without(v.network, p.type) /\ s.received = v.received
        /\ s.ackable = v.ackable /\ s.ulp = v.ulp /\ s.timer = v.timer
        /\ s.arrived = v.arrived /\ s.letGo = v.letGo
        /\ s.atIni = v.atIni /\ s.atTar = v.atTar
    BY <2>2 DEF Views, Without
  <2> HIDE DEF s
  <2>4. WorkRsns' = WorkRsns /\ LetGoOf' = LetGoOf
    BY <2>1 DEF WorkRsns, LetGoOf, LetGo, LaneRsns
  <2>5. LifeTypes'
    BY <1>1, <1>2, <2>1, PacketsKept, TypesKept DEF LifeIInv, LifeTypes
  <2>6. \A x : TypesOf(network', x) = IF x = r THEN Without(TypesOf(network, x), p.type)
                                      ELSE TypesOf(network, x)
    BY <1>1, <1>2, PacketRemoved
  <2> HIDE DEF r, v
  <2>7. View(r)' = s
    BY <1>2, <2>1, <2>2, <2>3, <2>4, <2>5, <2>6, FieldsNow, BecomesView
  <2>8. \A x \in WorkRsns : x # r => View(x)' = View(x)
    BY <1>2, <2>1, <2>4, <2>6, KeepsView
  <2> QED
    BY <2>1, <2>2, <2>5, <2>7, <2>8, OneTransaction
<1> QED
  BY <1>3, <1>4
-----------------------------------------------------------------------------
(* What an insertion lets go: in an ordered connection the packet and those *)
(* behind it that had been waiting for it, a run of RSNs.                  *)

LEMMA BothInOrder ==
  ASSUME NEW S, NEW p \in Seq(S), NEW q \in Seq(S), Once(p), Once(q),
         \A e \in Entries(q) : e \notin Entries(p)
  PROVE  /\ p \o q \in Seq(S) /\ Once(p \o q) /\ Entries(p \o q) = Entries(p) \cup Entries(q)
<1> DEFINE s == p \o q
           m == Len(p)
           n == Len(q)
<1>1. /\ m \in Nat /\ n \in Nat /\ s \in Seq(S) /\ Len(s) = m + n
      /\ \A k \in 1..(m + n) : s[k] = IF k <= m THEN p[k] ELSE q[k - m]
  BY ConcatProperties
<1> HIDE DEF s
<1>2. \A j \in 1..m, k \in 1..n : p[j] # q[k]
  BY DEF Entries
<1> HIDE DEF m, n
<1>3. (\A j, k \in 1..m : p[j] = p[k] => j = k) /\ (\A j, k \in 1..n : q[j] = q[k] => j = k)
  BY DEF Once, m, n
<1>4. Entries(p) = {p[k] : k \in 1..m} /\ Entries(q) = {q[k] : k \in 1..n}
      /\ Entries(s) = {s[k] : k \in 1..(m + n)}
  BY <1>1 DEF Entries, m, n
<1>5. ASSUME NEW j \in 1..(m + n), NEW k \in 1..(m + n), s[j] = s[k] PROVE j = k
  <2>1. CASE j <= m /\ k <= m
    BY <1>1, <1>3, <1>5, <2>1
  <2>2. CASE ~(j <= m) /\ ~(k <= m)
    <3>1. j - m \in 1..n /\ k - m \in 1..n /\ q[j - m] = q[k - m]
      BY <1>1, <1>5, <2>2
    <3>2. j - m = k - m
      BY <1>3, <3>1
    <3> QED
      BY <1>1, <3>2
  <2>3. CASE j <= m /\ ~(k <= m)
    <3>1. j \in 1..m /\ k - m \in 1..n /\ p[j] = q[k - m]
      BY <1>1, <1>5, <2>3
    <3> QED
      BY <1>2, <3>1
  <2>4. CASE ~(j <= m) /\ k <= m
    <3>1. k \in 1..m /\ j - m \in 1..n /\ p[k] = q[j - m]
      BY <1>1, <1>5, <2>4
    <3> QED
      BY <1>2, <3>1
  <2> QED
    BY <2>1, <2>2, <2>3, <2>4
<1>6. ASSUME NEW e \in Entries(s) PROVE e \in Entries(p) \cup Entries(q)
  <2>1. PICK k \in 1..(m + n) : e = s[k]
    BY <1>4
  <2>2. CASE k <= m
    BY <1>1, <1>4, <2>1, <2>2
  <2>3. CASE ~(k <= m)
    <3>1. k - m \in 1..n /\ e = q[k - m]
      BY <1>1, <2>1, <2>3
    <3> QED
      BY <1>4, <3>1
  <2> QED
    BY <2>2, <2>3
<1>7. ASSUME NEW e \in Entries(p) PROVE e \in Entries(s)
  BY <1>1, <1>4
<1>8. ASSUME NEW e \in Entries(q) PROVE e \in Entries(s)
  <2>1. PICK k \in 1..n : e = q[k]
    BY <1>4
  <2>2. k + m \in 1..(m + n) /\ s[k + m] = q[k]
    BY <1>1, <2>1
  <2> QED
    BY <1>4, <2>1, <2>2
<1> QED
  BY <1>1, <1>5, <1>6, <1>7, <1>8 DEF Once, s

LEMMA RunsAscend ==
  ASSUME NEW r \in Int, NEW n \in Nat, NEW F, F = r..(r + n - 1), Cardinality(F) = n
  PROVE  /\ Ascending(F) \in [1..n -> F]
         /\ \A j, k \in 1..n : j < k => Ascending(F)[j] < Ascending(F)[k]
<1> DEFINE s == [k \in 1..n |-> r + k - 1]
           In(a) == \A j, k \in DOMAIN a : j < k => a[j] < a[k]
<1>1. s \in [1..n -> F] /\ In(s)
  OBVIOUS
<1>2. Ascending(F) = CHOOSE a \in [1..n -> F] : In(a)
  BY DEF Ascending
<1> HIDE DEF s
<1>3. Ascending(F) \in [1..n -> F] /\ In(Ascending(F))
  <2> HIDE DEF In
  <2> QED
    BY <1>1, <1>2
<1> QED
  BY <1>3

LEMMA LetGoGrows ==
  ASSUME NEW lane, NEW given, NEW r
  PROVE  LetGo(lane, given) \subseteq LetGo(lane, given \cup {r})
BY DEF LetGo

LEMMA OnlyTheGiven ==
  ASSUME NEW lane, NEW given
  PROVE  LetGo(lane, given) \subseteq given
BY DEF LetGo

LEMMA FreedIsARun ==
  ASSUME LifeTypes, NEW r \in WorkRsns, NEW lane \in {"initiatorRsn", "targetRsn"},
         NEW F, F = Freed(r, lane)
  PROVE  /\ IsFiniteSet(F) /\ Cardinality(F) \in Nat /\ F \subseteq WorkRsns
         /\ F = r..(r + Cardinality(F) - 1)
<1> DEFINE given == arrived[lane]
           n == Cardinality(F)
<1>1. /\ given \subseteq WorkRsns /\ LaneRsns(lane) = WorkRsns
      /\ Len(work) \in Nat /\ WorkRsns = 1..Len(work)
  BY DEF LifeTypes, LaneRsns, Lanes, WorkRsns
<1>2. F = LetGo(lane, given \cup {r}) \ LetGo(lane, given)
  BY DEF Freed
<1>3. F \subseteq WorkRsns
  BY <1>1, <1>2 DEF LetGo
<1>4. IsFiniteSet(F) /\ n \in Nat
  <2>1. IsFiniteSet(1..Len(work))
    BY <1>1, FS_Interval
  <2> QED
    BY <1>1, <1>3, <2>1, FS_Subset, FS_CardinalityType
<1>5. CASE F = {}
  BY <1>1, <1>3, <1>4, <1>5, FS_EmptySet
<1>6. CASE mode = "kUnordered" /\ F # {}
  <2>1. F = {r}
    BY <1>2, <1>6 DEF LetGo
  <2>2. n = 1
    BY <2>1, FS_Singleton
  <2>3. r \in Int /\ r..(r + 1 - 1) = {r}
    BY <1>1
  <2> HIDE DEF n
  <2>4. F = r..(r + n - 1)
    BY <2>1, <2>2, <2>3
  <2> QED
    BY <1>3, <1>4, <2>4 DEF n
<1>7. CASE mode # "kUnordered" /\ F # {}
  <2>1. F = {q \in given \cup {r} : \A o \in WorkRsns : o < q => o \in given \cup {r}}
              \ {q \in given : \A o \in WorkRsns : o < q => o \in given}
    BY <1>1, <1>2, <1>7 DEF LetGo
  <2> HIDE DEF given
  <2>2. ASSUME NEW q \in F PROVE r <= q /\ r \notin given
    BY <1>1, <2>1
  <2>3. r \notin given
    BY <1>7, <2>2
  <2>4. ASSUME NEW q \in F, NEW o \in r..q PROVE o \in F
    <3>1. o \in WorkRsns /\ o <= q /\ r <= o /\ q \in WorkRsns
      BY <1>1, <1>3
    <3>2. o \in given \cup {r}
      BY <1>1, <2>1, <3>1
    <3>3. \A k \in WorkRsns : k < o => k \in given \cup {r}
      BY <1>1, <2>1, <3>1
    <3>4. ~(o \in given /\ \A k \in WorkRsns : k < o => k \in given)
      BY <1>1, <2>3, <3>1
    <3> QED
      BY <2>1, <3>2, <3>3, <3>4
  <2>5. ASSUME NEW q \in F PROVE q <= r + n - 1
    <3>1. r..q \subseteq F /\ q \in Int /\ r \in Int /\ r <= q
      BY <1>1, <1>3, <2>2, <2>4
    <3>2. Cardinality(r..q) <= n
      BY <1>4, <3>1, FS_Subset
    <3>3. Cardinality(r..q) = q - r + 1
      BY <3>1, FS_Interval
    <3> QED
      BY <1>4, <3>1, <3>2, <3>3
  <2>6. F \subseteq r..(r + n - 1)
    BY <1>1, <1>3, <1>4, <2>2, <2>5
  <2>7. r \in Int /\ r + n - 1 \in Int /\ n > 0
    BY <1>1, <1>4, <1>7, FS_EmptySet
  <2>8. IsFiniteSet(r..(r + n - 1)) /\ Cardinality(r..(r + n - 1)) = n
    BY <1>4, <2>7, FS_Interval
  <2>9. F = r..(r + n - 1)
    BY <2>6, <2>8, FS_Subset
  <2> QED
    BY <1>3, <1>4, <2>9
<1> QED
  BY <1>5, <1>6, <1>7

\* The host whose RX scheduler a lane leads to.
Above(lane) == IF lane = "initiatorRsn" THEN "kInitiator" ELSE "kTarget"

\* The packets of an insertion, in the order of their RSNs.
Run(F, lane) == [k \in 1..Cardinality(F) |->
                   Packet(Ascending(F)[k], LaneType(lane, Ascending(F)[k]))]

\* What a lane lets go has not been let go before, so no packet of it waits.
LEMMA QueuedOnce ==
  ASSUME LifeIInv, NEW r \in WorkRsns, NEW lane \in {"initiatorRsn", "targetRsn"},
         NEW F, F = Freed(r, lane),
         NEW packets, packets = Run(F, lane)
  PROVE  /\ packets \in Seq(Packets) /\ Once(packets)
         /\ \A p \in Entries(packets) : p.rsn \in F /\ p.type = LaneType(lane, p.rsn)
         /\ \A p \in Entries(packets) : p \notin Entries(rxQueue[Above(lane)])
<1> DEFINE n == Cardinality(F)
           a == Ascending(F)
<1>1. LifeTypes
  BY DEF LifeIInv
<1>2. n \in Nat /\ F \subseteq WorkRsns /\ F = r..(r + n - 1)
  BY <1>1, FreedIsARun
<1>3. a \in [1..n -> F] /\ \A j, k \in 1..n : j < k => a[j] < a[k]
  <2>1. r \in Int
    BY DEF WorkRsns
  <2> QED
    BY <1>2, <2>1, RunsAscend
<1> HIDE DEF a, n
<1>4. \A x \in WorkRsns :
        /\ LaneType(lane, x) = IF lane = "initiatorRsn" THEN Answer(View(x).type)
                               ELSE UlpRequest(View(x).type)
        /\ LaneType(lane, x) \in AllPacketTypes
  <2> TAKE x \in WorkRsns
  <2>1. View(x).type = work[x]
    BY FieldsNow
  <2>2. work[x] \in Types
    BY <1>1 DEF LifeTypes, WorkRsns
  <2> QED
    BY <2>1, <2>2 DEF LaneType, Answer, Types, UlpRequest, RdmaOpcodeToPacketType,
       AllPacketTypes
<1>5. \A k \in 1..n : /\ a[k] \in F /\ packets[k] \in Packets /\ packets[k].rsn = a[k]
                      /\ packets[k].type = LaneType(lane, a[k])
  <2> TAKE k \in 1..n
  <2>1. packets[k] = Packet(a[k], LaneType(lane, a[k])) /\ a[k] \in F /\ a[k] \in WorkRsns
    BY <1>2, <1>3 DEF a, n, Run
  <2>2. LaneType(lane, a[k]) \in AllPacketTypes
    BY <1>4, <2>1
  <2> QED
    BY <2>1, <2>2 DEF Packets, Packet
<1>6. DOMAIN packets = 1..n /\ packets \in [1..n -> Packets]
  BY <1>5 DEF n, Run
<1>7. packets \in Seq(Packets) /\ Len(packets) = n
  <2> HIDE DEF Packets
  <2>1. n \in Nat
    BY <1>2 DEF n
  <2>2. packets \in Seq(Packets)
    BY <1>6, <2>1, SeqDef
  <2>3. Len(packets) \in Nat /\ DOMAIN packets = 1..Len(packets)
    BY <2>2, LenProperties
  <2>4. ASSUME NEW m \in Nat, NEW k \in Nat, 1..m = 1..k PROVE m <= k
    <3>1. CASE m = 0
      BY <3>1
    <3>2. CASE m # 0
      <4>1. m \in 1..m
        BY <3>2
      <4>2. m \in 1..k
        BY <2>4, <4>1
      <4> QED
        BY <4>2
    <3> QED
      BY <3>1, <3>2
  <2>5. 1..Len(packets) = 1..n
    BY <1>6, <2>3
  <2>6. Len(packets) <= n /\ n <= Len(packets)
    BY <2>1, <2>3, <2>4, <2>5
  <2>7. \A j, k \in Nat : j <= k /\ k <= j => j = k
    OBVIOUS
  <2>8. Len(packets) \in Nat
    BY <2>3
  <2>9. Len(packets) = n
    BY <2>1, <2>6, <2>7, <2>8
  <2> QED
    BY <2>2, <2>9
<1>8. ASSUME NEW j \in 1..n, NEW k \in 1..n, packets[j] = packets[k] PROVE j = k
  <2>1. a[j] = a[k]
    BY <1>5, <1>8
  <2>2. a[j] \in F /\ a[k] \in F /\ F \subseteq Int
    <3>1. WorkRsns \subseteq Int
      BY DEF WorkRsns
    <3> QED
      BY <1>2, <1>5, <3>1
  <2>3. ~(j < k) /\ ~(k < j)
    BY <1>3, <2>1, <2>2
  <2> QED
    BY <2>3
<1>9. \A p \in Entries(packets) : p.rsn \in F /\ p.type = LaneType(lane, p.rsn)
  <2> TAKE p \in Entries(packets)
  <2>1. PICK k \in 1..n : p = packets[k]
    BY <1>7 DEF Entries
  <2> QED
    BY <1>5, <2>1
<1>10. ASSUME NEW p \in Entries(packets) PROVE p \notin Entries(rxQueue[Above(lane)])
  <2> DEFINE x == p.rsn
             v == View(x)
  <2>1. p \in Packets
    BY <1>5, <1>7 DEF Entries
  <2>2. x \in F /\ x \in WorkRsns /\ p.type = LaneType(lane, x)
    BY <1>2, <1>9
  <2>3. Sound(v)
    BY <2>2 DEF LifeIInv
  <2>4. lane \notin v.letGo
    <3>1. x \notin LetGo(lane, arrived[lane])
      BY <2>2 DEF Freed
    <3>2. v.letGo = LanesOf(LetGoOf, x)
      BY FieldsNow
    <3> QED
      BY <3>1, <3>2 DEF LanesOf, LetGoOf
  <2>5. CASE lane = "initiatorRsn"
    <3>1. p.type \notin v.atIni
      BY <1>4, <2>2, <2>3, <2>4, <2>5 DEF Sound, Initiated, Ends
    <3>2. v.atIni = TypesOf(Entries(rxQueue["kInitiator"]), x)
      BY FieldsNow
    <3> QED
      BY <2>1, <2>5, <3>1, <3>2, OfItsTransaction DEF Above
  <2>6. CASE lane = "targetRsn"
    <3>1. p.type \notin v.atTar
      BY <1>4, <2>2, <2>3, <2>4, <2>6 DEF Sound, Served, AtUlp
    <3>2. v.atTar = TypesOf(Entries(rxQueue["kTarget"]), x)
      BY FieldsNow
    <3> QED
      BY <2>1, <2>6, <3>1, <3>2, OfItsTransaction DEF Above
  <2> QED
    BY <2>5, <2>6
<1>11. Once(packets)
  BY <1>7, <1>8 DEF Once
<1> QED
  BY <1>7, <1>9, <1>10, <1>11

\* What may happen to transaction x when the reorder engine lets packets go.
NewlyLetGo(x) == LanesOf(LetGoOf', x) \ LanesOf(LetGoOf, x)

LetOn(x) ==
  /\ LanesOf(LetGoOf, x) \subseteq LanesOf(LetGoOf', x)
  /\ LanesOf(LetGoOf', x) \subseteq LanesOf(arrived', x)
  /\ \A type \in TypesOf(toSend', x) \ TypesOf(toSend, x) :
       \/ type = "kPushSolicitedData" /\ "initiatorSsn" \in NewlyLetGo(x)
       \/ type = "kPushGrant" /\ "targetSsn" \in NewlyLetGo(x)
  /\ \A type \in TypesOf(Entries(rxQueue'["kInitiator"]), x)
                   \ TypesOf(Entries(rxQueue["kInitiator"]), x) :
       type = Answer(work[x]) /\ "initiatorRsn" \in NewlyLetGo(x)
  /\ \A type \in TypesOf(Entries(rxQueue'["kTarget"]), x)
                   \ TypesOf(Entries(rxQueue["kTarget"]), x) :
       type = UlpRequest(work[x]) /\ "targetRsn" \in NewlyLetGo(x)

LEMMA EngineLets ==
  ASSUME LifeIInv, NEW r \in WorkRsns, NEW lane \in Lanes, UNCHANGED <<work, mode>>,
         arrived' = [arrived EXCEPT ![lane] = @ \cup {r}],
         ReorderCallbacks(Freed(r, lane), lane)
  PROVE  /\ arrived' \in [Lanes -> SUBSET WorkRsns]
         /\ toSend' \subseteq Packets /\ QueuesOnce(rxQueue')
         /\ \A x \in WorkRsns :
              /\ LanesOf(arrived', x) = IF x = r THEN With(LanesOf(arrived, x), lane)
                                        ELSE LanesOf(arrived, x)
              /\ LetOn(x)
<1> DEFINE given == arrived[lane]
<1> SUFFICES ASSUME NEW F, F = Freed(r, lane)
             PROVE  /\ arrived' \in [Lanes -> SUBSET WorkRsns]
                    /\ toSend' \subseteq Packets /\ QueuesOnce(rxQueue')
                    /\ \A x \in WorkRsns :
                         /\ LanesOf(arrived', x) = IF x = r THEN With(LanesOf(arrived, x), lane)
                                                   ELSE LanesOf(arrived, x)
                         /\ LetOn(x)
  OBVIOUS
<1>1. LifeTypes
  BY DEF LifeIInv
<1>2. arrived \in [Lanes -> SUBSET WorkRsns]
  BY <1>1 DEF LifeTypes
<1>3. /\ arrived' \in [Lanes -> SUBSET WorkRsns] /\ arrived'[lane] = given \cup {r}
      /\ \A l \in Lanes : l # lane => arrived'[l] = arrived[l]
  BY <1>2
<1>4. \A l \in Lanes : LetGoOf[l] = LetGo(l, arrived[l]) /\ LetGoOf'[l] = LetGo(l, arrived'[l])
  BY DEF LetGoOf, LetGo, LaneRsns, WorkRsns
<1>5. /\ LetGoOf'[lane] = LetGo(lane, given \cup {r}) /\ LetGoOf[lane] = LetGo(lane, given)
      /\ \A l \in Lanes : l # lane => LetGoOf'[l] = LetGoOf[l]
  BY <1>3, <1>4
<1>6. LetGoOf[lane] \subseteq LetGoOf'[lane] /\ F = LetGoOf'[lane] \ LetGoOf[lane]
  <2>1. LetGo(lane, given) \subseteq LetGo(lane, given \cup {r})
    BY LetGoGrows
  <2>2. F = LetGo(lane, given \cup {r}) \ LetGo(lane, given)
    BY DEF Freed
  <2> QED
    BY <1>5, <2>1, <2>2
<1>7. \A l \in Lanes : LetGoOf'[l] \subseteq arrived'[l]
  BY <1>4, OnlyTheGiven
<1>8. F \subseteq WorkRsns
  BY <1>3, <1>6, <1>7
<1>9. \A x : /\ LanesOf(LetGoOf, x) \subseteq LanesOf(LetGoOf', x)
             /\ LanesOf(LetGoOf', x) \subseteq LanesOf(arrived', x)
             /\ lane \in NewlyLetGo(x) <=> x \in F
  BY <1>5, <1>6, <1>7 DEF LanesOf, NewlyLetGo
<1>10. \A x : LanesOf(arrived', x) = IF x = r THEN With(LanesOf(arrived, x), lane)
                                     ELSE LanesOf(arrived, x)
  BY <1>3 DEF LanesOf, With
<1>11. \A x \in WorkRsns : x \in F => /\ View(x).type = work[x] /\ work[x] \in Types
                                      /\ Sound(View(x))
  <2> TAKE x \in WorkRsns
  <2>1. View(x).type = work[x] /\ work[x] \in Types
    BY <1>1, FieldsNow DEF LifeTypes, WorkRsns
  <2> QED
    BY <2>1 DEF LifeIInv
<1>12. CASE lane \in {"initiatorRsn", "targetRsn"}
  <2> SUFFICES ASSUME NEW packets, packets = Run(F, lane)
               PROVE  /\ toSend' \subseteq Packets /\ QueuesOnce(rxQueue')
                      /\ \A x \in WorkRsns : LetOn(x)
    BY <1>3, <1>10
  <2> DEFINE longer == rxQueue[Above(lane)] \o packets
  <2>1. rxQueue' = [rxQueue EXCEPT ![Above(lane)] = longer] /\ UNCHANGED toSend
    BY <1>12 DEF ReorderCallbacks, Above, Run
  <2>2. /\ packets \in Seq(Packets) /\ Once(packets)
        /\ \A p \in Entries(packets) : p.rsn \in F /\ p.type = LaneType(lane, p.rsn)
        /\ \A p \in Entries(packets) : p \notin Entries(rxQueue[Above(lane)])
    BY <1>12, QueuedOnce
  <2>3. Above(lane) \in Locations
    BY DEF Above, Locations
  <2>4. /\ longer \in Seq(Packets) /\ Once(longer)
        /\ Entries(longer) = Entries(rxQueue[Above(lane)]) \cup Entries(packets)
    <3>1. rxQueue[Above(lane)] \in Seq(Packets) /\ Once(rxQueue[Above(lane)])
      BY <1>1, <2>3, QueueNow
    <3> QED
      BY <2>2, <3>1, BothInOrder
  <2> HIDE DEF longer
  <2>5. /\ QueuesOnce(rxQueue')
        /\ rxQueue'["kInitiator"]
             = IF Above(lane) = "kInitiator" THEN longer ELSE rxQueue["kInitiator"]
        /\ rxQueue'["kTarget"]
             = IF Above(lane) = "kInitiator" THEN rxQueue["kTarget"] ELSE longer
    BY <1>1, <2>1, <2>3, <2>4, QueueSet
  <2>6. ASSUME NEW x \in WorkRsns,
               NEW type \in TypesOf(Entries(longer), x)
                              \ TypesOf(Entries(rxQueue[Above(lane)]), x)
        PROVE  type = LaneType(lane, x) /\ lane \in NewlyLetGo(x)
    <3>1. Packet(x, type) \in Entries(packets)
      BY <2>4 DEF TypesOf
    <3>2. x \in F /\ type = LaneType(lane, x)
      BY <2>2, <3>1 DEF Packet
    <3> QED
      BY <1>9, <3>2
  <2>7. ASSUME NEW x \in WorkRsns PROVE LetOn(x)
    <3>1. TypesOf(toSend', x) = TypesOf(toSend, x)
      BY <2>1
    <3>2. work[x] \in Types
      BY <1>1 DEF LifeTypes, WorkRsns
    <3>3. CASE lane = "initiatorRsn"
      <4>1. LaneType(lane, x) = Answer(work[x])
        BY <3>3 DEF LaneType, Answer
      <4>2. rxQueue'["kInitiator"] = longer /\ rxQueue'["kTarget"] = rxQueue["kTarget"]
            /\ Above(lane) = "kInitiator"
        BY <2>5, <3>3 DEF Above
      <4> QED
        BY <1>9, <2>6, <3>1, <3>3, <4>1, <4>2 DEF LetOn
    <3>4. CASE lane = "targetRsn"
      <4>1. LaneType(lane, x) = UlpRequest(work[x])
        BY <3>4 DEF LaneType
      <4>2. rxQueue'["kTarget"] = longer /\ rxQueue'["kInitiator"] = rxQueue["kInitiator"]
            /\ Above(lane) = "kTarget"
        BY <2>5, <3>4 DEF Above
      <4> QED
        BY <1>9, <2>6, <3>1, <3>4, <4>1, <4>2 DEF LetOn
    <3> QED
      BY <1>12, <3>3, <3>4
  <2>8. toSend' \subseteq Packets
    BY <1>1, <2>1 DEF LifeTypes
  <2> QED
    BY <2>5, <2>7, <2>8
<1>13. CASE lane \in {"initiatorSsn", "targetSsn"}
  <2> DEFINE next == GetNextFalconPacket(LaneType(lane, r))
             more == {Packet(x, GetNextFalconPacket(LaneType(lane, x))) : x \in F}
  <2>1. toSend' = toSend \cup more /\ UNCHANGED rxQueue
    BY <1>13 DEF ReorderCallbacks
  <2>2. \A x : GetNextFalconPacket(LaneType(lane, x))
                 = IF lane = "initiatorSsn" THEN "kPushSolicitedData" ELSE "kPushGrant"
    BY <1>13 DEF GetNextFalconPacket, LaneType
  <2>3. more \subseteq Packets
    BY <1>8, <2>2 DEF Packets, Packet, AllPacketTypes
  <2>4. ASSUME NEW x \in WorkRsns, NEW type \in TypesOf(toSend', x) \ TypesOf(toSend, x)
        PROVE  /\ type = IF lane = "initiatorSsn" THEN "kPushSolicitedData" ELSE "kPushGrant"
               /\ lane \in NewlyLetGo(x)
    <3>1. Packet(x, type) \in more
      BY <2>1 DEF TypesOf
    <3>2. PICK y \in F : Packet(x, type) = Packet(y, GetNextFalconPacket(LaneType(lane, y)))
      BY <3>1
    <3>3. x = y /\ type = GetNextFalconPacket(LaneType(lane, y))
      BY <3>2 DEF Packet
    <3> QED
      BY <1>9, <2>2, <3>3
  <2> HIDE DEF more
  <2>5. ASSUME NEW x \in WorkRsns PROVE LetOn(x)
    BY <1>9, <1>13, <2>1, <2>4 DEF LetOn
  <2>6. toSend' \subseteq Packets /\ QueuesOnce(rxQueue')
    BY <1>1, <2>1, <2>3 DEF LifeTypes
  <2> QED
    BY <1>3, <1>10, <2>5, <2>6
<1> QED
  BY <1>12, <1>13, <1>3, <1>10 DEF Lanes

LEMMA NothingIsLet ==
  ASSUME UNCHANGED <<work, mode, toSend, arrived, rxQueue>>, NEW x
  PROVE  LetOn(x)
<1>1. LetGoOf' = LetGoOf
  BY DEF LetGoOf, LetGo, LaneRsns, WorkRsns
<1>2. \A l \in Lanes : LetGoOf[l] \subseteq arrived[l]
  BY OnlyTheGiven DEF LetGoOf
<1> QED
  BY <1>1, <1>2 DEF LetOn, NewlyLetGo, LanesOf

\* s is the view of x but for what the engine has let go.
LEMMA LetThroughView ==
  ASSUME NEW x \in WorkRsns', LifeTypes', UNCHANGED work, LetOn(x), NEW s,
         s.type = work[x], s.phase = IF x <= made' THEN "begun" ELSE "new",
         transactions'["kInitiator"][x] = s.ini, transactions'["kTarget"][x] = s.tar,
         TypesOf(unacked', x) = s.unacked, TypesOf(network', x) = s.network,
         TypesOf(received', x) = s.received, TypesOf(ackable', x) = s.ackable,
         TypesOf(ulp', x) = s.ulp, s.timer = IF x \in waiting' THEN "armed" ELSE "off",
         LanesOf(arrived', x) = s.arrived,
         TypesOf(toSend, x) = s.toSend, LanesOf(LetGoOf, x) = s.letGo,
         TypesOf(Entries(rxQueue["kInitiator"]), x) = s.atIni,
         TypesOf(Entries(rxQueue["kTarget"]), x) = s.atTar
  PROVE  LetThrough(s, View(x)')
<1> DEFINE w == View(x)'
<1>1. w \in Views
  BY TypedNext
<1>2. w = View(x)'
  OBVIOUS
<1> SUFFICES LetThrough(s, w)
  OBVIOUS
<1> HIDE DEF w
<1>3. /\ w.type = s.type /\ w.phase = s.phase /\ w.ini = s.ini /\ w.tar = s.tar
      /\ w.unacked = s.unacked /\ w.network = s.network /\ w.received = s.received
      /\ w.ackable = s.ackable /\ w.ulp = s.ulp /\ w.timer = s.timer /\ w.arrived = s.arrived
      /\ w.toSend = TypesOf(toSend', x) /\ w.letGo = LanesOf(LetGoOf', x)
      /\ w.atIni = TypesOf(Entries(rxQueue'["kInitiator"]), x)
      /\ w.atTar = TypesOf(Entries(rxQueue'["kTarget"]), x)
  BY <1>2, FieldsNext
<1>4. /\ s.letGo \subseteq w.letGo /\ w.letGo \subseteq w.arrived
      /\ NewlyLetGo(x) = w.letGo \ s.letGo
  BY <1>3 DEF LetOn, NewlyLetGo
<1>5. \A type \in w.toSend \ s.toSend :
        \/ type = "kPushSolicitedData" /\ "initiatorSsn" \in w.letGo \ s.letGo
        \/ type = "kPushGrant" /\ "targetSsn" \in w.letGo \ s.letGo
  BY <1>3, <1>4 DEF LetOn
<1>6. /\ \A type \in w.atIni \ s.atIni :
           type = Answer(s.type) /\ "initiatorRsn" \in w.letGo \ s.letGo
      /\ \A type \in w.atTar \ s.atTar :
           type = UlpRequest(s.type) /\ "targetRsn" \in w.letGo \ s.letGo
  BY <1>3, <1>4 DEF LetOn
<1> QED
  BY <1>1, <1>3, <1>4, <1>5, <1>6 DEF LetThrough

LEMMA EveryTransaction ==
  ASSUME LifeIInv, LifeTypes', NEW r, UNCHANGED work, NEW s, Sound(s), LetThrough(s, View(r)'),
         \A x \in WorkRsns : x # r => LetThrough(View(x), View(x)')
  PROVE  LifeIInv'
<1>1. WorkRsns' = WorkRsns
  BY DEF WorkRsns
<1>2. ASSUME NEW x \in WorkRsns PROVE Sound(View(x)')
  <2>1. CASE x = r
    BY <2>1, StaysSound
  <2>2. CASE x # r
    <3>1. Sound(View(x)) /\ LetThrough(View(x), View(x)')
      BY <2>2 DEF LifeIInv
    <3> QED
      BY <3>1, StaysSound
  <2> QED
    BY <2>1, <2>2
<1> QED
  BY <1>1, <1>2 DEF LifeIInv

LEMMA AcknowledgementStep ==
  ASSUME LifeIInv, NEW p \in unacked, EnqueueAckToUlp(p)
  PROVE  LifeIInv'
<1> DEFINE r == p.rsn
           type == p.type
           v == View(r)
           host == GetTransactionLocation(type, FALSE)
           t == MetaAt(v, host)
           u == AckedFromNetwork(t, type)
           s == AckV(v, type)
<1>1. LifeTypes
  BY DEF LifeIInv
<1>2. /\ p \in Packets /\ r \in WorkRsns /\ type \in AllPacketTypes /\ type \in v.unacked
      /\ type \in v.ackable /\ v = View(r)
  BY <1>1, OfItsTransaction DEF LifeTypes, View, EnqueueAckToUlp
<1>3. Sound(v) /\ v \in Views /\ Sound(s) /\ s \in Views
  BY <1>2, PacketAcked DEF LifeIInv, Sound
<1>4. host \in Locations /\ t = transactions[host][r]
  BY DEF GetTransactionLocation, Locations, MetaAt, View
<1>5. Set(host, r, u)
  BY <1>4 DEF EnqueueAckToUlp
<1>6. s = [At(v, host, u) EXCEPT
             !.unacked = @ \ {type},
             !.arrived = IF type \in PushData THEN @ \cup {"initiatorRsn"} ELSE @]
  BY DEF AckV
<1> HIDE DEF s, u, t
<1>7. /\ s.type = v.type /\ s.phase = v.phase
      /\ s.ini = IF host = "kInitiator" THEN u ELSE v.ini
      /\ s.tar = IF host = "kInitiator" THEN v.tar ELSE u
      /\ s.toSend = v.toSend /\ s.unacked = Without(v.unacked, type)
      /\ s.network = v.network /\ s.received = v.received
      /\ s.ackable = v.ackable /\ s.ulp = v.ulp /\ s.timer = v.timer
      /\ s.arrived = IF type \in PushData THEN With(v.arrived, "initiatorRsn") ELSE v.arrived
      /\ s.letGo = v.letGo /\ s.atIni = v.atIni /\ s.atTar = v.atTar
  BY <1>3, <1>6 DEF At, Views, With, Without
<1>8. u \in Metadata
  BY <1>3, <1>7 DEF Views
<1> HIDE DEF host
<1>9. /\ unacked' = Without(unacked, p)
      /\ UNCHANGED <<work, mode, made, network, received, ackable, ulp, waiting>>
  BY DEF EnqueueAckToUlp, answerVars, Without
<1>10. /\ arrived' \in [Lanes -> SUBSET WorkRsns]
       /\ toSend' \subseteq Packets /\ QueuesOnce(rxQueue')
       /\ \A x \in WorkRsns :
            /\ LanesOf(arrived', x) = IF x = r /\ type \in PushData
                                      THEN With(LanesOf(arrived, x), "initiatorRsn")
                                      ELSE LanesOf(arrived, x)
            /\ LetOn(x)
  <2>1. CASE type \in PushData
    <3>1. /\ arrived' = [arrived EXCEPT !["initiatorRsn"] = @ \cup {r}]
          /\ ReorderCallbacks(Freed(r, "initiatorRsn"), "initiatorRsn")
      <4>1. Lane("kAck") = "initiatorRsn"
        BY DEF Lane
      <4> QED
        BY <2>1, <4>1 DEF EnqueueAckToUlp, InsertInOrder
    <3>2. "initiatorRsn" \in Lanes
      BY DEF Lanes
    <3> HIDE DEF r, type
    <3> QED
      BY <1>2, <1>9, <2>1, <3>1, <3>2, EngineLets
  <2>2. CASE type \notin PushData
    <3>1. UNCHANGED <<work, mode, toSend, arrived, rxQueue>>
      BY <1>9, <2>2 DEF EnqueueAckToUlp, queueVars
    <3>2. \A x : LetOn(x)
      BY <3>1, NothingIsLet
    <3> QED
      BY <1>1, <2>2, <3>1, <3>2 DEF LifeTypes
  <2> QED
    BY <2>1, <2>2
<1>11. LifeTypes'
  <2>1. transactions' \in [Locations -> [WorkRsns -> Metadata]]
    BY <1>1, <1>2, <1>4, <1>5, <1>8, MetaSet
  <2> QED
    BY <1>1, <1>2, <1>9, <1>10, <2>1, PacketsKept, TypesKept DEF LifeTypes
<1>12. \A x \in WorkRsns :
         /\ transactions'["kInitiator"][x]
              = IF x = r /\ host = "kInitiator" THEN u ELSE transactions["kInitiator"][x]
         /\ transactions'["kTarget"][x]
              = IF x = r /\ host # "kInitiator" THEN u ELSE transactions["kTarget"][x]
  BY <1>1, <1>2, <1>4, <1>5, <1>8, MetaSet
<1>13. \A x : TypesOf(unacked', x) = IF x = r THEN Without(TypesOf(unacked, x), type)
                                     ELSE TypesOf(unacked, x)
  BY <1>2, <1>9, PacketRemoved
<1>14. WorkRsns' = WorkRsns
  BY <1>9 DEF WorkRsns
<1> HIDE DEF r, type, v
<1>15. LetThrough(s, View(r)')
  BY <1>2, <1>7, <1>9, <1>10, <1>11, <1>12, <1>13, <1>14, FieldsNow, LetThroughView
<1>16. ASSUME NEW x \in WorkRsns, x # r PROVE LetThrough(View(x), View(x)')
  BY <1>9, <1>10, <1>11, <1>12, <1>13, <1>14, <1>16, FieldsNow, LetThroughView
<1> QED
  BY <1>3, <1>9, <1>11, <1>15, <1>16, EveryTransaction

\* a is v once what the packet p acknowledges has been acknowledged.
ImpliedIn(v, a, p) ==
  LET host == GetTransactionLocation(p.type, TRUE)
      t == HandleImplicitAck(MetaAt(v, host), p)
  IN /\ Sound(a) /\ a.type = v.type /\ a.phase = v.phase
     /\ a.ini = IF host = "kInitiator" THEN t ELSE v.ini
     /\ a.tar = IF host = "kInitiator" THEN v.tar ELSE t
     /\ a.unacked = v.unacked \ ImpliedTypes(p.type)
     /\ a.toSend = v.toSend /\ a.network = v.network /\ a.received = v.received
     /\ a.ackable = v.ackable /\ a.ulp = v.ulp /\ a.timer = v.timer
     /\ a.arrived = v.arrived /\ a.letGo = v.letGo
     /\ a.atIni = v.atIni /\ a.atTar = v.atTar

LEMMA ImpliedFirst ==
  ASSUME LifeIInv, NEW p \in network, p.type \in PacketTypes(View(p.rsn).type),
         p.rsn \in WorkRsns, NEW v, v = View(p.rsn)
  PROVE  \E a : ImpliedIn(v, a, p)
<1> DEFINE type == p.type
           r == p.rsn
           host == GetTransactionLocation(type, TRUE)
           t == HandleImplicitAck(MetaAt(v, host), p)
<1>1. Sound(v) /\ v \in Views
  BY DEF LifeIInv, Sound
<1>2. type \in {"kPullRequest", "kPullData", "kPushRequest", "kPushGrant",
                "kPushSolicitedData", "kPushUnsolicitedData"}
  BY <1>1 DEF Views, Types, PacketTypes
<1>3. CASE Implied(p) \cap unacked = {}
  <2>1. t = MetaAt(v, host)
    BY <1>3 DEF HandleImplicitAck
  <2>2. v.unacked \ ImpliedTypes(type) = v.unacked
    BY <1>2, <1>3 DEF Implied, ImpliedTypes, View, TypesOf, Packet
  <2> QED
    BY <1>1, <2>1, <2>2 DEF MetaAt, ImpliedIn
<1>4. CASE Implied(p) \cap unacked # {}
  <2>1. PICK k \in {"kPullRequest", "kPushRequest", "kPushGrant"} :
          /\ Implied(p) = {Packet(r, k)} /\ ImpliedTypes(type) = {k}
          /\ GetTransactionLocation(k, FALSE) = host
    BY <1>2, <1>4 DEF Implied, ImpliedTypes, GetTransactionLocation
  <2>2. k \in v.unacked /\ k \notin PushData
    BY <1>4, <2>1 DEF View, TypesOf, AllPacketTypes, PushData
  <2>3. t = AckedFromNetwork(MetaAt(v, host), k)
    <3>1. (CHOOSE q \in Implied(p) : TRUE) = Packet(r, k)
      BY <2>1
    <3>2. t = AckedFromNetwork(MetaAt(v, host), (CHOOSE q \in Implied(p) : TRUE).type)
      BY <1>4 DEF HandleImplicitAck
    <3>3. Packet(r, k).type = k
      BY DEF Packet
    <3> QED
      BY <3>1, <3>2, <3>3
  <2> DEFINE s == AckV(v, k)
  <2>4. Sound(s) /\ s \in Views
    BY <1>1, <2>2, PacketAcked DEF Sound
  <2>5. s = [At(v, host, t) EXCEPT !.unacked = @ \ {k},
                                   !.arrived = IF k \in PushData
                                                THEN @ \cup {"initiatorRsn"} ELSE @]
    BY <2>1, <2>3 DEF AckV
  <2> HIDE DEF s, t, host
  <2>6. /\ s.type = v.type /\ s.phase = v.phase
        /\ s.ini = IF host = "kInitiator" THEN t ELSE v.ini
        /\ s.tar = IF host = "kInitiator" THEN v.tar ELSE t
        /\ s.unacked = v.unacked \ {k}
        /\ s.toSend = v.toSend /\ s.network = v.network /\ s.received = v.received
        /\ s.ackable = v.ackable /\ s.ulp = v.ulp /\ s.timer = v.timer
        /\ s.arrived = v.arrived /\ s.letGo = v.letGo
        /\ s.atIni = v.atIni /\ s.atTar = v.atTar
    BY <1>1, <2>2, <2>5 DEF At, Views
  <2> QED
    BY <2>1, <2>4, <2>6 DEF t, host, ImpliedIn
<1> QED
  BY <1>3, <1>4

\* The packets acknowledged along with p, by transaction.
LEMMA ImpliedLeaves ==
  ASSUME NEW p \in Packets, NEW S, NEW x
  PROVE  TypesOf(S \ Implied(p), x) = IF x = p.rsn THEN TypesOf(S, x) \ ImpliedTypes(p.type)
                                      ELSE TypesOf(S, x)
BY DEF TypesOf, Packets, Packet, Implied, ImpliedTypes

LEMMA AcceptanceStep ==
  ASSUME LifeIInv, NEW p \in network, AcceptPacket(p)
  PROVE  LifeIInv'
<1> DEFINE r == p.rsn
           type == p.type
           v == View(r)
           host == GetTransactionLocation(type, TRUE)
           lane == Lane(type)
           t == HandleImplicitAck(MetaAt(v, host), p)
           u == Reserve(CreateOrUpdateTransactionFromNetwork(
                          CreateOrUpdateReceiverPacketContext(t, type, TRUE), type),
                        ReserveIncoming(type))
<1>1. LifeTypes
  BY DEF LifeIInv
<1>2. /\ p \in Packets /\ r \in WorkRsns /\ type \in AllPacketTypes /\ type \in v.network
      /\ type \notin v.received /\ v = View(r)
  BY <1>1, OfItsTransaction DEF LifeTypes, View, AcceptPacket
<1>3. Sound(v) /\ v \in Views /\ type \in PacketTypes(v.type)
  BY <1>2 DEF LifeIInv, Sound, OwnPackets
<1>4. host \in Locations /\ MetaAt(v, host) = transactions[host][r]
  BY DEF GetTransactionLocation, Locations, MetaAt, View
<1>5. PICK a : ImpliedIn(v, a, p)
  BY <1>2, <1>3, ImpliedFirst
<1> DEFINE s == AcceptV(a, type)
<1>6. Sound(s) /\ s \in Views /\ a \in Views
  <2>1. ImpliedTypes(type) \cap a.unacked = {}
    BY <1>5 DEF ImpliedIn
  <2>2. type \in a.network /\ type \notin a.received
    BY <1>2, <1>5 DEF ImpliedIn
  <2> QED
    BY <1>5, <2>1, <2>2, PacketAccepted DEF Sound, ImpliedIn
<1>7. Set(host, r, u)
  BY <1>4 DEF AcceptPacket
<1>8. MetaAt(a, host) = t
  BY <1>5 DEF MetaAt, ImpliedIn
<1>9. s = [At(a, host, u) EXCEPT !.network = @ \ {type}, !.received = @ \cup {type},
             !.ackable = IF type \in PushData THEN @ ELSE @ \cup {type},
             !.arrived = @ \cup {lane}]
  BY <1>8 DEF AcceptV
<1> HIDE DEF s, u, t
<1>10. /\ s.type = v.type /\ s.phase = v.phase
       /\ s.ini = IF host = "kInitiator" THEN u ELSE v.ini
       /\ s.tar = IF host = "kInitiator" THEN v.tar ELSE u
       /\ s.toSend = v.toSend /\ s.unacked = a.unacked
       /\ s.network = Without(v.network, type) /\ s.received = With(v.received, type)
       /\ s.ackable = IF type \in PushData THEN v.ackable ELSE With(v.ackable, type)
       /\ s.ulp = v.ulp /\ s.timer = v.timer /\ s.arrived = With(v.arrived, lane)
       /\ s.letGo = v.letGo /\ s.atIni = v.atIni /\ s.atTar = v.atTar
  <2>1. /\ s.type = a.type /\ s.phase = a.phase
        /\ s.ini = IF host = "kInitiator" THEN u ELSE a.ini
        /\ s.tar = IF host = "kInitiator" THEN a.tar ELSE u
        /\ s.toSend = a.toSend /\ s.unacked = a.unacked
        /\ s.network = Without(a.network, type) /\ s.received = With(a.received, type)
        /\ s.ackable = IF type \in PushData THEN a.ackable ELSE With(a.ackable, type)
        /\ s.ulp = a.ulp /\ s.timer = a.timer /\ s.arrived = With(a.arrived, lane)
        /\ s.letGo = a.letGo /\ s.atIni = a.atIni /\ s.atTar = a.atTar
    <3> HIDE DEF host, lane
    <3> QED
      BY <1>6, <1>9 DEF At, Views, With, Without
  <2> HIDE DEF lane
  <2> QED
    BY <1>5, <2>1 DEF ImpliedIn, t
<1>11. u \in Metadata
  BY <1>6, <1>10 DEF Views
<1>12. /\ network' = Without(network, p) /\ received' = With(received, p)
       /\ ackable' = IF type \in PushData THEN ackable ELSE With(ackable, p)
       /\ unacked' = unacked \ Implied(p)
       /\ arrived' = [arrived EXCEPT ![lane] = @ \cup {r}]
       /\ ReorderCallbacks(Freed(r, lane), lane)
       /\ UNCHANGED <<work, mode, made, ulp, waiting>>
  BY DEF AcceptPacket, InsertInOrder, UpdateReceiveAckBitmap, answerVars, With, Without
<1>13. lane \in Lanes
  BY DEF Lane, Lanes
<1> HIDE DEF host, lane
<1>14. /\ arrived' \in [Lanes -> SUBSET WorkRsns]
       /\ toSend' \subseteq Packets /\ QueuesOnce(rxQueue')
       /\ \A x \in WorkRsns :
            /\ LanesOf(arrived', x) = IF x = r THEN With(LanesOf(arrived, x), lane)
                                      ELSE LanesOf(arrived, x)
            /\ LetOn(x)
  <2> HIDE DEF r
  <2> QED
    BY <1>2, <1>12, <1>13, EngineLets
<1>15. LifeTypes'
  <2>1. transactions' \in [Locations -> [WorkRsns -> Metadata]]
    BY <1>1, <1>2, <1>4, <1>7, <1>11, MetaSet
  <2>2. unacked' \subseteq Packets
    BY <1>1, <1>12 DEF LifeTypes
  <2>3. ackable' \subseteq Packets
    BY <1>1, <1>2, <1>12, PacketsKept DEF LifeTypes
  <2> QED
    BY <1>1, <1>2, <1>12, <1>14, <2>1, <2>2, <2>3, PacketsKept, TypesKept DEF LifeTypes
<1>16. \A x \in WorkRsns :
         /\ transactions'["kInitiator"][x]
              = IF x = r /\ host = "kInitiator" THEN u ELSE transactions["kInitiator"][x]
         /\ transactions'["kTarget"][x]
              = IF x = r /\ host # "kInitiator" THEN u ELSE transactions["kTarget"][x]
  BY <1>1, <1>2, <1>4, <1>7, <1>11, MetaSet
<1>17. \A x : /\ TypesOf(network', x) = IF x = r THEN Without(TypesOf(network, x), type)
                                        ELSE TypesOf(network, x)
              /\ TypesOf(received', x) = IF x = r THEN With(TypesOf(received, x), type)
                                         ELSE TypesOf(received, x)
  BY <1>2, <1>12, PacketAdded, PacketRemoved
<1>18. \A x : TypesOf(ackable', x) = IF x = r /\ type \notin PushData
                                     THEN With(TypesOf(ackable, x), type)
                                     ELSE TypesOf(ackable, x)
  BY <1>2, <1>12, PacketAdded
<1>19. \A x : TypesOf(unacked', x) = IF x = r THEN TypesOf(unacked, x) \ ImpliedTypes(type)
                                     ELSE TypesOf(unacked, x)
  BY <1>2, <1>12, ImpliedLeaves
<1>20. WorkRsns' = WorkRsns
  BY <1>12 DEF WorkRsns
<1>21. s.unacked = TypesOf(unacked', r)
  <2>1. v.unacked = TypesOf(unacked, r)
    BY FieldsNow
  <2> QED
    BY <1>5, <1>10, <1>19, <2>1 DEF ImpliedIn
<1>22. UNCHANGED <<work, made, ulp, waiting>>
  BY <1>12
<1> HIDE DEF r, type, v
<1>23. LetThrough(s, View(r)')
  BY <1>2, <1>10, <1>14, <1>15, <1>16, <1>17, <1>18, <1>20, <1>21, <1>22, FieldsNow,
     LetThroughView
<1>24. ASSUME NEW x \in WorkRsns, x # r PROVE LetThrough(View(x), View(x)')
  BY <1>14, <1>15, <1>16, <1>17, <1>18, <1>19, <1>20, <1>22, <1>24, FieldsNow, LetThroughView
<1> QED
  BY <1>6, <1>15, <1>22, <1>23, <1>24, EveryTransaction
-----------------------------------------------------------------------------
(* The start, every step, and what follows.                                *)

LEMMA NewTransaction ==
  ASSUME NEW v, v.type \in Types, v \in Views, v.phase = "new", v.ini = NoTransaction,
         v.tar = NoTransaction, v.toSend = {}, v.unacked = {}, v.network = {},
         v.received = {}, v.ackable = {}, v.ulp = {}, v.timer = "off", v.arrived = {},
         v.letGo = {}, v.atIni = {}, v.atTar = {}
  PROVE  Sound(v)
<1>1. /\ v.ini.state = "none" /\ v.tar.state = "none"
      /\ v.ini.held = NoCredits /\ v.tar.held = NoCredits
  BY DEF NoTransaction
<1>2. OwnPackets(v)
  BY DEF OwnPackets
<1>3. Ends(v)
  BY <1>1 DEF Ends, Completing, Absent, Types
<1>4. AtUlp(v)
  BY <1>1 DEF AtUlp, Ready, Taken, Refused, After, Types, UlpRequest, RdmaOpcodeToPacketType
<1>5. PullInitiated(v) /\ UnsolicitedInitiated(v) /\ SolicitedInitiated(v)
  BY <1>1 DEF PullInitiated, UnsolicitedInitiated, SolicitedInitiated, DataSent, Absent
<1>6. PullServed(v) /\ UnsolicitedServed(v) /\ SolicitedServed(v)
  BY <1>1 DEF PullServed, UnsolicitedServed, SolicitedServed, GrantSent, Ready, Taken, Refused,
              After
<1> QED
  BY <1>2, <1>3, <1>4, <1>5, <1>6 DEF Sound, Initiated, Served

LEMMA LifeStart ==
  ASSUME LifecycleAssumption, LifeInit
  PROVE  LifeIInv
<1>1. work \in Seq(Types) /\ mode \in OrderingModes /\ Len(work) \in Nat /\ made = 0
  BY DEF LifecycleAssumption, LifeInit
<1>2. NoTransaction \in Metadata
  <2>1. NoCredits \in Amounts
    BY ReservesAreAmounts
  <2> QED
    BY <2>1 DEF NoTransaction, Metadata, AnyState, Absent
<1>3. QueuesOnce(rxQueue)
  <2>1. rxQueue = [h \in Locations |-> <<>>]
    BY DEF LifeInit
  <2> QED
    BY <2>1 DEF QueuesOnce
<1>4. LifeTypes
  BY <1>1, <1>2, <1>3 DEF LifeInit, LifeTypes
<1>5. ASSUME NEW r \in WorkRsns PROVE Sound(View(r))
  <2> DEFINE v == View(r)
  <2>1. v \in Views
    BY <1>4, Typed
  <2>2. v.type \in Types
    BY <2>1 DEF Views
  <2>3. ~(r <= made)
    BY <1>1 DEF WorkRsns
  <2>4. v.phase = "new" /\ v.timer = "off"
    BY <2>3 DEF View, LifeInit
  <2>5. v.ini = NoTransaction /\ v.tar = NoTransaction
    BY DEF View, LifeInit, Locations
  <2>6. /\ v.toSend = {} /\ v.unacked = {} /\ v.network = {} /\ v.received = {}
        /\ v.ackable = {} /\ v.ulp = {}
    BY DEF View, LifeInit, TypesOf
  <2>7. v.arrived = {} /\ v.letGo = {}
    <3>1. \A l \in Lanes : arrived[l] = {} /\ LetGoOf[l] = {}
      BY OnlyTheGiven DEF LifeInit, LetGoOf
    <3> QED
      BY <3>1 DEF View, LanesOf
  <2>8. v.atIni = {} /\ v.atTar = {}
    <3>1. rxQueue["kInitiator"] = <<>> /\ rxQueue["kTarget"] = <<>>
      BY DEF LifeInit, Locations
    <3>2. Entries(<<>>) = {}
      BY DEF Entries
    <3> QED
      BY <3>1, <3>2 DEF View, TypesOf
  <2> HIDE DEF v
  <2> QED
    BY <2>1, <2>2, <2>4, <2>5, <2>6, <2>7, <2>8, NewTransaction DEF v
<1> QED
  BY <1>4, <1>5 DEF LifeIInv

LEMMA LifeStep ==
  ASSUME LifeIInv, [LifeNext]_lifeVars
  PROVE  LifeIInv'
<1>1. CASE UNCHANGED lifeVars
  <2>1. UNCHANGED <<work, mode, made, transactions, toSend, arrived, rxQueue, unacked, network,
                    received, ackable, ulp, waiting>>
    BY <1>1 DEF lifeVars, queueVars, netVars, answerVars
  <2>2. WorkRsns' = WorkRsns /\ LetGoOf' = LetGoOf
    BY <2>1 DEF WorkRsns, LetGoOf, LetGo, LaneRsns
  <2>3. LifeTypes'
    BY <2>1, TypesKept DEF LifeIInv, LifeTypes
  <2>4. ASSUME NEW x \in WorkRsns PROVE Sound(View(x)')
    <3>1. View(x)' = View(x)
      BY <2>1, <2>2, KeepsView
    <3> QED
      BY <3>1 DEF LifeIInv
  <2> QED
    BY <2>2, <2>3, <2>4 DEF LifeIInv
<1>2. CASE LifeNext
  <2>1. CASE InitiateTransaction
    BY <2>1, InitiationStep
  <2>2. CASE \E r \in WorkRsns : InitiatePullData(r) \/ RnrTimeout(r)
    BY <2>2, ResponseStep, TimeoutStep
  <2>3. CASE \E p \in toSend : TransmitPacket(p)
    BY <2>3, TransmissionStep
  <2>4. CASE \E p \in unacked : Retransmit(p) \/ EnqueueAckToUlp(p)
    BY <2>4, RetransmissionStep, AcknowledgementStep
  <2>5. CASE \E p \in network : AcceptPacket(p) \/ Lose(p) \/ HandleDuplicateNackedPacket(p)
    BY <2>5, AcceptanceStep, LossStep, DuplicateStep
  <2>6. CASE \E h \in Locations : DeliverToUlp(h)
    BY <2>6, DeliveryStep
  <2>7. CASE \E p \in ulp : AckFromUlp(p) \/ HandleNackFromUlp(p)
    BY <2>7, UlpAckStep, UlpNackStep
  <2>8. CASE LifeFinished
    BY <1>1, <2>8 DEF LifeFinished
  <2> QED
    BY <1>2, <2>1, <2>2, <2>3, <2>4, <2>5, <2>6, <2>7, <2>8 DEF LifeNext
<1> QED
  BY <1>1, <1>2

\* What each transaction holds, and in what state.
LEMMA SoundHolds ==
  ASSUME NEW v, Sound(v)
  PROVE  /\ v.ini.state # "failed" /\ v.tar.state # "failed"
         /\ NonNegative(v.ini.held) /\ NonNegative(v.tar.held)
         /\ v.ini.state \in Absent => v.ini.held = NoCredits
         /\ v.tar.state \in Absent => v.tar.held = NoCredits
<1>1. v.type \in Types
  BY DEF Sound, Views
<1>2. /\ v.ini.state \in Absent => v.ini.held = NoCredits
      /\ v.tar.state \in Absent => v.tar.held = NoCredits
  BY DEF Sound, Initiated, Served, Ends, AtUlp
<1>3. v.ini.state # "failed"
  BY <1>1 DEF Sound, Initiated, PullInitiated, UnsolicitedInitiated, SolicitedInitiated, Types,
              DataSent
<1>4. v.tar.state # "failed"
  BY <1>1 DEF Sound, Served, PullServed, UnsolicitedServed, SolicitedServed, Types, GrantSent,
              Ready, Taken, Refused, After
<1>5. v.ini.held \in {NoCredits, ReserveOutgoing("kPullRequest"), ReleaseIncoming("kPullData"),
                      ReserveOutgoing("kPushUnsolicitedData"), ReserveOutgoing("kPushRequest")}
  BY <1>1, <1>2 DEF Sound, Initiated, PullInitiated, UnsolicitedInitiated, SolicitedInitiated,
                    Types, Absent
<1>6. v.tar.held \in {NoCredits, ReleaseIncoming("kPullRequest"), ReserveOutgoing("kPullData"),
                      ReleaseIncoming("kPushUnsolicitedData"), ReserveIncoming("kPushRequest"),
                      ReleaseIncoming("kPushSolicitedData")}
  <2>1. /\ v.tar.state \in {Ready(v.type), Taken(v.type), Refused(v.type)}
             => v.tar.held = ReleaseIncoming(UlpRequest(v.type))
    BY DEF Sound, Served, AtUlp
  <2>2. CASE v.type = "kPull"
    BY <1>2, <2>1, <2>2 DEF Sound, Served, PullServed, Absent, UlpRequest,
                            RdmaOpcodeToPacketType, After
  <2>3. CASE v.type = "kPushUnsolicited"
    BY <1>2, <2>1, <2>3 DEF Sound, Served, UnsolicitedServed, Absent, UlpRequest,
                            RdmaOpcodeToPacketType
  <2>4. CASE v.type = "kPushSolicited"
    BY <1>2, <2>1, <2>4 DEF Sound, Served, SolicitedServed, Absent, UlpRequest, GrantSent
  <2> QED
    BY <1>1, <2>2, <2>3, <2>4 DEF Types
<1> HIDE DEF NoCredits
<1>7. NonNegative(v.ini.held)
  BY <1>5, ReservesAreNotNegative
<1>8. NonNegative(v.tar.held)
  BY <1>6, ReservesAreNotNegative
<1> QED
  BY <1>2, <1>3, <1>4, <1>7, <1>8

LEMMA SoundIsComplete ==
  ASSUME NEW v, Sound(v), v.ini.state \in {"kPushCompletionUlpTx", "erased"}
  PROVE  v.tar.state \in {"erased"} \cup (IF v.type = "kPull" THEN {"kPullDataNtwkTx"} ELSE {})
<1>1. v.type \in Types
  BY DEF Sound, Views
<1>2. v.ini.state = "erased"
  BY <1>1 DEF Sound, Initiated, PullInitiated, UnsolicitedInitiated, SolicitedInitiated, Types,
              DataSent
<1>3. CASE v.type = "kPull"
  BY <1>2, <1>3 DEF Sound, Initiated, PullInitiated, Served, PullServed
<1>4. CASE v.type = "kPushUnsolicited"
  BY <1>2, <1>4 DEF Sound, Initiated, UnsolicitedInitiated, Served, AtUlp, UlpRequest,
                    RdmaOpcodeToPacketType
<1>5. CASE v.type = "kPushSolicited"
  BY <1>2, <1>5 DEF Sound, Initiated, SolicitedInitiated, Served, AtUlp, UlpRequest
<1> QED
  BY <1>1, <1>3, <1>4, <1>5 DEF Types

\* The invariant of every view holds of any workload, in both ordering modes, for any number
\* of packets lost, retransmitted in vain or refused by the ULP.
THEOREM LifeInvariance ==
  ASSUME LifecycleAssumption
  PROVE  LifeSpec => []LifeIInv
<1>1. LifeInit => LifeIInv
  BY LifeStart
<1>2. LifeIInv /\ [LifeNext]_lifeVars => LifeIInv'
  BY LifeStep
<1> QED
  BY <1>1, <1>2, PTL DEF LifeSpec

\* TransactionMetadata::UpdateState has a row for whatever happens, every metadata, context and
\* release the code CHECKs is there, and a transaction that is over has given back at each
\* host all the credits it took there.
THEOREM TransactionsAlwaysSound ==
  ASSUME LifecycleAssumption
  PROVE  LifeSpec => []TransactionsSound
<1>1. LifeIInv => TransactionsSound
  <2> SUFFICES ASSUME LifeIInv PROVE TransactionsSound
    OBVIOUS
  <2>1. LifeTypes
    BY DEF LifeIInv
  <2>2. ASSUME NEW h \in Locations, NEW r \in WorkRsns, NEW t, t = transactions[h][r]
        PROVE  /\ t \in Metadata /\ t.state # "failed" /\ NonNegative(t.held)
               /\ t.state \in Absent => t.held = NoCredits
    <3>1. Sound(View(r)) /\ View(r) \in Views
      BY DEF LifeIInv, Sound
    <3>2. t = View(r).ini \/ t = View(r).tar
      BY <2>2, FieldsNow DEF Locations
    <3>3. t \in Metadata
      BY <3>1, <3>2 DEF Views
    <3> QED
      BY <3>1, <3>2, <3>3, SoundHolds
  <2>3. LifeTypeOK
    BY <2>1, <2>2 DEF LifeTypeOK, LifeTypes, Metadata
  <2>4. NoCheckFails
    BY <2>2 DEF NoCheckFails
  <2>5. CreditsReturned
    BY <2>2 DEF CreditsReturned, NonNegative
  <2> QED
    BY <2>3, <2>4, <2>5 DEF TransactionsSound
<1> QED
  BY <1>1, LifeInvariance, PTL

\* The initiator is never told of a push that the target's ULP has not acknowledged, nor of a
\* pull whose data the target has not sent.
THEOREM NothingCompletesEarly ==
  ASSUME LifecycleAssumption
  PROVE  LifeSpec => []CompletedAtTheTarget
<1>1. LifeIInv => CompletedAtTheTarget
  <2> SUFFICES ASSUME LifeIInv, NEW r \in WorkRsns,
                      transactions["kInitiator"][r].state \in {"kPushCompletionUlpTx", "erased"}
               PROVE  transactions["kTarget"][r].state \in
                        {"erased"} \cup (IF work[r] = "kPull" THEN {"kPullDataNtwkTx"} ELSE {})
    BY DEF CompletedAtTheTarget
  <2> DEFINE v == View(r)
  <2>1. /\ Sound(v) /\ v.ini = transactions["kInitiator"][r] /\ v.type = work[r]
        /\ v.tar = transactions["kTarget"][r]
    BY FieldsNow DEF LifeIInv
  <2> HIDE DEF v
  <2> QED
    BY <2>1, SoundIsComplete
<1> QED
  BY <1>1, LifeInvariance, PTL
=============================================================================
