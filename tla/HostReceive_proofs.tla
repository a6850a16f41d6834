------------------------- MODULE HostReceive_proofs -------------------------
(***************************************************************************)
(* Proofs about what a host does with the packets it receives.             *)
(*                                                                         *)
(* ReceiverNotReady, for every number of requests and every choice of pull *)
(* requests among them, ordered or not: the ULP takes ordered requests in  *)
(* order, refused ones included, and no request is left behind.            *)
(*                                                                         *)
(* HostRxPath, for any number of hosts, any size of RX buffer and of PCIe  *)
(* write queue and any number of packets: a host with work is never left   *)
(* out of the round, a paused host has a completion to come that releases  *)
(* it, and a host's packets stay in order.  The three invariants need each *)
(* other.  The direct path past the RX buffer keeps the order only because *)
(* a buffered packet means a full write queue (XoffHasRelease); the        *)
(* scheduler sends the packet InOrder speaks of only because the head of   *)
(* the round has one (NoLostWakeup).                                       *)
(***************************************************************************)
EXTENDS ReceiverNotReady, HostRxPath, SequenceTheorems, FiniteSetTheorems,
        WellFoundedInduction, TLAPS
-----------------------------------------------------------------------------
(* Sequences by their elements. *)

LEMMA SeqElements ==
  ASSUME NEW S, NEW q \in Seq(S)
  PROVE  Len(q) \in Nat /\ \A i \in 1..Len(q) : q[i] \in S
BY LenProperties, ElementOfSeq

LEMMA TailElements ==
  ASSUME NEW S, NEW q \in Seq(S), q # <<>>
  PROVE  /\ Len(q) \in Nat \ {0} /\ Head(q) = q[1] /\ Head(q) \in S
         /\ Tail(q) \in Seq(S) /\ Len(Tail(q)) = Len(q) - 1
         /\ \A i \in 1..(Len(q) - 1) : Tail(q)[i] = q[i + 1]
BY HeadTailProperties, EmptySeq, LenProperties

LEMMA AppendElements ==
  ASSUME NEW S, NEW q \in Seq(S), NEW e \in S
  PROVE  /\ Append(q, e) \in Seq(S) /\ Len(Append(q, e)) = Len(q) + 1
         /\ \A i \in 1..Len(q) : Append(q, e)[i] = q[i]
         /\ Append(q, e)[Len(q) + 1] = e
BY AppendProperties, LenProperties

\* What SendToUlpTarget appends for the requests n..m-1.
Run(n, m) == [i \in 1..(m - n) |-> n + i - 1]

LEMMA RunElements ==
  ASSUME RnrAssumption, NEW q \in Seq(TargetRsns), NEW n \in 0..MaxRsn, NEW m \in n..MaxRsn
  PROVE  /\ q \o Run(n, m) \in Seq(TargetRsns) /\ Len(q \o Run(n, m)) = Len(q) + (m - n)
         /\ \A i \in 1..Len(q) : (q \o Run(n, m))[i] = q[i]
         /\ \A i \in (Len(q) + 1)..(Len(q) + (m - n)) :
              (q \o Run(n, m))[i] = n + (i - Len(q)) - 1
<1>1. m - n \in Nat /\ \A i \in 1..(m - n) : n + i - 1 \in TargetRsns
  BY DEF RnrAssumption, TargetRsns
<1>2. Run(n, m) \in Seq(TargetRsns) /\ Len(Run(n, m)) = m - n
  <2>1. Run(n, m) \in [1..(m - n) -> TargetRsns]
    BY <1>1 DEF Run
  <2>2. Run(n, m) \in Seq(TargetRsns)
    BY <1>1, <2>1, SeqDef
  <2>3. DOMAIN Run(n, m) = 1..(m - n)
    BY <2>1
  <2> QED
    BY <1>1, <2>2, <2>3, LenProperties
<1>3. Len(q) \in Nat
  BY LenProperties
<1>4. \A i \in 1..(Len(q) + (m - n)) :
        (q \o Run(n, m))[i] = IF i <= Len(q) THEN q[i] ELSE Run(n, m)[i - Len(q)]
  BY <1>2, ConcatProperties
<1>5. q \o Run(n, m) \in Seq(TargetRsns) /\ Len(q \o Run(n, m)) = Len(q) + (m - n)
  BY <1>2, ConcatProperties
<1>6. ASSUME NEW i \in (Len(q) + 1)..(Len(q) + (m - n))
      PROVE  (q \o Run(n, m))[i] = n + (i - Len(q)) - 1
  <2>1. i - Len(q) \in 1..(m - n) /\ i \in 1..(Len(q) + (m - n)) /\ ~(i <= Len(q))
    BY <1>1, <1>3
  <2> QED
    BY <1>4, <2>1 DEF Run
<1>7. \A i \in 1..Len(q) : (q \o Run(n, m))[i] = q[i]
  BY <1>1, <1>3, <1>4
<1> QED
  BY <1>5, <1>6, <1>7

LEMMA LeastNatural ==
  ASSUME NEW T, T \subseteq Nat, T # {}
  PROVE  \E x \in T : \A y \in T : x <= y
<1>1. PICK x \in T : \A y \in T : ~(<<y, x>> \in OpToRel(<, Nat))
  BY NatLessThanWellFounded, WFMin
<1>2. \A y \in T : ~(y < x)
  BY <1>1 DEF OpToRel
<1> QED
  BY <1>2

\* CheckTargetRsnBuffer stops at the first request that is not ready.
LEMMA RunEndStops ==
  ASSUME RnrAssumption, NEW b, NEW n \in 0..MaxRsn
  PROVE  /\ RunEnd(b, n) \in n..MaxRsn
         /\ \A k \in n..(RunEnd(b, n) - 1) : Ready(b, k)
         /\ RunEnd(b, n) < MaxRsn => ~Ready(b, RunEnd(b, n))
<1> DEFINE stops == {m \in n..MaxRsn : m = MaxRsn \/ ~Ready(b, m)}
<1>1. stops \subseteq Nat /\ MaxRsn \in stops
  BY DEF RnrAssumption
<1>2. PICK m \in stops : \A k \in stops : m <= k
  <2> HIDE DEF stops
  <2> QED
    BY <1>1, LeastNatural
<1>3. RunEnd(b, n) = CHOOSE x \in stops : \A y \in stops : x =< y
  BY DEF RunEnd, Min
<1>4. RunEnd(b, n) \in stops /\ \A y \in stops : RunEnd(b, n) <= y
  <2> HIDE DEF stops
  <2> QED
    BY <1>2, <1>3
<1>5. \A k \in n..(RunEnd(b, n) - 1) : k \in n..MaxRsn /\ k \notin stops
  BY <1>4 DEF RnrAssumption
<1> QED
  BY <1>4, <1>5
-----------------------------------------------------------------------------
(* SendToUlpTarget. *)

\* What is handed to the RX queue was in the buffer, and so nowhere else.
LEMMA SendPlaces ==
  ASSUME RnrAssumption, rxQ \in Seq(TargetRsns),
         \A i, j \in 1..Len(rxQ) : rxQ[i] = rxQ[j] => i = j,
         NEW b \in [TargetRsns -> RetryTimes], NEW st \in [TargetRsns -> Stages],
         PlacesAgree(b, st, rxQ),
         NEW n \in 0..MaxRsn, NEW m \in n..MaxRsn,
         \A k \in n..(m - 1) : b[k] \in {"new", "due", "waiting"},
         SendToUlpTarget(b, n, m)
  PROVE  /\ buffer' \in [TargetRsns -> RetryTimes] /\ rxQ' \in Seq(TargetRsns)
         /\ PlacesAgree(buffer', st, rxQ')
         /\ \A i, j \in 1..Len(rxQ') : rxQ'[i] = rxQ'[j] => i = j
<1>1. /\ rxQ' \in Seq(TargetRsns) /\ Len(rxQ') = Len(rxQ) + (m - n)
      /\ \A i \in 1..Len(rxQ) : rxQ'[i] = rxQ[i]
      /\ \A i \in (Len(rxQ) + 1)..(Len(rxQ) + (m - n)) : rxQ'[i] = n + (i - Len(rxQ)) - 1
  <2>1. rxQ' = rxQ \o Run(n, m)
    BY DEF SendToUlpTarget, Run
  <2> QED
    BY ZenonT(60), <2>1, RunElements
<1>2. buffer' = [r \in TargetRsns |-> IF r \in n..(m - 1) THEN "flight" ELSE b[r]]
  BY DEF SendToUlpTarget
<1>3. Len(rxQ) \in Nat /\ m - n \in Nat /\ \A i \in 1..Len(rxQ) : rxQ[i] \in TargetRsns
  BY SeqElements DEF RnrAssumption
<1>4. ASSUME NEW r \in TargetRsns
      PROVE  Queued(rxQ', r) <=> Queued(rxQ, r) \/ r \in n..(m - 1)
  <2>1. ASSUME Queued(rxQ', r) PROVE Queued(rxQ, r) \/ r \in n..(m - 1)
    <3>1. PICK i \in 1..Len(rxQ') : rxQ'[i] = r
      BY <2>1 DEF Queued
    <3>2. CASE i \in 1..Len(rxQ)
      BY <1>1, <3>1, <3>2 DEF Queued
    <3>3. CASE i \in (Len(rxQ) + 1)..(Len(rxQ) + (m - n))
      BY <1>1, <1>3, <3>1, <3>3
    <3> QED
      BY <1>1, <1>3, <3>2, <3>3
  <2>2. ASSUME Queued(rxQ, r) PROVE Queued(rxQ', r)
    <3>1. PICK i \in 1..Len(rxQ) : rxQ[i] = r
      BY <2>2 DEF Queued
    <3>2. i \in 1..Len(rxQ') /\ rxQ'[i] = r
      BY <1>1, <1>3, <3>1
    <3> QED
      BY <3>2 DEF Queued
  <2>3. ASSUME r \in n..(m - 1) PROVE Queued(rxQ', r)
    <3>1. Len(rxQ) + (r - n) + 1 \in (Len(rxQ) + 1)..(Len(rxQ) + (m - n))
      BY <1>3, <2>3
    <3>2. rxQ'[Len(rxQ) + (r - n) + 1] = r /\ Len(rxQ) + (r - n) + 1 \in 1..Len(rxQ')
      BY <1>1, <1>3, <2>3, <3>1
    <3> QED
      BY <3>2 DEF Queued
  <2> QED
    BY <2>1, <2>2, <2>3
<1>5. ASSUME NEW r \in TargetRsns, r \in n..(m - 1) PROVE ~Queued(rxQ, r)
  BY <1>5 DEF PlacesAgree
<1>6. PlacesAgree(buffer', st, rxQ')
  BY <1>2, <1>4 DEF PlacesAgree, RetryTimes
<1>7. ASSUME NEW i \in 1..Len(rxQ'), NEW j \in 1..Len(rxQ'), rxQ'[i] = rxQ'[j]
      PROVE  i = j
  <2>1. CASE i <= Len(rxQ) /\ j <= Len(rxQ)
    BY <1>1, <1>3, <1>7, <2>1
  <2>2. CASE ~(i <= Len(rxQ)) /\ ~(j <= Len(rxQ))
    <3>1. /\ i \in (Len(rxQ) + 1)..(Len(rxQ) + (m - n))
          /\ j \in (Len(rxQ) + 1)..(Len(rxQ) + (m - n))
      BY <1>1, <1>3, <2>2
    <3>2. n + (i - Len(rxQ)) - 1 = n + (j - Len(rxQ)) - 1
      BY <1>1, <1>7, <3>1
    <3>3. n \in Int /\ i \in Int /\ j \in Int /\ Len(rxQ) \in Int
      BY <1>3
    <3> QED
      BY <3>2, <3>3
  <2>3. ASSUME NEW k \in 1..Len(rxQ), NEW l \in (Len(rxQ) + 1)..Len(rxQ'),
               rxQ'[k] = rxQ'[l]
        PROVE  FALSE
    <3>1. rxQ[k] \in TargetRsns /\ rxQ[k] \in n..(m - 1)
      BY SMTT(30), <1>1, <1>3, <2>3
    <3> QED
      BY <1>5, <3>1 DEF Queued
  <2> QED
    BY <1>1, <1>3, <1>7, <2>1, <2>2, <2>3
<1>8. buffer' \in [TargetRsns -> RetryTimes]
  BY <1>2 DEF RetryTimes
<1> QED
  BY <1>1, <1>6, <1>7, <1>8

\* In order, the run that is sent continues the one the queue ends in, or
\* starts with the request the queue pair waits for, or follows a refusal.
LEMMA CheckTargetRsnBufferOrdered ==
  ASSUME RnrAssumption, RnrTypeOK, ordered,
         AcceptedBelow, QueueEndsInRun, ExpectedIsComing, UlpInOrder,
         NEW b \in [TargetRsns -> RetryTimes], NEW st \in [TargetRsns -> Stages],
         PlacesAgree(b, st, rxQ), NoneBehind(b, st, nextTarget),
         CheckTargetRsnBuffer(b), stage' = st, Acked' = Acked,
         UNCHANGED <<ordered, nextRx, qpRnr, responses, late>>
  PROVE  /\ AcceptedBelow' /\ QueueEndsInRun' /\ ExpectedIsComing' /\ UlpInOrder'
         /\ NoneBehind(buffer', st, nextTarget') /\ EngineStopped'
         /\ nextTarget' \in 0..MaxRsn
<1> DEFINE n == nextTarget
           m == RunEnd(b, n)
<1>0. n \in 0..MaxRsn /\ nextRx \in 0..MaxRsn /\ rxQ \in Seq(TargetRsns) /\ MaxRsn \in Nat
  BY DEF RnrTypeOK, RnrAssumption
<1>1. /\ m \in n..MaxRsn /\ \A k \in n..(m - 1) : Ready(b, k)
      /\ m < MaxRsn => ~Ready(b, m)
  BY <1>0, RunEndStops
<1>2. /\ buffer' = [r \in TargetRsns |-> IF r \in n..(m - 1) THEN "flight" ELSE b[r]]
      /\ rxQ' = rxQ \o Run(n, m) /\ nextTarget' = m
  BY DEF CheckTargetRsnBuffer, SendToUlpTarget, Run
<1> HIDE DEF m
<1>3. /\ rxQ' \in Seq(TargetRsns) /\ Len(rxQ') = Len(rxQ) + (m - n)
      /\ \A i \in 1..Len(rxQ) : rxQ'[i] = rxQ[i]
      /\ \A i \in (Len(rxQ) + 1)..(Len(rxQ) + (m - n)) : rxQ'[i] = n + (i - Len(rxQ)) - 1
  BY ZenonT(60), <1>0, <1>1, <1>2, RunElements
<1>4. Len(rxQ) \in Nat /\ m - n \in Nat /\ \A i \in 1..Len(rxQ) : rxQ[i] \in TargetRsns
  BY <1>0, <1>1, SeqElements
<1>5. nextRx <= n /\ \A i \in 1..Len(rxQ) : rxQ[i] >= nextRx
  BY DEF AcceptedBelow
<1>6. AcceptedBelow'
  <2>1. nextRx' <= nextTarget'
    BY <1>0, <1>1, <1>2, <1>5
  <2>2. \A i \in 1..Len(rxQ') : rxQ'[i] >= nextRx'
    BY SMTT(30), <1>0, <1>1, <1>3, <1>4, <1>5
  <2> QED
    BY <2>1, <2>2 DEF AcceptedBelow
<1>7. QueueEndsInRun'
  <2> SUFFICES ASSUME NEW i \in 1..Len(rxQ'), rxQ'[i] = nextRx
               PROVE  /\ m = nextRx + (Len(rxQ') - i) + 1
                      /\ \A j \in i..Len(rxQ') : rxQ'[j] = nextRx + (j - i)
    BY <1>2 DEF QueueEndsInRun
  <2>1. CASE i \in 1..Len(rxQ)
    <3>1. /\ n = nextRx + (Len(rxQ) - i) + 1
          /\ \A j \in i..Len(rxQ) : rxQ[j] = nextRx + (j - i)
      BY <1>3, <2>1 DEF QueueEndsInRun
    <3>2. m = nextRx + (Len(rxQ') - i) + 1
      BY <1>0, <1>1, <1>3, <1>4, <2>1, <3>1
    <3>3. ASSUME NEW j \in i..Len(rxQ') PROVE rxQ'[j] = nextRx + (j - i)
      <4>1. CASE j <= Len(rxQ)
        BY <1>3, <1>4, <2>1, <3>1, <4>1
      <4>2. CASE ~(j <= Len(rxQ))
        BY <1>0, <1>1, <1>3, <1>4, <2>1, <3>1, <4>2
      <4> QED
        BY <4>1, <4>2
    <3> QED
      BY <3>2, <3>3
  <2>2. CASE i \in (Len(rxQ) + 1)..(Len(rxQ) + (m - n))
    <3>1. nextRx = n + (i - Len(rxQ)) - 1
      BY <1>3, <2>2
    <3>2. i = Len(rxQ) + 1 /\ nextRx = n
      <4>1. n \in Int /\ nextRx \in Int /\ i \in Int /\ Len(rxQ) \in Int
        BY <1>0, <1>4, <2>2
      <4>2. i >= Len(rxQ) + 1 /\ nextRx <= n
        BY <1>4, <1>5, <2>2
      <4> QED
        BY <3>1, <4>1, <4>2
    <3> QED
      BY <1>0, <1>1, <1>3, <1>4, <3>2
  <2> QED
    BY <1>3, <1>4, <2>1, <2>2
<1>8. ASSUME Queued(rxQ, nextRx) PROVE Queued(rxQ', nextRx)
  <2>1. PICK i \in 1..Len(rxQ) : rxQ[i] = nextRx
    BY <1>8 DEF Queued
  <2>2. i \in 1..Len(rxQ') /\ rxQ'[i] = nextRx
    BY <1>3, <1>4, <2>1
  <2> QED
    BY <2>2 DEF Queued
<1>9. ASSUME n = nextRx, m # n PROVE Queued(rxQ', nextRx) /\ rxQ'[Len(rxQ) + 1] = nextRx
  <2>1. Len(rxQ) + 1 \in (Len(rxQ) + 1)..(Len(rxQ) + (m - n))
    BY <1>0, <1>1, <1>4, <1>9
  <2>2. rxQ'[Len(rxQ) + 1] = nextRx /\ Len(rxQ) + 1 \in 1..Len(rxQ')
    BY <1>0, <1>3, <1>4, <1>9, <2>1
  <2> QED
    BY <2>2 DEF Queued
<1>10. ExpectedIsComing'
  <2>1. CASE n = nextRx
    BY <1>2, <1>9, <2>1 DEF ExpectedIsComing, Queued
  <2>2. CASE Queued(rxQ, nextRx)
    BY <1>8, <2>2 DEF ExpectedIsComing, Queued
  <2>3. CASE qpRnr /\ AnsweredAt(nextRx) # {}
    BY <2>3 DEF ExpectedIsComing, AnsweredAt
  <2> QED
    BY <2>1, <2>2, <2>3 DEF ExpectedIsComing
<1>11. UlpInOrder'
  <2> SUFFICES ASSUME rxQ' # <<>>, ~qpRnr PROVE Head(rxQ') = nextRx
    BY DEF UlpInOrder
  <2>1. Head(rxQ') = rxQ'[1] /\ Len(rxQ') \in Nat \ {0}
    BY <1>3, TailElements
  <2>2. CASE rxQ = <<>>
    <3>1. Len(rxQ) = 0
      BY <2>2
    <3>2. m # n
      BY <1>0, <1>3, <2>1, <3>1
    <3>3. n = nextRx
      BY <3>1 DEF ExpectedIsComing, Queued
    <3> QED
      BY <1>9, <2>1, <3>1, <3>2, <3>3
  <2>3. CASE rxQ # <<>>
    <3>1. Head(rxQ) = nextRx
      BY <2>3 DEF UlpInOrder
    <3>2. rxQ[1] = nextRx /\ Len(rxQ) \in Nat \ {0}
      BY <1>0, <2>3, <3>1, TailElements
    <3> QED
      BY <1>3, <2>1, <3>2
  <2> QED
    BY <2>2, <2>3
<1>12. NoneBehind(buffer', st, nextTarget') /\ EngineStopped'
  <2>1. ASSUME NEW r \in TargetRsns, buffer'[r] \in {"new", "due", "waiting"} \/ st[r] = "none"
        PROVE  r >= m
    <3>1. r \notin n..(m - 1)
      <4>1. CASE buffer'[r] \in {"new", "due", "waiting"}
        BY <1>2, <4>1
      <4>2. CASE st[r] = "none"
        BY <1>1, <4>2 DEF PlacesAgree, Ready
      <4> QED
        BY <2>1, <4>1, <4>2
    <3>2. b[r] \in {"new", "due", "waiting"} \/ st[r] = "none"
      BY <1>2, <2>1, <3>1
    <3>3. r >= n
      BY <3>2 DEF NoneBehind
    <3> QED
      BY <1>0, <1>1, <3>1, <3>3 DEF TargetRsns
  <2>2. ASSUME m < MaxRsn PROVE ~Ready(buffer', m)
    BY <1>0, <1>1, <1>2, <2>2 DEF Ready, TargetRsns
  <2> QED
    BY <1>2, <2>1, <2>2 DEF NoneBehind, EngineStopped, Ready
<1> QED
  BY <1>0, <1>1, <1>2, <1>6, <1>7, <1>10, <1>11, <1>12
-----------------------------------------------------------------------------
(* The reorder engine's steps. *)

\* A request that waits in the buffer is changed in it (b, st) and then sent,
\* with what follows it, or held.
LEMMA EngineStep ==
  ASSUME RnrAssumption, RnrIInv,
         NEW r \in TargetRsns,
         NEW b \in [TargetRsns -> RetryTimes], NEW st \in [TargetRsns -> Stages],
         PlacesAgree(b, st, rxQ), NoneBehind(b, st, nextTarget) \/ ~ordered,
         b[r] \in {"new", "due", "waiting"},
         \A s \in TargetRsns : s # r => b[s] = buffer[s],
         \A s \in TargetRsns : st[s] = "AckUlpRx" <=> stage[s] = "AckUlpRx",
         \/ ~ordered /\ SendToUlpTarget(b, r, r + 1)
         \/ ordered /\ CheckTargetRsnBuffer(b)
         \/ ordered /\ r # nextTarget /\ Hold(b),
         stage' = st, nacked' \subseteq TargetRsns,
         UNCHANGED <<nextNetwork, inRnr, qpVars, responses, late>>
  PROVE  RnrIInv'
<1>1. /\ RnrTypeOK /\ OnePlaceEach /\ rxQ \in Seq(TargetRsns) /\ nextTarget \in 0..MaxRsn
      /\ buffer \in [TargetRsns -> RetryTimes] /\ MaxRsn \in Nat
      /\ \A i, j \in 1..Len(rxQ) : rxQ[i] = rxQ[j] => i = j
  BY DEF RnrIInv, RnrTypeOK, OnePlaceEach, RnrAssumption
<1>2. Acked' = Acked
  BY DEF Acked
<1>3. ASSUME /\ buffer' \in [TargetRsns -> RetryTimes] /\ rxQ' \in Seq(TargetRsns)
             /\ nextTarget' \in 0..MaxRsn
             /\ PlacesAgree(buffer', st, rxQ')
             /\ \A i, j \in 1..Len(rxQ') : rxQ'[i] = rxQ'[j] => i = j
             /\ ordered => OrderedInv'
      PROVE  RnrIInv'
  <2>1. RnrTypeOK'
    BY <1>1, <1>3 DEF RnrTypeOK, qpVars
  <2>2. OnePlaceEach'
    BY <1>1, <1>3 DEF OnePlaceEach
  <2>3. PlacesAgree(buffer, stage, rxQ)'
    BY <1>3 DEF PlacesAgree, AnsweredAt, Queued
  <2> QED
    BY <1>3, <2>1, <2>2, <2>3 DEF RnrIInv, qpVars
<1>4. CASE ~ordered /\ SendToUlpTarget(b, r, r + 1)
  <2>1. /\ r \in 0..MaxRsn /\ r + 1 \in r..MaxRsn
        /\ \A k \in r..((r + 1) - 1) : b[k] \in {"new", "due", "waiting"}
    BY <1>1 DEF TargetRsns
  <2>2. nextTarget' = nextTarget
    BY <1>4 DEF SendToUlpTarget
  <2>3. /\ buffer' \in [TargetRsns -> RetryTimes] /\ rxQ' \in Seq(TargetRsns)
        /\ PlacesAgree(buffer', st, rxQ')
        /\ \A i, j \in 1..Len(rxQ') : rxQ'[i] = rxQ'[j] => i = j
    BY <1>1, <1>4, <2>1, SendPlaces
  <2> QED
    BY <1>1, <1>3, <1>4, <2>2, <2>3
<1>5. CASE ordered /\ CheckTargetRsnBuffer(b)
  <2>1. OrderedInv /\ NoneBehind(b, st, nextTarget)
    BY <1>5 DEF RnrIInv
  <2>2. /\ AcceptedBelow' /\ QueueEndsInRun' /\ ExpectedIsComing' /\ UlpInOrder'
        /\ NoneBehind(buffer', st, nextTarget') /\ EngineStopped'
        /\ nextTarget' \in 0..MaxRsn
    BY <1>1, <1>2, <1>5, <2>1, CheckTargetRsnBufferOrdered DEF OrderedInv, qpVars
  <2>3. RunEnd(b, nextTarget) \in nextTarget..MaxRsn
        /\ \A k \in nextTarget..(RunEnd(b, nextTarget) - 1) : b[k] \in {"new", "due", "waiting"}
    BY <1>1, RunEndStops DEF Ready
  <2>4. /\ buffer' \in [TargetRsns -> RetryTimes] /\ rxQ' \in Seq(TargetRsns)
        /\ PlacesAgree(buffer', st, rxQ')
        /\ \A i, j \in 1..Len(rxQ') : rxQ'[i] = rxQ'[j] => i = j
    BY <1>1, <1>5, <2>3, SendPlaces DEF CheckTargetRsnBuffer
  <2>5. RnrAcksCounted'
    BY <1>2, <2>1 DEF OrderedInv, RnrAcksCounted
  <2>6. NoneBehind(buffer, stage, nextTarget)'
    BY <2>2 DEF NoneBehind
  <2> QED
    BY <1>3, <2>2, <2>4, <2>5, <2>6 DEF OrderedInv
<1>6. CASE ordered /\ r # nextTarget /\ Hold(b)
  <2>1. buffer' = b /\ rxQ' = rxQ /\ nextTarget' = nextTarget
    BY <1>6 DEF Hold
  <2>2. OrderedInv /\ NoneBehind(b, st, nextTarget)
    BY <1>6 DEF RnrIInv
  <2>3. AcceptedBelow'
    BY <1>2, <2>1, <2>2 DEF OrderedInv, AcceptedBelow, qpVars
  <2>4. QueueEndsInRun' /\ UlpInOrder'
    BY <2>1, <2>2 DEF OrderedInv, QueueEndsInRun, UlpInOrder, qpVars
  <2>5. ExpectedIsComing'
    BY <2>1, <2>2 DEF OrderedInv, ExpectedIsComing, Queued, AnsweredAt, qpVars
  <2>6. NoneBehind(buffer, stage, nextTarget)'
    BY <2>1, <2>2 DEF NoneBehind
  <2>7. EngineStopped'
    <3>1. nextTarget < MaxRsn => nextTarget \in TargetRsns
      BY <1>1 DEF TargetRsns
    <3> QED
      BY <1>6, <2>1, <2>2, <3>1 DEF OrderedInv, EngineStopped, Ready
  <2>8. RnrAcksCounted'
    BY <1>2, <2>2 DEF OrderedInv, RnrAcksCounted
  <2> QED
    BY <1>1, <1>3, <2>1, <2>3, <2>4, <2>5, <2>6, <2>7, <2>8 DEF OrderedInv
<1> QED
  BY <1>4, <1>5, <1>6

LEMMA InsertPacketStep ==
  ASSUME RnrAssumption, RnrIInv, NEW r \in TargetRsns, InsertPacket(r)
  PROVE  RnrIInv'
<1> DEFINE b == [buffer EXCEPT ![r] = "new"]
<1>1. /\ buffer \in [TargetRsns -> RetryTimes] /\ stage \in [TargetRsns -> Stages]
      /\ nacked \subseteq TargetRsns /\ PlacesAgree(buffer, stage, rxQ)
      /\ ordered => NoneBehind(buffer, stage, nextTarget)
  BY DEF RnrIInv, RnrTypeOK, OrderedInv
<1>2. stage[r] = "none" /\ stage' \in {[stage EXCEPT ![r] = "RnrUlpRx"], [stage EXCEPT ![r] = "NtwkRx"]}
  BY DEF InsertPacket, TransferRxPacket
<1>3. stage' \in [TargetRsns -> Stages] /\ b \in [TargetRsns -> RetryTimes] /\ nacked' \subseteq TargetRsns
  BY <1>1, <1>2 DEF Stages, RetryTimes, InsertPacket, TransferRxPacket
<1>4. PlacesAgree(b, stage', rxQ)
  BY <1>1, <1>2 DEF PlacesAgree, Stages, RetryTimes
<1>5. ordered => NoneBehind(b, stage', nextTarget)
  BY <1>1, <1>2 DEF NoneBehind
<1>6. \A s \in TargetRsns : (s # r => b[s] = buffer[s])
                      /\ (stage'[s] = "AckUlpRx" <=> stage[s] = "AckUlpRx")
  BY <1>1, <1>2
<1>7. b[r] = "new"
  BY <1>1
<1>8. \/ ~ordered /\ SendToUlpTarget(b, r, r + 1)
      \/ ordered /\ CheckTargetRsnBuffer(b)
      \/ ordered /\ r # nextTarget /\ Hold(b)
  BY DEF InsertPacket
<1>9. UNCHANGED <<nextNetwork, inRnr, qpVars, responses, late>>
  BY DEF InsertPacket
<1> QED
  <2> HIDE DEF b
  <2> QED
    BY <1>3, <1>4, <1>5, <1>6, <1>7, <1>8, <1>9, EngineStep

\* The timer's expiry, or a duplicate's: a request in the buffer is now due.
LEMMA DueStep ==
  ASSUME RnrAssumption, RnrIInv, NEW r \in TargetRsns, NEW t \in {"new", "due", "waiting"},
         buffer[r] \in {"new", "due", "waiting"},
         LET b == [buffer EXCEPT ![r] = t]
         IN  \/ ~ordered /\ SendToUlpTarget(b, r, r + 1)
             \/ ordered /\ CheckTargetRsnBuffer(b)
             \/ ordered /\ r # nextTarget /\ Hold(b),
         UNCHANGED <<nextNetwork, inRnr, metadataVars, qpVars, responses, late>>
  PROVE  RnrIInv'
<1> DEFINE b == [buffer EXCEPT ![r] = t]
<1>1. /\ buffer \in [TargetRsns -> RetryTimes] /\ stage \in [TargetRsns -> Stages]
      /\ nacked \subseteq TargetRsns /\ PlacesAgree(buffer, stage, rxQ)
      /\ ordered => NoneBehind(buffer, stage, nextTarget)
  BY DEF RnrIInv, RnrTypeOK, OrderedInv
<1>2. stage' = stage /\ nacked' = nacked
  BY DEF metadataVars
<1>3. b \in [TargetRsns -> RetryTimes]
  BY <1>1 DEF RetryTimes
<1>4. PlacesAgree(b, stage, rxQ)
  BY <1>1 DEF PlacesAgree, RetryTimes
<1>5. ordered => NoneBehind(b, stage, nextTarget)
  BY <1>1 DEF NoneBehind
<1>6. \A s \in TargetRsns : s # r => b[s] = buffer[s]
  BY <1>1
<1>7. b[r] = t
  BY <1>1
<1>8. \/ ~ordered /\ SendToUlpTarget(b, r, r + 1)
      \/ ordered /\ CheckTargetRsnBuffer(b)
      \/ ordered /\ r # nextTarget /\ Hold(b)
  OBVIOUS
<1> QED
  <2> HIDE DEF b
  <2> QED
    BY <1>1, <1>2, <1>3, <1>4, <1>5, <1>6, <1>7, <1>8, EngineStep

LEMMA RetryRnrNackedPacketStep ==
  ASSUME RnrAssumption, RnrIInv, NEW r \in TargetRsns, RetryRnrNackedPacket(r)
  PROVE  RnrIInv'
<1>1. buffer \in [TargetRsns -> RetryTimes]
  BY DEF RnrIInv, RnrTypeOK
<1>2. buffer[r] \in {"new", "due", "waiting"}
  BY <1>1 DEF RetryRnrNackedPacket, RetryTimes
<1>3. [buffer EXCEPT ![r] = buffer[r]] = buffer
  BY <1>1
<1>4. CASE ordered
  BY <1>2, <1>4, DueStep DEF RetryRnrNackedPacket
<1>5. CASE ~ordered
  <2>1. LET b == [buffer EXCEPT ![r] = buffer[r]]
        IN  ~ordered /\ SendToUlpTarget(b, r, r + 1)
    BY <1>3, <1>5 DEF RetryRnrNackedPacket
  <2> QED
    BY <1>2, <2>1, DueStep DEF RetryRnrNackedPacket
<1> QED
  BY <1>4, <1>5

LEMMA HandleRnrTimeoutStep ==
  ASSUME RnrAssumption, RnrIInv, NEW r \in TargetRsns, HandleRnrTimeout(r)
  PROVE  RnrIInv'
BY DueStep DEF HandleRnrTimeout
-----------------------------------------------------------------------------
(* The queue pair takes the head of the RX queue and schedules an answer. *)

LEMMA UlpTakesHead ==
  ASSUME RnrAssumption, RnrIInv, rxQ # <<>>, NEW k \in BOOLEAN,
         stage' = [stage EXCEPT ![Head(rxQ)] = "UlpTx"],
         responses' = Append(responses, Response(Head(rxQ), k)),
         rxQ' = Tail(rxQ), late' = late, buffer' = buffer
  PROVE  /\ Head(rxQ) \in TargetRsns /\ Head(rxQ) = rxQ[1]
         /\ stage' \in [TargetRsns -> Stages] /\ rxQ' \in Seq(TargetRsns)
         /\ responses' \in Seq([rsn : TargetRsns, ok : BOOLEAN])
         /\ Len(rxQ) \in Nat \ {0} /\ Len(rxQ') = Len(rxQ) - 1
         /\ \A i \in 1..(Len(rxQ) - 1) : rxQ'[i] = rxQ[i + 1]
         /\ Len(responses) \in Nat /\ Len(responses') = Len(responses) + 1
         /\ \A i \in 1..Len(responses) : responses'[i] = responses[i]
         /\ responses'[Len(responses) + 1].rsn = Head(rxQ)
         /\ responses'[Len(responses) + 1].ok = k
         /\ \A x \in TargetRsns : AnsweredAt(x)' # {} <=> AnsweredAt(x) # {} \/ x = Head(rxQ)
         /\ \A x \in TargetRsns : Queued(rxQ', x) <=> Queued(rxQ, x) /\ x # Head(rxQ)
         /\ AnsweredAt(Head(rxQ)) = {}
         /\ PlacesAgree(buffer, stage, rxQ)' /\ OnePlaceEach' /\ Acked' = Acked
<1> DEFINE r == Head(rxQ)
           A == [rsn : TargetRsns, ok : BOOLEAN]
           n == Len(rxQ)
           p == Len(responses)
<1>0. /\ rxQ \in Seq(TargetRsns) /\ responses \in Seq(A) /\ stage \in [TargetRsns -> Stages]
      /\ buffer \in [TargetRsns -> RetryTimes]
      /\ PlacesAgree(buffer, stage, rxQ) /\ OnePlaceEach
  BY DEF RnrIInv, RnrTypeOK
<1>1. /\ n \in Nat \ {0} /\ r = rxQ[1] /\ r \in TargetRsns /\ rxQ' \in Seq(TargetRsns)
      /\ Len(rxQ') = n - 1 /\ \A i \in 1..(n - 1) : rxQ'[i] = rxQ[i + 1]
  BY <1>0, TailElements
<1>2. Response(r, k) \in A /\ Response(r, k).rsn = r /\ Response(r, k).ok = k
  BY <1>1 DEF Response
<1>3. /\ responses' \in Seq(A) /\ Len(responses') = p + 1 /\ p \in Nat
      /\ \A i \in 1..p : responses'[i] = responses[i]
      /\ responses'[p + 1] = Response(r, k)
  <2> HIDE DEF A
  <2> QED
    BY <1>0, <1>2, AppendElements, LenProperties
<1> HIDE DEF A
<1>4. responses'[p + 1].rsn = r /\ responses'[p + 1].ok = k
  BY <1>2, <1>3
<1>5. ASSUME NEW x \in TargetRsns
      PROVE  AnsweredAt(x)' # {} <=> AnsweredAt(x) # {} \/ x = r
  <2>1. ASSUME NEW i \in 1..Len(responses'), responses'[i].rsn = x
        PROVE  AnsweredAt(x) # {} \/ x = r
    <3>1. CASE i = p + 1
      BY <1>4, <2>1, <3>1
    <3>2. CASE i \in 1..p
      BY <1>3, <2>1, <3>2 DEF AnsweredAt
    <3> QED
      BY <1>3, <3>1, <3>2
  <2>2. ASSUME NEW i \in 1..p, responses[i].rsn = x PROVE AnsweredAt(x)' # {}
    <3>1. i \in 1..Len(responses') /\ responses'[i].rsn = x
      BY <1>3, <2>2
    <3> QED
      BY <3>1 DEF AnsweredAt
  <2>3. ASSUME x = r PROVE AnsweredAt(x)' # {}
    <3>1. p + 1 \in 1..Len(responses') /\ responses'[p + 1].rsn = x
      BY <1>3, <1>4, <2>3
    <3> QED
      BY <3>1 DEF AnsweredAt
  <2> QED
    BY <2>1, <2>2, <2>3 DEF AnsweredAt
<1>6. \A i, j \in 1..n : rxQ[i] = rxQ[j] => i = j
  BY <1>0 DEF OnePlaceEach
<1>7. ASSUME NEW x \in TargetRsns
      PROVE  Queued(rxQ', x) <=> Queued(rxQ, x) /\ x # r
  <2>1. ASSUME NEW i \in 1..Len(rxQ'), rxQ'[i] = x PROVE Queued(rxQ, x) /\ x # r
    <3>1. i + 1 \in 1..n /\ rxQ[i + 1] = x /\ 1 \in 1..n /\ i + 1 # 1
      BY <1>1, <2>1
    <3> QED
      BY <1>1, <1>6, <3>1 DEF Queued
  <2>2. ASSUME NEW i \in 1..n, rxQ[i] = x, x # r PROVE Queued(rxQ', x)
    <3>1. i - 1 \in 1..(n - 1) /\ (i - 1) + 1 = i
      BY <1>1, <2>2
    <3>2. rxQ'[i - 1] = x
      BY <1>1, <2>2, <3>1
    <3> QED
      BY <1>1, <3>1, <3>2 DEF Queued
  <2> QED
    BY <2>1, <2>2 DEF Queued
<1>8. Queued(rxQ, r)
  BY <1>1 DEF Queued
<1>9. buffer[r] = "flight" /\ stage[r] # "UlpTx" /\ stage[r] # "AckUlpRx" /\ AnsweredAt(r) = {} /\ r \notin late
  BY <1>0, <1>1, <1>8 DEF PlacesAgree
<1>10. stage' \in [TargetRsns -> Stages] /\ stage'[r] = "UlpTx"
       /\ \A x \in TargetRsns : x # r => stage'[x] = stage[x]
  BY <1>0, <1>1 DEF Stages
<1>11. PlacesAgree(buffer, stage, rxQ)'
  <2> SUFFICES ASSUME NEW x \in TargetRsns
               PROVE  /\ buffer[x] = "absent" <=> stage'[x] \in {"none", "AckUlpRx"}
                      /\ stage'[x] = "UlpTx" => buffer[x] = "flight"
                      /\ Queued(rxQ', x) <=> buffer[x] = "flight" /\ stage'[x] # "UlpTx"
                      /\ AnsweredAt(x)' # {} \/ x \in late => stage'[x] = "UlpTx"
                      /\ AnsweredAt(x)' # {} => x \notin late
    BY DEF PlacesAgree, Queued
  <2>1. CASE x = r
    BY <1>7, <1>9, <1>10, <2>1
  <2>2. CASE x # r
    BY <1>0, <1>5, <1>7, <1>10, <2>2 DEF PlacesAgree
  <2> QED
    BY <2>1, <2>2
<1>12. OnePlaceEach'
  <2>1. ASSUME NEW i \in 1..Len(rxQ'), NEW j \in 1..Len(rxQ'), rxQ'[i] = rxQ'[j]
        PROVE  i = j
    <3>1. /\ i + 1 \in 1..n /\ j + 1 \in 1..n /\ rxQ[i + 1] = rxQ[j + 1]
          /\ i \in Int /\ j \in Int
      BY <1>1, <2>1
    <3>2. i + 1 = j + 1
      BY <1>6, <3>1
    <3> QED
      BY <3>1, <3>2
  <2>2. \A i \in 1..p : responses[i].rsn # r
    BY <1>9 DEF AnsweredAt
  <2>3. \A i, j \in 1..p : responses[i].rsn = responses[j].rsn => i = j
    BY <1>0 DEF OnePlaceEach
  <2>4. ASSUME NEW i \in 1..Len(responses'), NEW j \in 1..Len(responses'),
               responses'[i].rsn = responses'[j].rsn
        PROVE  i = j
    BY <1>3, <1>4, <2>2, <2>3, <2>4
  <2> QED
    BY <2>1, <2>4 DEF OnePlaceEach
<1>13. Acked' = Acked
  BY <1>0, <1>1, <1>9, <1>10 DEF Acked
<1> QED
  BY <1>1, <1>3, <1>4, <1>5, <1>7, <1>9, <1>10, <1>11, <1>12, <1>13 DEF A

\* A refusal puts the queue pair in RNR state, and itself on its way.
LEMMA ProcessRefusedStep ==
  ASSUME RnrAssumption, RnrIInv, ProcessRefused
  PROVE  RnrIInv'
<1> DEFINE r == Head(rxQ)
           n == Len(rxQ)
           p == Len(responses)
<1>1. /\ rxQ # <<>> /\ stage' = [stage EXCEPT ![Head(rxQ)] = "UlpTx"]
      /\ responses' = Append(responses, Response(Head(rxQ), FALSE)) /\ rxQ' = Tail(rxQ)
      /\ qpRnr' = (ordered \/ qpRnr) /\ nacked' = nacked /\ late' = late
      /\ ordered' = ordered /\ nextRx' = nextRx
      /\ buffer' = buffer /\ nextTarget' = nextTarget /\ nextNetwork' = nextNetwork
      /\ inRnr' = inRnr
  BY DEF ProcessRefused, engineVars
<1>2. FALSE \in BOOLEAN
  OBVIOUS
<1>3. /\ r \in TargetRsns /\ r = rxQ[1]
      /\ stage' \in [TargetRsns -> Stages] /\ rxQ' \in Seq(TargetRsns)
      /\ responses' \in Seq([rsn : TargetRsns, ok : BOOLEAN])
      /\ n \in Nat \ {0} /\ Len(rxQ') = n - 1
      /\ \A i \in 1..(n - 1) : rxQ'[i] = rxQ[i + 1]
      /\ p \in Nat /\ Len(responses') = p + 1
      /\ \A i \in 1..p : responses'[i] = responses[i]
      /\ responses'[p + 1].rsn = r /\ responses'[p + 1].ok = FALSE
      /\ \A x \in TargetRsns : AnsweredAt(x)' # {} <=> AnsweredAt(x) # {} \/ x = r
      /\ \A x \in TargetRsns : Queued(rxQ', x) <=> Queued(rxQ, x) /\ x # r
      /\ AnsweredAt(r) = {}
      /\ PlacesAgree(buffer, stage, rxQ)' /\ OnePlaceEach' /\ Acked' = Acked
  BY <1>1, <1>2, UlpTakesHead
<1> HIDE DEF r
<1>4. RnrTypeOK'
  <2>1. RnrTypeOK
    BY DEF RnrIInv
  <2>2. ordered' \in BOOLEAN /\ inRnr' \in BOOLEAN /\ qpRnr' \in BOOLEAN
    BY <1>1, <2>1 DEF RnrTypeOK
  <2> QED
    BY <1>1, <1>3, <2>1, <2>2 DEF RnrTypeOK
<1>5. ASSUME ordered PROVE OrderedInv'
  <2>1. OrderedInv /\ nextRx \in 0..MaxRsn /\ MaxRsn \in Nat
    BY <1>5 DEF RnrIInv, RnrTypeOK, RnrAssumption
  <2>2. /\ nextRx <= nextTarget /\ \A i \in 1..n : rxQ[i] >= nextRx
        /\ \A i \in 1..p : responses[i].ok <=> responses[i].rsn < nextRx
        /\ \A x \in late \cup Acked : x < nextRx
    BY <2>1 DEF OrderedInv, AcceptedBelow
  <2>3. r >= nextRx /\ ~(r < nextRx)
    BY <1>3, <2>1, <2>2 DEF TargetRsns
  <2>4. AcceptedBelow'
    <3>1. \A i \in 1..Len(rxQ') : rxQ'[i] >= nextRx
      <4>1. \A i \in 1..(n - 1) : i + 1 \in 1..n
        BY <1>3
      <4> QED
        BY <1>3, <2>2, <4>1
    <3>2. ASSUME NEW i \in 1..Len(responses')
          PROVE  responses'[i].ok <=> responses'[i].rsn < nextRx
      <4>1. CASE i = p + 1
        BY <1>3, <2>3, <4>1
      <4>2. CASE i \in 1..p
        BY <1>3, <2>2, <4>2
      <4> QED
        BY <1>3, <4>1, <4>2
    <3> QED
      BY <1>1, <1>3, <2>2, <3>1, <3>2 DEF AcceptedBelow
  <2>5. QueueEndsInRun'
    <3> SUFFICES ASSUME NEW i \in 1..(n - 1), rxQ'[i] = nextRx
                 PROVE  /\ nextTarget = nextRx + ((n - 1) - i) + 1
                        /\ \A j \in i..(n - 1) : rxQ'[j] = nextRx + (j - i)
      BY <1>1, <1>3 DEF QueueEndsInRun
    <3>1. i + 1 \in 1..n /\ rxQ[i + 1] = nextRx
      BY <1>3
    <3>2. /\ nextTarget = nextRx + (n - (i + 1)) + 1
          /\ \A j \in (i + 1)..n : rxQ[j] = nextRx + (j - (i + 1))
      BY <2>1, <3>1 DEF OrderedInv, QueueEndsInRun
    <3>3. nextTarget = nextRx + ((n - 1) - i) + 1
      BY <1>3, <2>1, <3>2
    <3>4. ASSUME NEW j \in i..(n - 1) PROVE rxQ'[j] = nextRx + (j - i)
      <4>1. j + 1 \in (i + 1)..n /\ j \in 1..(n - 1) /\ (j + 1) - (i + 1) = j - i
        BY <1>3, <3>4
      <4> QED
        BY <1>3, <3>2, <4>1
    <3> QED
      BY <3>3, <3>4
  <2>6. ExpectedIsComing'
    <3>1. CASE nextTarget = nextRx
      BY <1>1, <3>1 DEF ExpectedIsComing
    <3>2. CASE Queued(rxQ, nextRx)
      <4>1. nextRx \in TargetRsns
        <5>1. rxQ \in Seq(TargetRsns)
          BY DEF RnrIInv, RnrTypeOK
        <5> QED
          BY <3>2, <5>1, SeqElements DEF Queued
      <4>2. Queued(rxQ', nextRx) \/ AnsweredAt(nextRx)' # {}
        <5>1. CASE nextRx = r
          <6>1. p \in Nat /\ Len(responses') = p + 1 /\ responses'[p + 1].rsn = nextRx'
            BY <1>1, <1>3, <5>1
          <6>2. p + 1 \in 1..Len(responses')
            BY <6>1
          <6> QED
            BY <6>1, <6>2 DEF AnsweredAt
        <5>2. CASE nextRx # r
          BY <1>3, <3>2, <4>1, <5>2
        <5> QED
          BY <5>1, <5>2
      <4> QED
        BY <1>1, <1>5, <4>2 DEF ExpectedIsComing, AnsweredAt, Queued
    <3>3. CASE AnsweredAt(nextRx) # {}
      <4>1. PICK i \in 1..p : responses[i].rsn = nextRx
        BY <3>3 DEF AnsweredAt
      <4>2. i \in 1..Len(responses') /\ responses'[i].rsn = nextRx
        BY <1>3, <4>1
      <4>3. AnsweredAt(nextRx)' # {}
        BY <1>1, <4>2 DEF AnsweredAt
      <4> QED
        BY <1>1, <1>5, <4>3 DEF ExpectedIsComing, AnsweredAt
    <3> QED
      BY <2>1, <3>1, <3>2, <3>3 DEF OrderedInv, ExpectedIsComing
  <2>7. UlpInOrder'
    BY <1>1, <1>5 DEF UlpInOrder
  <2>8. NoneBehind(buffer, stage, nextTarget)'
    <3>1. \A x \in TargetRsns : stage'[x] = "none" => stage[x] = "none"
      <4>1. stage \in [TargetRsns -> Stages]
        BY DEF RnrIInv, RnrTypeOK
      <4> QED
        BY <1>1, <1>3, <4>1 DEF r
    <3> QED
      BY <1>1, <2>1, <3>1 DEF OrderedInv, NoneBehind
  <2>9. EngineStopped' /\ RnrAcksCounted'
    BY <1>1, <1>3, <2>1 DEF OrderedInv, EngineStopped, RnrAcksCounted, Ready
  <2> QED
    BY <2>4, <2>5, <2>6, <2>7, <2>8, <2>9 DEF OrderedInv
<1> QED
  BY <1>1, <1>3, <1>4, <1>5 DEF RnrIInv

\* In order, an accepted request is the one the queue pair waited for, so the
\* whole RX queue is the run up to next_target_rsn.
LEMMA ProcessAcceptedStep ==
  ASSUME RnrAssumption, RnrIInv, ProcessAccepted
  PROVE  RnrIInv'
<1> DEFINE r == Head(rxQ)
           n == Len(rxQ)
           p == Len(responses)
<1>1. /\ rxQ # <<>> /\ stage' = [stage EXCEPT ![Head(rxQ)] = "UlpTx"]
      /\ responses' = Append(responses, Response(Head(rxQ), TRUE)) /\ rxQ' = Tail(rxQ)
      /\ qpRnr' = (qpRnr /\ ~ordered) /\ nacked' = nacked /\ late' = late
      /\ ordered' = ordered /\ nextRx' = (IF ordered THEN nextRx + 1 ELSE nextRx)
      /\ buffer' = buffer /\ nextTarget' = nextTarget /\ nextNetwork' = nextNetwork
      /\ inRnr' = inRnr
      /\ ordered => Head(rxQ) = nextRx
  BY DEF ProcessAccepted, engineVars, IsRsnAcceptable
<1>2. TRUE \in BOOLEAN
  OBVIOUS
<1>3. /\ r \in TargetRsns /\ r = rxQ[1]
      /\ stage' \in [TargetRsns -> Stages] /\ rxQ' \in Seq(TargetRsns)
      /\ responses' \in Seq([rsn : TargetRsns, ok : BOOLEAN])
      /\ n \in Nat \ {0} /\ Len(rxQ') = n - 1
      /\ \A i \in 1..(n - 1) : rxQ'[i] = rxQ[i + 1]
      /\ p \in Nat /\ Len(responses') = p + 1
      /\ \A i \in 1..p : responses'[i] = responses[i]
      /\ responses'[p + 1].rsn = r /\ responses'[p + 1].ok = TRUE
      /\ AnsweredAt(r) = {}
      /\ PlacesAgree(buffer, stage, rxQ)' /\ OnePlaceEach' /\ Acked' = Acked
  BY <1>1, <1>2, UlpTakesHead
<1>4. ASSUME ordered PROVE /\ r = nextRx /\ nextRx' = nextRx + 1 /\ nextTarget = nextRx + n
                           /\ \A j \in 1..n : rxQ[j] = nextRx + (j - 1)
                           /\ OrderedInv /\ nextRx \in 0..MaxRsn /\ MaxRsn \in Nat
                           /\ nextTarget \in 0..MaxRsn
  <2>1. OrderedInv /\ nextRx \in 0..MaxRsn /\ MaxRsn \in Nat /\ nextTarget \in 0..MaxRsn
    BY <1>4 DEF RnrIInv, RnrTypeOK, RnrAssumption
  <2>2. r = nextRx /\ nextRx' = nextRx + 1 /\ 1 \in 1..n
    BY <1>1, <1>3, <1>4
  <2>3. nextTarget = nextRx + (n - 1) + 1 /\ \A j \in 1..n : rxQ[j] = nextRx + (j - 1)
    BY <1>3, <2>1, <2>2 DEF OrderedInv, QueueEndsInRun
  <2>4. nextTarget = nextRx + n
    BY <1>3, <2>1, <2>3
  <2> QED
    BY <2>1, <2>2, <2>3, <2>4
<1> HIDE DEF r
<1>5. RnrTypeOK'
  <2>1. RnrTypeOK
    BY DEF RnrIInv
  <2>2. ordered' \in BOOLEAN /\ inRnr' \in BOOLEAN /\ qpRnr' \in BOOLEAN
    BY <1>1, <2>1 DEF RnrTypeOK
  <2>3. nextRx' \in 0..MaxRsn
    <3>1. CASE ordered
      BY <1>3, <1>4, <3>1
    <3>2. CASE ~ordered
      BY <1>1, <2>1, <3>2 DEF RnrTypeOK
    <3> QED
      BY <3>1, <3>2
  <2> QED
    BY <1>1, <1>3, <2>1, <2>2, <2>3 DEF RnrTypeOK
<1>6. ASSUME ordered PROVE OrderedInv'
  <2>1. /\ r = nextRx /\ nextRx' = nextRx + 1 /\ nextTarget = nextRx + n
        /\ \A j \in 1..n : rxQ[j] = nextRx + (j - 1)
        /\ OrderedInv /\ nextRx \in 0..MaxRsn /\ MaxRsn \in Nat
    BY <1>4, <1>6
  <2>2. /\ \A i \in 1..p : responses[i].ok <=> responses[i].rsn < nextRx
        /\ \A x \in late \cup Acked : x < nextRx
    BY <2>1 DEF OrderedInv, AcceptedBelow
  <2>3. \A i \in 1..(n - 1) : rxQ'[i] = nextRx + i
    <3>1. \A i \in 1..(n - 1) : i + 1 \in 1..n /\ (i + 1) - 1 = i
      BY <1>3
    <3> QED
      BY <1>3, <2>1, <3>1
  <2>4. AcceptedBelow'
    <3>1. nextRx' <= nextTarget'
      BY <1>1, <1>3, <2>1
    <3>2. ASSUME NEW i \in 1..Len(rxQ') PROVE rxQ'[i] >= nextRx'
      <4>1. i \in 1..(n - 1) /\ i \in Int /\ i >= 1
        BY <1>3
      <4> QED
        BY <2>1, <2>3, <4>1
    <3>3. ASSUME NEW i \in 1..Len(responses')
          PROVE  responses'[i].ok <=> responses'[i].rsn < nextRx'
      <4>1. CASE i = p + 1
        BY <1>3, <2>1, <4>1
      <4>2. CASE i \in 1..p
        <5>1. responses'[i] = responses[i]
          BY <1>3, <4>2
        <5>2. responses[i].rsn \in TargetRsns
          <6>1. responses \in Seq([rsn : TargetRsns, ok : BOOLEAN])
            BY DEF RnrIInv, RnrTypeOK
          <6>2. responses[i] \in [rsn : TargetRsns, ok : BOOLEAN]
            BY <4>2, <6>1, SeqElements
          <6> QED
            BY <6>2
        <5>3. responses[i].rsn # nextRx
          BY <1>3, <2>1, <4>2 DEF AnsweredAt
        <5>4. responses[i].rsn < nextRx <=> responses[i].rsn < nextRx'
          BY <2>1, <5>2, <5>3 DEF TargetRsns
        <5> QED
          BY <2>2, <4>2, <5>1, <5>4
      <4> QED
        BY <1>3, <4>1, <4>2
    <3>4. \A x \in late' \cup Acked' : x < nextRx'
      <4>1. late \cup Acked \subseteq TargetRsns
        BY DEF RnrIInv, RnrTypeOK, Acked
      <4> QED
        BY <1>1, <1>3, <2>1, <2>2, <4>1 DEF TargetRsns
    <3> QED
      BY <3>1, <3>2, <3>3, <3>4 DEF AcceptedBelow
  <2>5. QueueEndsInRun'
    <3> SUFFICES ASSUME NEW i \in 1..(n - 1), rxQ'[i] = nextRx + 1
                 PROVE  /\ nextTarget = (nextRx + 1) + ((n - 1) - i) + 1
                        /\ \A j \in i..(n - 1) : rxQ'[j] = (nextRx + 1) + (j - i)
      BY <1>1, <1>3, <2>1 DEF QueueEndsInRun
    <3>1. i = 1
      BY <1>3, <2>1, <2>3
    <3>2. nextTarget = (nextRx + 1) + ((n - 1) - i) + 1
      BY <1>3, <2>1, <3>1
    <3>3. ASSUME NEW j \in i..(n - 1) PROVE rxQ'[j] = (nextRx + 1) + (j - i)
      <4>1. rxQ'[j] = nextRx + j
        BY <2>3, <3>1
      <4> QED
        BY <2>1, <3>1, <4>1
    <3> QED
      BY <3>2, <3>3
  <2>6. ExpectedIsComing'
    <3>1. CASE n = 1
      BY <1>1, <2>1, <3>1 DEF ExpectedIsComing
    <3>2. CASE n # 1
      <4>1. 1 \in 1..(n - 1) /\ rxQ'[1] = nextRx'
        BY <1>3, <2>1, <2>3, <3>2
      <4> QED
        BY <1>3, <4>1 DEF ExpectedIsComing, Queued
    <3> QED
      BY <3>1, <3>2
  <2>7. UlpInOrder'
    <3> SUFFICES ASSUME rxQ' # <<>> PROVE Head(rxQ') = nextRx'
      BY DEF UlpInOrder
    <3>1. Len(rxQ') \in Nat \ {0} /\ Head(rxQ') = rxQ'[1]
      BY <1>3, TailElements
    <3> QED
      BY <1>3, <2>1, <2>3, <3>1
  <2>8. NoneBehind(buffer, stage, nextTarget)'
    <3>1. \A x \in TargetRsns : stage'[x] = "none" => stage[x] = "none"
      <4>1. stage \in [TargetRsns -> Stages]
        BY DEF RnrIInv, RnrTypeOK
      <4> QED
        BY <1>1, <1>3, <4>1 DEF r
    <3> QED
      BY <1>1, <2>1, <3>1 DEF OrderedInv, NoneBehind
  <2>9. EngineStopped' /\ RnrAcksCounted'
    BY <1>1, <1>3, <2>1 DEF OrderedInv, EngineStopped, RnrAcksCounted, Ready
  <2> QED
    BY <2>4, <2>5, <2>6, <2>7, <2>8, <2>9 DEF OrderedInv
<1> QED
  BY <1>1, <1>3, <1>5, <1>6 DEF RnrIInv
-----------------------------------------------------------------------------
(* AckTransaction: an answer reaches Falcon. *)

\* Taking the first answer off the schedule.
LEMMA AnswerTaken ==
  ASSUME RnrAssumption, RnrIInv, responses # <<>>, responses' = Tail(responses)
  PROVE  /\ Head(responses).rsn \in TargetRsns /\ Len(responses) \in Nat \ {0}
         /\ 1 \in 1..Len(responses) /\ Head(responses) = responses[1]
         /\ responses' \in Seq([rsn : TargetRsns, ok : BOOLEAN])
         /\ Len(responses') = Len(responses) - 1
         /\ \A i \in 1..Len(responses') : i + 1 \in 1..Len(responses)
                                          /\ responses'[i] = responses[i + 1]
         /\ \A x \in TargetRsns : {i \in 1..Len(responses') : responses'[i].rsn = x} # {}
                            <=> AnsweredAt(x) # {} /\ x # Head(responses).rsn
         /\ AnsweredAt(Head(responses).rsn) # {}
         /\ \A i, j \in 1..Len(responses') : responses'[i].rsn = responses'[j].rsn => i = j
<1> DEFINE A == [rsn : TargetRsns, ok : BOOLEAN]
           p == Len(responses)
           h == Head(responses).rsn
<1>0. /\ responses \in Seq(A)
      /\ \A i, j \in 1..p : responses[i].rsn = responses[j].rsn => i = j
  BY DEF RnrIInv, RnrTypeOK, OnePlaceEach
<1>1. /\ p \in Nat \ {0} /\ Head(responses) = responses[1] /\ Head(responses) \in A
      /\ responses' \in Seq(A) /\ Len(responses') = p - 1
      /\ \A i \in 1..(p - 1) : responses'[i] = responses[i + 1]
  <2> HIDE DEF A
  <2> QED
    BY <1>0, TailElements
<1>2. h \in TargetRsns
  BY <1>1
<1> HIDE DEF A
<1>3. 1 \in 1..p
  BY <1>1
<1>4. \A i \in 1..Len(responses') : i + 1 \in 1..p /\ i + 1 # 1 /\ responses'[i] = responses[i + 1]
  BY <1>1
<1>5. AnsweredAt(h) # {}
  BY <1>1, <1>3 DEF AnsweredAt
<1>6. ASSUME NEW x \in TargetRsns
      PROVE  {i \in 1..Len(responses') : responses'[i].rsn = x} # {}
               <=> AnsweredAt(x) # {} /\ x # h
  <2>1. ASSUME NEW i \in 1..Len(responses'), responses'[i].rsn = x
        PROVE  AnsweredAt(x) # {} /\ x # h
    <3>1. i + 1 \in 1..p /\ i + 1 # 1 /\ responses[i + 1].rsn = x
      BY <1>4, <2>1
    <3>2. responses[1].rsn # x
      BY <1>0, <1>3, <3>1
    <3> QED
      BY <1>1, <3>1, <3>2 DEF AnsweredAt
  <2>2. ASSUME NEW i \in 1..p, responses[i].rsn = x, x # h
        PROVE  {j \in 1..Len(responses') : responses'[j].rsn = x} # {}
    <3>1. i # 1
      BY <1>1, <2>2
    <3>2. i - 1 \in 1..Len(responses') /\ (i - 1) + 1 = i
      BY <1>1, <3>1
    <3>3. responses'[i - 1].rsn = x
      BY <1>4, <2>2, <3>2
    <3> QED
      BY <3>2, <3>3
  <2> QED
    BY <2>1, <2>2 DEF AnsweredAt
<1>7. ASSUME NEW i \in 1..Len(responses'), NEW j \in 1..Len(responses'),
             responses'[i].rsn = responses'[j].rsn
      PROVE  i = j
  <2>1. i + 1 = j + 1
    BY <1>0, <1>4, <1>7
  <2> QED
    BY <2>1
<1> QED
  BY <1>1, <1>2, <1>3, <1>4, <1>5, <1>6, <1>7 DEF A

\* An ACK of a request that the queue pair accepted; its answer is no longer
\* scheduled (TransferAck) or no longer with the host buffer (TransferToHost).
LEMMA AckTransactionStep ==
  ASSUME RnrAssumption, RnrIInv, NEW r \in TargetRsns, AckUlpTransaction(r), stage[r] = "UlpTx",
         ordered => r < nextRx,
         responses' \in Seq([rsn : TargetRsns, ok : BOOLEAN]), late' \subseteq late,
         NEW T, T = {x \in TargetRsns : {i \in 1..Len(responses') : responses'[i].rsn = x} # {}},
         \A x \in TargetRsns : x \in T => AnsweredAt(x) # {},
         \A x \in TargetRsns : AnsweredAt(x) # {} /\ x # r => x \in T,
         r \notin T \cup late',
         \A i, j \in 1..Len(responses') : responses'[i].rsn = responses'[j].rsn => i = j,
         ordered => \A i \in 1..Len(responses') : responses'[i].ok <=> responses'[i].rsn < nextRx
  PROVE  RnrIInv'
<1>0. /\ RnrTypeOK /\ PlacesAgree(buffer, stage, rxQ) /\ OnePlaceEach
      /\ buffer \in [TargetRsns -> RetryTimes] /\ stage \in [TargetRsns -> Stages]
  BY DEF RnrIInv, RnrTypeOK
<1>1. /\ buffer' = [buffer EXCEPT ![r] = "absent"] /\ stage' = [stage EXCEPT ![r] = "AckUlpRx"]
      /\ nextNetwork' = (IF ordered THEN nextNetwork + 1 ELSE nextNetwork)
      /\ inRnr' = (inRnr /\ ~ordered) /\ nextTarget' = nextTarget /\ nacked' = nacked
      /\ rxQ' = rxQ /\ ordered' = ordered /\ nextRx' = nextRx /\ qpRnr' = qpRnr
  BY DEF AckUlpTransaction, HandleAckFromUlp, qpVars
<1>2. \A x \in TargetRsns : x \in T <=> AnsweredAt(x)' # {}
  BY DEF AnsweredAt
<1>3. RnrTypeOK'
  <2>1. ordered' \in BOOLEAN /\ inRnr' \in BOOLEAN /\ qpRnr' \in BOOLEAN
    BY <1>0, <1>1 DEF RnrTypeOK
  <2>2. buffer' \in [TargetRsns -> RetryTimes] /\ stage' \in [TargetRsns -> Stages]
    BY <1>0, <1>1 DEF RetryTimes, Stages
  <2>3. nextNetwork' \in Nat
    BY <1>0, <1>1 DEF RnrTypeOK
  <2> QED
    BY <1>0, <1>1, <2>1, <2>2, <2>3 DEF RnrTypeOK
<1>4. PlacesAgree(buffer, stage, rxQ)'
  <2> SUFFICES ASSUME NEW x \in TargetRsns
               PROVE  /\ buffer'[x] = "absent" <=> stage'[x] \in {"none", "AckUlpRx"}
                      /\ stage'[x] = "UlpTx" => buffer'[x] = "flight"
                      /\ Queued(rxQ, x) <=> buffer'[x] = "flight" /\ stage'[x] # "UlpTx"
                      /\ x \in T \/ x \in late' => stage'[x] = "UlpTx"
                      /\ x \in T => x \notin late'
    BY <1>1, <1>2 DEF PlacesAgree, Queued
  <2>1. CASE x = r
    <3>1. ~Queued(rxQ, r)
      BY <1>0 DEF PlacesAgree
    <3> QED
      BY <1>0, <1>1, <2>1, <3>1
  <2>2. CASE x # r
    BY <1>0, <1>1, <2>2 DEF PlacesAgree
  <2> QED
    BY <2>1, <2>2
<1>5. OnePlaceEach'
  BY <1>0, <1>1 DEF OnePlaceEach
<1>6. Acked' = Acked \cup {r} /\ r \notin Acked /\ Acked \subseteq TargetRsns
  BY <1>0, <1>1 DEF Acked
<1>7. ASSUME ordered PROVE OrderedInv'
  <2>1. OrderedInv /\ r < nextRx
    BY <1>7 DEF RnrIInv
  <2>2. AcceptedBelow'
    BY <1>1, <1>6, <1>7, <2>1 DEF OrderedInv, AcceptedBelow
  <2>3. QueueEndsInRun' /\ UlpInOrder'
    BY <1>1, <2>1 DEF OrderedInv, QueueEndsInRun, UlpInOrder
  <2>4. ExpectedIsComing'
    <3>1. CASE nextTarget = nextRx \/ Queued(rxQ, nextRx)
      BY <1>1, <3>1 DEF ExpectedIsComing, Queued
    <3>2. CASE qpRnr /\ AnsweredAt(nextRx) # {}
      <4>1. nextRx \in TargetRsns /\ nextRx # r
        <5>1. responses \in Seq([rsn : TargetRsns, ok : BOOLEAN]) /\ nextRx \in 0..MaxRsn
          BY <1>0 DEF RnrTypeOK
        <5>2. PICK i \in 1..Len(responses) : responses[i].rsn = nextRx
          BY <3>2 DEF AnsweredAt
        <5>3. responses[i] \in [rsn : TargetRsns, ok : BOOLEAN]
          BY <5>1, SeqElements
        <5>4. nextRx \in TargetRsns
          BY <5>2, <5>3
        <5> QED
          BY <2>1, <5>1, <5>4 DEF TargetRsns
      <4>2. nextRx \in T
        BY <3>2, <4>1
      <4>3. AnsweredAt(nextRx)' # {}
        BY <1>1, <4>2 DEF AnsweredAt
      <4> QED
        BY <1>1, <3>2, <4>3 DEF ExpectedIsComing, AnsweredAt
    <3> QED
      BY <2>1, <3>1, <3>2 DEF OrderedInv, ExpectedIsComing
  <2>5. NoneBehind(buffer, stage, nextTarget)'
    BY <1>0, <1>1, <2>1 DEF OrderedInv, NoneBehind
  <2>6. EngineStopped'
    <3>1. \A x : x \in TargetRsns /\ ~Ready(buffer, x) => ~Ready(buffer', x)
      BY <1>0, <1>1 DEF Ready
    <3>2. nextTarget < MaxRsn => nextTarget \in TargetRsns
      BY <1>0 DEF RnrTypeOK, TargetRsns, RnrAssumption
    <3> QED
      BY <1>1, <2>1, <3>1, <3>2 DEF OrderedInv, EngineStopped, Ready
  <2>7. RnrAcksCounted'
    <3>1. IsFiniteSet(Acked)
      <4>1. IsFiniteSet(TargetRsns)
        BY FS_Interval DEF TargetRsns, RnrAssumption
      <4> QED
        BY <1>6, <4>1, FS_Subset
    <3>2. Cardinality(Acked \cup {r}) = Cardinality(Acked) + 1
      BY <1>6, <3>1, FS_AddElement
    <3> QED
      BY <1>1, <1>6, <1>7, <2>1, <3>2 DEF OrderedInv, RnrAcksCounted
  <2> QED
    BY <2>2, <2>3, <2>4, <2>5, <2>6, <2>7 DEF OrderedInv
<1> QED
  BY <1>1, <1>3, <1>4, <1>5, <1>7 DEF RnrIInv

\* Who is answered after the first answer was taken.
StillAnswered == {x \in TargetRsns : {i \in 1..Len(responses') : responses'[i].rsn = x} # {}}

LEMMA TransferAckStep ==
  ASSUME RnrAssumption, RnrIInv, TransferAck
  PROVE  RnrIInv'
<1> DEFINE r == Head(responses).rsn
<1>1. /\ responses # <<>> /\ Head(responses).ok /\ responses' = Tail(responses)
      /\ AckUlpTransaction(r) /\ late' = late
  BY DEF TransferAck
<1>2. /\ r \in TargetRsns /\ 1 \in 1..Len(responses) /\ Head(responses) = responses[1]
      /\ responses' \in Seq([rsn : TargetRsns, ok : BOOLEAN])
      /\ \A i \in 1..Len(responses') : i + 1 \in 1..Len(responses)
                                       /\ responses'[i] = responses[i + 1]
      /\ \A x \in TargetRsns : x \in StillAnswered <=> AnsweredAt(x) # {} /\ x # r
      /\ AnsweredAt(r) # {}
      /\ \A i, j \in 1..Len(responses') : responses'[i].rsn = responses'[j].rsn => i = j
  BY <1>1, AnswerTaken DEF StillAnswered
<1>3. stage[r] = "UlpTx" /\ r \notin late
  BY <1>2 DEF RnrIInv, PlacesAgree
<1>4. ASSUME ordered
      PROVE  /\ r < nextRx
             /\ \A i \in 1..Len(responses') : responses'[i].ok <=> responses'[i].rsn < nextRx
  <2>1. \A i \in 1..Len(responses) : responses[i].ok <=> responses[i].rsn < nextRx
    BY <1>4 DEF RnrIInv, OrderedInv, AcceptedBelow
  <2> QED
    BY <1>1, <1>2, <2>1
<1> HIDE DEF r
<1> QED
  BY <1>1, <1>2, <1>3, <1>4, AckTransactionStep DEF StillAnswered

LEMMA TransferToHostStep ==
  ASSUME RnrAssumption, RnrIInv, NEW r \in TargetRsns, TransferToHost(r)
  PROVE  RnrIInv'
<1>1. r \in late /\ late' = late \ {r} /\ AckUlpTransaction(r) /\ responses' = responses
  BY DEF TransferToHost
<1>2. /\ responses' \in Seq([rsn : TargetRsns, ok : BOOLEAN]) /\ PlacesAgree(buffer, stage, rxQ)
      /\ \A i, j \in 1..Len(responses') : responses'[i].rsn = responses'[j].rsn => i = j
  BY <1>1 DEF RnrIInv, RnrTypeOK, OnePlaceEach
<1>3. stage[r] = "UlpTx" /\ AnsweredAt(r) = {}
  BY <1>1, <1>2 DEF PlacesAgree
<1>4. \A x \in TargetRsns : x \in StillAnswered <=> AnsweredAt(x) # {}
  BY <1>1 DEF StillAnswered, AnsweredAt
<1>5. ASSUME ordered
      PROVE  /\ r < nextRx
             /\ \A i \in 1..Len(responses') : responses'[i].ok <=> responses'[i].rsn < nextRx
  BY <1>1, <1>5 DEF RnrIInv, OrderedInv, AcceptedBelow
<1> QED
  BY <1>1, <1>2, <1>3, <1>4, <1>5, AckTransactionStep DEF StillAnswered

LEMMA WaitForHostStep ==
  ASSUME RnrAssumption, RnrIInv, WaitForHost
  PROVE  RnrIInv'
<1> DEFINE r == Head(responses).rsn
<1>1. /\ responses # <<>> /\ Head(responses).ok /\ responses' = Tail(responses)
      /\ late' = late \cup {r}
      /\ buffer' = buffer /\ nextTarget' = nextTarget /\ nextNetwork' = nextNetwork
      /\ inRnr' = inRnr /\ stage' = stage /\ nacked' = nacked /\ rxQ' = rxQ
      /\ ordered' = ordered /\ nextRx' = nextRx /\ qpRnr' = qpRnr
  BY DEF WaitForHost, engineVars, metadataVars, qpVars
<1>2. /\ r \in TargetRsns /\ 1 \in 1..Len(responses) /\ Head(responses) = responses[1]
      /\ responses' \in Seq([rsn : TargetRsns, ok : BOOLEAN])
      /\ \A i \in 1..Len(responses') : i + 1 \in 1..Len(responses)
                                       /\ responses'[i] = responses[i + 1]
      /\ \A x \in TargetRsns : AnsweredAt(x)' # {} <=> AnsweredAt(x) # {} /\ x # r
      /\ AnsweredAt(r) # {}
      /\ \A i, j \in 1..Len(responses') : responses'[i].rsn = responses'[j].rsn => i = j
  BY <1>1, AnswerTaken DEF AnsweredAt
<1>3. RnrTypeOK /\ PlacesAgree(buffer, stage, rxQ) /\ OnePlaceEach
  BY DEF RnrIInv
<1> HIDE DEF r
<1>4. RnrTypeOK'
  BY <1>1, <1>2, <1>3 DEF RnrTypeOK
<1>5. PlacesAgree(buffer, stage, rxQ)'
  <2> SUFFICES ASSUME NEW x \in TargetRsns
               PROVE  /\ buffer[x] = "absent" <=> stage[x] \in {"none", "AckUlpRx"}
                      /\ stage[x] = "UlpTx" => buffer[x] = "flight"
                      /\ Queued(rxQ, x) <=> buffer[x] = "flight" /\ stage[x] # "UlpTx"
                      /\ AnsweredAt(x)' # {} \/ x \in late' => stage[x] = "UlpTx"
                      /\ AnsweredAt(x)' # {} => x \notin late'
    BY <1>1 DEF PlacesAgree, Queued
  <2> QED
    BY <1>1, <1>2, <1>3 DEF PlacesAgree
<1>6. OnePlaceEach'
  BY <1>1, <1>2, <1>3 DEF OnePlaceEach
<1>7. ASSUME ordered PROVE OrderedInv'
  <2>1. OrderedInv
    BY <1>7 DEF RnrIInv
  <2>2. /\ nextRx <= nextTarget /\ \A i \in 1..Len(rxQ) : rxQ[i] >= nextRx
        /\ \A i \in 1..Len(responses) : responses[i].ok <=> responses[i].rsn < nextRx
        /\ \A x \in late \cup Acked : x < nextRx
    BY <2>1 DEF OrderedInv, AcceptedBelow
  <2>3. r < nextRx
    BY <1>1, <1>2, <2>2 DEF r
  <2>4. Acked' = Acked
    BY <1>1 DEF Acked
  <2>5. AcceptedBelow'
    <3>1. \A i \in 1..Len(responses') : responses'[i].ok <=> responses'[i].rsn < nextRx
      BY <1>2, <2>2
    <3> QED
      BY <1>1, <2>2, <2>3, <2>4, <3>1 DEF AcceptedBelow
  <2>6. QueueEndsInRun' /\ UlpInOrder'
    BY <1>1, <2>1 DEF OrderedInv, QueueEndsInRun, UlpInOrder
  <2>7. ExpectedIsComing'
    <3>1. CASE nextTarget = nextRx \/ Queued(rxQ, nextRx)
      BY <1>1, <3>1 DEF ExpectedIsComing, Queued
    <3>2. CASE qpRnr /\ AnsweredAt(nextRx) # {}
      <4>1. PICK i \in 1..Len(responses) : responses[i].rsn = nextRx
        BY <3>2 DEF AnsweredAt
      <4>2. nextRx \in TargetRsns
        <5>1. responses[i] \in [rsn : TargetRsns, ok : BOOLEAN]
          BY <1>3, SeqElements DEF RnrTypeOK
        <5> QED
          BY <4>1, <5>1
      <4>3. nextRx # r
        BY <1>2, <2>3, <4>2 DEF TargetRsns
      <4>4. AnsweredAt(nextRx)' # {}
        <5>1. {j \in 1..Len(responses') : responses'[j].rsn = nextRx} # {}
          BY <1>1, <1>2, <3>2, <4>2, <4>3, AnswerTaken DEF r
        <5> QED
          BY <1>1, <5>1 DEF AnsweredAt
      <4> QED
        BY <1>1, <3>2, <4>4 DEF ExpectedIsComing, AnsweredAt
    <3> QED
      BY <2>1, <3>1, <3>2 DEF OrderedInv, ExpectedIsComing
  <2>8. NoneBehind(buffer, stage, nextTarget)' /\ EngineStopped' /\ RnrAcksCounted'
    BY <1>1, <2>1, <2>4 DEF OrderedInv, NoneBehind, EngineStopped, Ready, RnrAcksCounted
  <2> QED
    BY <2>5, <2>6, <2>7, <2>8 DEF OrderedInv
<1> QED
  BY <1>1, <1>4, <1>5, <1>6, <1>7 DEF RnrIInv

\* A refusal reaches the engine, which rewinds to the refused request.  It was
\* at or after the one the queue pair waits for; were the latter in the queue,
\* the refused one would be behind the run and the engine would not move.
LEMMA TransferNackStep ==
  ASSUME RnrAssumption, RnrIInv, TransferNack
  PROVE  RnrIInv'
<1> DEFINE r == Head(responses).rsn
<1>1. /\ responses # <<>> /\ ~Head(responses).ok /\ responses' = Tail(responses)
      /\ late' = late /\ buffer' = [buffer EXCEPT ![r] = "waiting"]
      /\ nextTarget' = (IF ordered /\ r < nextTarget THEN r ELSE nextTarget)
      /\ inRnr' = (ordered \/ inRnr) /\ nextNetwork' = nextNetwork
      /\ nacked' = nacked \cup {r} /\ stage' = [stage EXCEPT ![r] = "RnrUlpRx"]
      /\ rxQ' = rxQ /\ ordered' = ordered /\ nextRx' = nextRx /\ qpRnr' = qpRnr
  BY DEF TransferNack, HandleRnrNackFromUlp, qpVars
<1>2. /\ r \in TargetRsns /\ 1 \in 1..Len(responses) /\ Head(responses) = responses[1]
      /\ responses' \in Seq([rsn : TargetRsns, ok : BOOLEAN])
      /\ \A i \in 1..Len(responses') : i + 1 \in 1..Len(responses)
                                       /\ responses'[i] = responses[i + 1]
      /\ \A x \in TargetRsns : x \in StillAnswered <=> AnsweredAt(x) # {} /\ x # r
      /\ AnsweredAt(r) # {}
      /\ \A i, j \in 1..Len(responses') : responses'[i].rsn = responses'[j].rsn => i = j
  BY <1>1, AnswerTaken DEF StillAnswered
<1>3. /\ RnrTypeOK /\ PlacesAgree(buffer, stage, rxQ) /\ OnePlaceEach
      /\ buffer \in [TargetRsns -> RetryTimes] /\ stage \in [TargetRsns -> Stages]
      /\ nextTarget \in 0..MaxRsn /\ nextRx \in 0..MaxRsn /\ MaxRsn \in Nat
      /\ rxQ \in Seq(TargetRsns)
  BY DEF RnrIInv, RnrTypeOK, RnrAssumption
<1>4. stage[r] = "UlpTx" /\ r \notin late /\ ~Queued(rxQ, r)
  BY <1>2, <1>3 DEF PlacesAgree
<1> HIDE DEF r
<1>5. /\ buffer' \in [TargetRsns -> RetryTimes] /\ stage' \in [TargetRsns -> Stages]
      /\ buffer'[r] = "waiting" /\ stage'[r] = "RnrUlpRx"
      /\ \A x \in TargetRsns : x # r => buffer'[x] = buffer[x] /\ stage'[x] = stage[x]
  BY <1>1, <1>2, <1>3 DEF RetryTimes, Stages
<1>6. RnrTypeOK'
  <2>1. ordered' \in BOOLEAN /\ inRnr' \in BOOLEAN /\ qpRnr' \in BOOLEAN
    BY <1>1, <1>3 DEF RnrTypeOK
  <2>2. nextTarget' \in 0..MaxRsn
    BY <1>1, <1>2, <1>3 DEF TargetRsns
  <2> QED
    BY <1>1, <1>2, <1>3, <1>5, <2>1, <2>2 DEF RnrTypeOK
<1>7. PlacesAgree(buffer, stage, rxQ)'
  <2>1. \A x \in TargetRsns : x \in StillAnswered <=> AnsweredAt(x)' # {}
    BY DEF StillAnswered, AnsweredAt
  <2> SUFFICES ASSUME NEW x \in TargetRsns
               PROVE  /\ buffer'[x] = "absent" <=> stage'[x] \in {"none", "AckUlpRx"}
                      /\ stage'[x] = "UlpTx" => buffer'[x] = "flight"
                      /\ Queued(rxQ, x) <=> buffer'[x] = "flight" /\ stage'[x] # "UlpTx"
                      /\ x \in StillAnswered \/ x \in late => stage'[x] = "UlpTx"
                      /\ x \in StillAnswered => x \notin late
    BY <1>1, <2>1 DEF PlacesAgree, Queued
  <2>2. CASE x = r
    BY <1>2, <1>4, <1>5, <2>2
  <2>3. CASE x # r
    BY <1>2, <1>3, <1>5, <2>3 DEF PlacesAgree
  <2> QED
    BY <2>2, <2>3
<1>8. OnePlaceEach'
  BY <1>1, <1>2, <1>3 DEF OnePlaceEach
<1>9. ASSUME ordered PROVE OrderedInv'
  <2>1. OrderedInv
    BY <1>9 DEF RnrIInv
  <2>2. /\ nextRx <= nextTarget /\ \A i \in 1..Len(rxQ) : rxQ[i] >= nextRx
        /\ \A i \in 1..Len(responses) : responses[i].ok <=> responses[i].rsn < nextRx
        /\ \A x \in late \cup Acked : x < nextRx
    BY <2>1 DEF OrderedInv, AcceptedBelow
  <2>3. r >= nextRx
    <3>1. ~(r < nextRx)
      BY <1>1, <1>2, <2>2 DEF r
    <3> QED
      BY <1>2, <1>3, <3>1 DEF TargetRsns
  <2>4. Acked' = Acked
    BY <1>2, <1>3, <1>4, <1>5 DEF Acked
  <2>5. nextRx <= nextTarget' /\ nextTarget' <= nextTarget /\ nextTarget' <= r
    BY <1>1, <1>2, <1>3, <1>9, <2>2, <2>3 DEF TargetRsns
  <2>6. AcceptedBelow'
    <3>1. \A i \in 1..Len(responses') : responses'[i].ok <=> responses'[i].rsn < nextRx
      BY <1>2, <2>2
    <3> QED
      BY <1>1, <2>2, <2>4, <2>5, <3>1 DEF AcceptedBelow
  <2>7. ASSUME Queued(rxQ, nextRx) PROVE nextTarget' = nextTarget
    <3>1. PICK i \in 1..Len(rxQ) : rxQ[i] = nextRx
      BY <2>7 DEF Queued
    <3>2. /\ nextTarget = nextRx + (Len(rxQ) - i) + 1
          /\ \A j \in i..Len(rxQ) : rxQ[j] = nextRx + (j - i)
      BY <2>1, <3>1 DEF OrderedInv, QueueEndsInRun
    <3>3. Len(rxQ) \in Nat /\ r \in Nat
      BY <1>2, <1>3, SeqElements DEF TargetRsns
    <3>4. ~(r < nextTarget)
      <4> SUFFICES ASSUME r < nextTarget PROVE FALSE
        OBVIOUS
      <4>1. i + (r - nextRx) \in i..Len(rxQ) /\ i + (r - nextRx) \in 1..Len(rxQ)
        BY <1>3, <2>3, <3>2, <3>3
      <4>2. rxQ[i + (r - nextRx)] = nextRx + ((i + (r - nextRx)) - i)
        BY <3>2, <4>1
      <4>3. nextRx + ((i + (r - nextRx)) - i) = r
        BY <1>3, <3>3
      <4> QED
        BY <1>4, <4>1, <4>2, <4>3 DEF Queued
    <3> QED
      BY <1>1, <3>4
  <2>8. QueueEndsInRun'
    <3> SUFFICES ASSUME NEW i \in 1..Len(rxQ), rxQ[i] = nextRx
                 PROVE  /\ nextTarget' = nextRx + (Len(rxQ) - i) + 1
                        /\ \A j \in i..Len(rxQ) : rxQ[j] = nextRx + (j - i)
      BY <1>1 DEF QueueEndsInRun
    <3>1. nextTarget' = nextTarget
      BY <2>7 DEF Queued
    <3> QED
      BY <2>1, <3>1 DEF OrderedInv, QueueEndsInRun
  <2>9. ExpectedIsComing'
    <3>1. CASE nextTarget = nextRx
      <4>1. nextTarget' \in Int /\ nextRx \in Int /\ nextRx' = nextRx
        BY <1>1, <1>3, <1>6 DEF RnrTypeOK
      <4>2. nextTarget' = nextRx'
        BY <2>5, <3>1, <4>1
      <4> QED
        BY <4>2 DEF ExpectedIsComing
    <3>2. CASE Queued(rxQ, nextRx)
      BY <1>1, <3>2 DEF ExpectedIsComing, Queued
    <3>3. CASE r = nextRx
      <4>1. nextTarget' = nextRx'
        BY <1>1, <1>3, <1>9, <2>2, <3>3
      <4> QED
        BY <4>1 DEF ExpectedIsComing
    <3>4. CASE qpRnr /\ AnsweredAt(nextRx) # {} /\ r # nextRx
      <4>1. PICK i \in 1..Len(responses) : responses[i].rsn = nextRx
        BY <3>4 DEF AnsweredAt
      <4>2. nextRx \in TargetRsns
        <5>1. responses[i] \in [rsn : TargetRsns, ok : BOOLEAN]
          BY <1>3, SeqElements DEF RnrTypeOK
        <5> QED
          BY <4>1, <5>1
      <4>3. nextRx \in StillAnswered
        BY <1>2, <3>4, <4>2
      <4>4. AnsweredAt(nextRx)' # {}
        BY <1>1, <4>3 DEF AnsweredAt, StillAnswered
      <4> QED
        BY <1>1, <3>4, <4>4 DEF ExpectedIsComing, AnsweredAt
    <3> QED
      BY <2>1, <3>1, <3>2, <3>3, <3>4 DEF OrderedInv, ExpectedIsComing
  <2>10. UlpInOrder'
    BY <1>1, <2>1 DEF OrderedInv, UlpInOrder
  <2>11. NoneBehind(buffer, stage, nextTarget)'
    <3> SUFFICES ASSUME NEW x \in TargetRsns,
                        buffer'[x] \in {"new", "due", "waiting"} \/ stage'[x] = "none"
                 PROVE  x >= nextTarget'
      BY DEF NoneBehind
    <3>1. CASE x = r
      BY <1>3, <1>6, <2>5, <3>1 DEF TargetRsns, RnrTypeOK
    <3>2. CASE x # r
      <4>1. x >= nextTarget
        BY <1>5, <2>1, <3>2 DEF OrderedInv, NoneBehind
      <4> QED
        BY <1>3, <1>6, <2>5, <4>1 DEF TargetRsns, RnrTypeOK
    <3> QED
      BY <3>1, <3>2
  <2>12. EngineStopped'
    <3> SUFFICES ASSUME nextTarget' < MaxRsn PROVE buffer'[nextTarget'] \notin {"new", "due"}
      BY DEF EngineStopped, Ready
    <3>1. CASE nextTarget' = r
      BY <1>5, <3>1
    <3>2. CASE nextTarget' = nextTarget /\ nextTarget # r
      <4>1. nextTarget \in TargetRsns
        BY <1>3, <3>2 DEF TargetRsns
      <4> QED
        BY <1>5, <2>1, <3>2, <4>1 DEF OrderedInv, EngineStopped, Ready
    <3> QED
      BY <1>1, <3>1, <3>2
  <2>13. RnrAcksCounted'
    BY <1>1, <2>1, <2>4 DEF OrderedInv, RnrAcksCounted
  <2> QED
    BY <2>6, <2>8, <2>9, <2>10, <2>11, <2>12, <2>13 DEF OrderedInv
<1> QED
  BY <1>1, <1>6, <1>7, <1>8, <1>9 DEF RnrIInv
-----------------------------------------------------------------------------
(* The invariant. *)

LEMMA InitIInv ==
  ASSUME RnrAssumption, RnrInit
  PROVE  RnrIInv
<1> USE DEF RnrInit
<1>0. MaxRsn \in Nat /\ Len(rxQ) = 0 /\ Len(responses) = 0
  BY DEF RnrAssumption
<1>1. RnrTypeOK
  <2>1. rxQ \in Seq(TargetRsns) /\ responses \in Seq([rsn : TargetRsns, ok : BOOLEAN])
    OBVIOUS
  <2>2. buffer \in [TargetRsns -> RetryTimes] /\ stage \in [TargetRsns -> Stages]
    BY DEF RetryTimes, Stages
  <2>3. nextTarget \in 0..MaxRsn /\ nextNetwork \in Nat /\ nextRx \in 0..MaxRsn
    BY <1>0
  <2> QED
    BY <2>1, <2>2, <2>3 DEF RnrTypeOK
<1>2. PlacesAgree(buffer, stage, rxQ)
  BY <1>0 DEF PlacesAgree, Queued, AnsweredAt
<1>3. OnePlaceEach
  BY <1>0 DEF OnePlaceEach
<1>4. Acked = {}
  BY DEF Acked
<1>5. AcceptedBelow /\ QueueEndsInRun /\ ExpectedIsComing /\ UlpInOrder
  BY <1>0, <1>4 DEF AcceptedBelow, QueueEndsInRun, ExpectedIsComing, UlpInOrder
<1>6. NoneBehind(buffer, stage, nextTarget) /\ EngineStopped
  BY <1>0 DEF NoneBehind, EngineStopped, Ready, TargetRsns
<1>7. RnrAcksCounted
  BY <1>4, FS_EmptySet DEF RnrAcksCounted
<1> QED
  BY <1>1, <1>2, <1>3, <1>5, <1>6, <1>7 DEF RnrIInv, OrderedInv

LEMMA NextIInv ==
  ASSUME RnrAssumption, RnrIInv, [RnrNext]_rnrVars
  PROVE  RnrIInv'
<1>1. ASSUME NEW r \in TargetRsns, InsertPacket(r) PROVE RnrIInv'
  BY <1>1, InsertPacketStep
<1>2. ASSUME NEW r \in TargetRsns, RetryRnrNackedPacket(r) PROVE RnrIInv'
  BY <1>2, RetryRnrNackedPacketStep
<1>3. ASSUME NEW r \in TargetRsns, HandleRnrTimeout(r) PROVE RnrIInv'
  BY <1>3, HandleRnrTimeoutStep
<1>4. ASSUME NEW r \in TargetRsns, TransferToHost(r) PROVE RnrIInv'
  BY <1>4, TransferToHostStep
<1>5. CASE ProcessRefused
  BY <1>5, ProcessRefusedStep
<1>6. CASE ProcessAccepted
  BY <1>6, ProcessAcceptedStep
<1>7. CASE TransferAck
  BY <1>7, TransferAckStep
<1>8. CASE WaitForHost
  BY <1>8, WaitForHostStep
<1>9. CASE TransferNack
  BY <1>9, TransferNackStep
<1>10. CASE UNCHANGED rnrVars
  <2>1. /\ buffer' = buffer /\ nextTarget' = nextTarget /\ nextNetwork' = nextNetwork
        /\ inRnr' = inRnr /\ stage' = stage /\ nacked' = nacked /\ rxQ' = rxQ
        /\ ordered' = ordered /\ nextRx' = nextRx /\ qpRnr' = qpRnr
        /\ responses' = responses /\ late' = late
    BY <1>10 DEF rnrVars, engineVars, metadataVars, qpVars
  <2>2. RnrTypeOK' /\ OnePlaceEach'
    BY <2>1 DEF RnrIInv, RnrTypeOK, OnePlaceEach
  <2>3. PlacesAgree(buffer, stage, rxQ)'
    BY <2>1 DEF RnrIInv, PlacesAgree, Queued, AnsweredAt
  <2>4. ASSUME ordered PROVE OrderedInv'
    <3>1. OrderedInv
      BY <2>4 DEF RnrIInv
    <3>2. AcceptedBelow' /\ RnrAcksCounted'
      BY <2>1, <3>1 DEF OrderedInv, AcceptedBelow, RnrAcksCounted, Acked
    <3>3. QueueEndsInRun' /\ UlpInOrder'
      BY <2>1, <3>1 DEF OrderedInv, QueueEndsInRun, UlpInOrder
    <3>4. ExpectedIsComing'
      BY <2>1, <3>1 DEF OrderedInv, ExpectedIsComing, Queued, AnsweredAt
    <3>5. NoneBehind(buffer, stage, nextTarget)' /\ EngineStopped'
      BY <2>1, <3>1 DEF OrderedInv, NoneBehind, EngineStopped, Ready
    <3> QED
      BY <3>1, <3>2, <3>3, <3>4, <3>5 DEF OrderedInv
  <2> QED
    BY <2>1, <2>2, <2>3, <2>4 DEF RnrIInv
<1> QED
  BY <1>1, <1>2, <1>3, <1>4, <1>5, <1>6, <1>7, <1>8, <1>9, <1>10 DEF RnrNext, RnrFinished

\* The inductive invariant holds: the reorder buffer, the transaction states,
\* the RX queue and the scheduled answers agree on every request, and in order
\* what the queue pair waits for is coming.
THEOREM RnrInvariance ==
  ASSUME RnrAssumption
  PROVE  RnrSpec => []RnrIInv
<1>1. RnrInit => RnrIInv
  BY InitIInv
<1>2. RnrIInv /\ [RnrNext]_rnrVars => RnrIInv'
  BY NextIInv
<1> QED
  BY <1>1, <1>2, PTL DEF RnrSpec

LEMMA IInvInOrder ==
  ASSUME RnrAssumption, RnrIInv
  PROVE  RequestsInOrder
<1>1. /\ PlacesAgree(buffer, stage, rxQ) /\ OnePlaceEach /\ stage \in [TargetRsns -> Stages]
      /\ rxQ \in Seq(TargetRsns) /\ responses \in Seq([rsn : TargetRsns, ok : BOOLEAN])
      /\ late \subseteq TargetRsns /\ nextRx \in 0..MaxRsn /\ nextTarget \in 0..MaxRsn
      /\ MaxRsn \in Nat
  BY DEF RnrIInv, RnrTypeOK, RnrAssumption
<1>2. UlpInOrder
  BY DEF RnrIInv, OrderedInv, UlpInOrder
<1>3. StagesFollow
  <2>1. IsInjective(rxQ)
    BY <1>1, LenProperties DEF OnePlaceEach, IsInjective
  <2>2. ASSUME NEW i \in 1..Len(rxQ) PROVE stage[rxQ[i]] \in {"NtwkRx", "RnrUlpRx"}
    <3>1. rxQ[i] \in TargetRsns /\ Queued(rxQ, rxQ[i])
      BY <1>1, SeqElements DEF Queued
    <3> QED
      BY <1>1, <3>1 DEF PlacesAgree, Stages
  <2>3. ASSUME NEW i \in 1..Len(responses) PROVE stage[responses[i].rsn] = "UlpTx"
    <3>1. responses[i] \in [rsn : TargetRsns, ok : BOOLEAN]
      BY <1>1, SeqElements
    <3>2. responses[i].rsn \in TargetRsns /\ AnsweredAt(responses[i].rsn) # {}
      BY <3>1 DEF AnsweredAt
    <3> QED
      BY <1>1, <3>2 DEF PlacesAgree
  <2>4. \A r \in late : stage[r] = "UlpTx"
    BY <1>1 DEF PlacesAgree
  <2> QED
    BY <2>1, <2>2, <2>3, <2>4 DEF StagesFollow
<1>4. HeadOfLineNotPassed
  <2> SUFFICES ASSUME ordered, NEW r \in TargetRsns, stage[r] = "none" PROVE r >= nextNetwork
    BY DEF HeadOfLineNotPassed
  <2>1. OrderedInv
    BY DEF RnrIInv
  <2>2. r >= nextTarget /\ nextRx <= nextTarget
    BY <2>1 DEF OrderedInv, NoneBehind, AcceptedBelow
  <2>3. Acked \subseteq 0..(nextRx - 1)
    BY <1>1, <2>1 DEF OrderedInv, AcceptedBelow, Acked, TargetRsns
  <2>4. Cardinality(Acked) <= nextRx /\ Cardinality(Acked) \in Nat
    <3>1. IsFiniteSet(0..(nextRx - 1)) /\ Cardinality(0..(nextRx - 1)) = nextRx
      BY <1>1, FS_Interval
    <3> QED
      BY <2>3, <3>1, FS_Subset, FS_CardinalityType
  <2> QED
    BY <1>1, <2>1, <2>2, <2>4 DEF OrderedInv, RnrAcksCounted, TargetRsns
<1> QED
  BY <1>2, <1>3, <1>4 DEF RequestsInOrder

\* The queue pair of an ordered connection never meets the LOG(FATAL) of
\* IsRsnAcceptable, a request is handed over and answered in the right state,
\* and the head of line is not passed, whatever is refused, retried by timer
\* or by a duplicate, and however the timers expire.
THEOREM RequestsStayInOrder ==
  ASSUME RnrAssumption
  PROVE  RnrSpec => []RequestsInOrder
<1>1. RnrIInv => RequestsInOrder
  BY IInvInOrder
<1> QED
  BY <1>1, RnrInvariance, PTL

\* No refused request is left behind next_target_rsn, where neither its timer
\* nor a duplicate would bring it back, and the engine never rests on a
\* request that is ready.
THEOREM NoRequestLeftBehind ==
  ASSUME RnrAssumption
  PROVE  RnrSpec => []NothingLeftBehind
<1>1. ASSUME RnrIInv PROVE NothingLeftBehind
  <2> SUFFICES ASSUME ordered
               PROVE  /\ \A r \in TargetRsns : buffer[r] \in {"new", "due", "waiting"} => r >= nextTarget
                      /\ nextTarget < MaxRsn => ~Ready(buffer, nextTarget)
                      /\ \A r \in Acked : r < nextTarget
    BY DEF NothingLeftBehind
  <2>1. OrderedInv /\ nextRx \in 0..MaxRsn /\ nextTarget \in 0..MaxRsn /\ MaxRsn \in Nat
    BY <1>1 DEF RnrIInv, RnrTypeOK, RnrAssumption
  <2>2. \A r \in Acked : r < nextTarget
    BY <2>1 DEF OrderedInv, AcceptedBelow, Acked, TargetRsns
  <2> QED
    BY <2>1, <2>2 DEF OrderedInv, NoneBehind, EngineStopped
<1> QED
  BY <1>1, RnrInvariance, PTL
-----------------------------------------------------------------------------
(* The RX buffers of the hosts of a NIC. *)

PathIInv == PathTypeOK /\ NoLostWakeup /\ XoffHasRelease /\ InOrder
-----------------------------------------------------------------------------
(* Sequences of consecutive numbers. *)

LEMMA ConsecutiveAppend ==
  ASSUME NEW s \in Seq(Nat), NEW n \in Nat, Consecutive(s, n)
  PROVE  /\ Append(s, n + Len(s)) \in Seq(Nat)
         /\ Len(Append(s, n + Len(s))) = Len(s) + 1
         /\ Consecutive(Append(s, n + Len(s)), n)
  BY DEF Consecutive

LEMMA ConsecutiveTail ==
  ASSUME NEW s \in Seq(Nat), NEW n \in Nat, Consecutive(s, n), s # <<>>
  PROVE  /\ Head(s) = n
         /\ Tail(s) \in Seq(Nat) /\ Len(Tail(s)) = Len(s) - 1 /\ Len(s) > 0
         /\ Consecutive(Tail(s), n + 1)
<1>1. Len(s) \in Nat /\ Len(s) > 0
  BY EmptySeq
<1>2. Head(s) = n
  BY <1>1 DEF Consecutive
<1>3. Tail(s) \in Seq(Nat) /\ Len(Tail(s)) = Len(s) - 1
  BY <1>1
<1>4. \A i \in 1..Len(Tail(s)) : Tail(s)[i] = n + i
  BY <1>1, <1>3 DEF Consecutive
<1>5. Consecutive(Tail(s), n + 1)
  BY <1>3, <1>4 DEF Consecutive
<1> QED
  BY <1>1, <1>2, <1>3, <1>5

LEMMA ConsecutiveConcat ==
  ASSUME NEW s \in Seq(Nat), NEW t \in Seq(Nat), NEW n \in Nat,
         Consecutive(s, n), Consecutive(t, n + Len(s))
  PROVE  /\ s \o t \in Seq(Nat) /\ Len(s \o t) = Len(s) + Len(t)
         /\ Consecutive(s \o t, n)
<1>1. s \o t \in Seq(Nat) /\ Len(s \o t) = Len(s) + Len(t)
  OBVIOUS
<1>2. ASSUME NEW i \in 1..Len(s \o t) PROVE (s \o t)[i] = n + i - 1
  <2>1. CASE i <= Len(s)
    <3>1. (s \o t)[i] = s[i] /\ i \in 1..Len(s)
      BY <2>1
    <3> QED
      BY <3>1 DEF Consecutive
  <2>2. CASE i > Len(s)
    <3>1. (s \o t)[i] = t[i - Len(s)] /\ i - Len(s) \in 1..Len(t)
      BY <1>1, <2>2
    <3>2. t[i - Len(s)] = n + Len(s) + (i - Len(s)) - 1
      BY <3>1 DEF Consecutive
    <3> QED
      BY <3>1, <3>2
  <2> QED
    BY <2>1, <2>2
<1> QED
  BY <1>1, <1>2 DEF Consecutive

LEMMA ConsecutiveSplit ==
  ASSUME NEW s \in Seq(Nat), NEW n \in Nat, Consecutive(s, n), NEW k \in 0..Len(s)
  PROVE  /\ SubSeq(s, 1, k) \in Seq(Nat) /\ Len(SubSeq(s, 1, k)) = k
         /\ Consecutive(SubSeq(s, 1, k), n)
         /\ SubSeq(s, k + 1, Len(s)) \in Seq(Nat)
         /\ Len(SubSeq(s, k + 1, Len(s))) = Len(s) - k
         /\ Consecutive(SubSeq(s, k + 1, Len(s)), n + k)
<1>1. Len(s) \in Nat /\ k \in Nat
  OBVIOUS
<1>2. /\ SubSeq(s, 1, k) \in Seq(Nat) /\ Len(SubSeq(s, 1, k)) = k
      /\ \A i \in 1..k : SubSeq(s, 1, k)[i] = s[i]
  BY <1>1
<1>3. /\ SubSeq(s, k + 1, Len(s)) \in Seq(Nat)
      /\ Len(SubSeq(s, k + 1, Len(s))) = Len(s) - k
      /\ \A i \in 1..(Len(s) - k) : SubSeq(s, k + 1, Len(s))[i] = s[k + i]
  BY <1>1
<1>4. Consecutive(SubSeq(s, 1, k), n)
  BY <1>1, <1>2 DEF Consecutive
<1>5. Consecutive(SubSeq(s, k + 1, Len(s)), n + k)
  <2> SUFFICES ASSUME NEW i \in 1..(Len(s) - k)
               PROVE  SubSeq(s, k + 1, Len(s))[i] = n + k + i - 1
    BY <1>3 DEF Consecutive
  <2>1. k + i \in 1..Len(s)
    BY <1>1
  <2>2. s[k + i] = n + (k + i) - 1
    BY <2>1 DEF Consecutive
  <2> QED
    BY <1>1, <1>3, <2>2
<1> QED
  BY <1>2, <1>3, <1>4, <1>5
-----------------------------------------------------------------------------
(* The packets of one host in the pipeline. *)

LEMMA CarriesAppend ==
  ASSUME NEW s \in Seq(Hosts \X Nat), NEW h \in Hosts, NEW g \in Hosts, NEW x \in Nat,
         NEW a \in Nat, NEW b \in Nat, Carries(s, g, a, b), g = h => x = b
  PROVE  Carries(Append(s, <<h, x>>), g, a, IF g = h THEN b + 1 ELSE b)
<1> DEFINE t == Append(s, <<h, x>>)
<1>1. /\ Len(s) \in Nat /\ Len(t) = Len(s) + 1 /\ t[Len(s) + 1] = <<h, x>>
      /\ \A i \in 1..Len(s) : t[i] = s[i]
  OBVIOUS
<1> HIDE DEF t
<1>2. a <= b /\ {s[i][2] : i \in At(s, g)} = a..(b - 1)
      /\ \A i, j \in At(s, g) : i < j => s[i][2] < s[j][2]
  BY DEF Carries
<1>3. CASE g = h
  <2>1. At(t, g) = At(s, g) \cup {Len(s) + 1}
    BY <1>1, <1>3 DEF At
  <2>2. At(s, g) \subseteq 1..Len(s)
    BY DEF At
  <2>3. \A i \in At(s, g) : t[i] = s[i] /\ s[i][2] \in a..(b - 1) /\ i < Len(s) + 1
    BY <1>1, <1>2, <2>2
  <2>4. t[Len(s) + 1][2] = b
    BY <1>1, <1>3
  <2>5. {t[i][2] : i \in At(t, g)} = {s[i][2] : i \in At(s, g)} \cup {b}
    <3>1. {t[i][2] : i \in At(t, g)} = {t[i][2] : i \in At(s, g)} \cup {t[Len(s) + 1][2]}
      BY <2>1
    <3>2. {t[i][2] : i \in At(s, g)} = {s[i][2] : i \in At(s, g)}
      BY <2>3
    <3> QED
      BY <2>4, <3>1, <3>2
  <2>6. {t[i][2] : i \in At(t, g)} = a..b
    <3>1. a..b = (a..(b - 1)) \cup {b}
      BY <1>2
    <3> QED
      BY <1>2, <2>5, <3>1
  <2>7. \A i, j \in At(t, g) : i < j => t[i][2] < t[j][2]
    <3> SUFFICES ASSUME NEW i \in At(t, g), NEW j \in At(t, g), i < j
                 PROVE  t[i][2] < t[j][2]
      OBVIOUS
    <3>1. i \in At(s, g)
      BY <1>1, <2>1, <2>2
    <3>2. CASE j \in At(s, g)
      BY <1>2, <2>3, <3>1, <3>2
    <3>3. CASE j = Len(s) + 1
      <4>1. t[i][2] \in a..(b - 1)
        BY <2>3, <3>1
      <4>2. t[j][2] = b
        BY <2>4, <3>3
      <4> QED
        BY <4>1, <4>2
    <3> QED
      BY <2>1, <3>2, <3>3
  <2>8. (b + 1) - 1 = b /\ a <= b + 1
    BY <1>2
  <2> QED
    BY <1>3, <2>6, <2>7, <2>8 DEF Carries, t
<1>4. CASE g # h
  <2>1. At(t, g) = At(s, g)
    BY <1>1, <1>4 DEF At
  <2>2. \A i \in At(s, g) : t[i] = s[i]
    BY <1>1 DEF At
  <2>3. {t[i][2] : i \in At(t, g)} = {s[i][2] : i \in At(s, g)}
    BY <2>1, <2>2
  <2>4. \A i, j \in At(t, g) : i < j => t[i][2] < t[j][2]
    BY <1>2, <2>1, <2>2
  <2>5. Carries(t, g, a, b)
    BY <1>2, <2>3, <2>4 DEF Carries
  <2> QED
    BY <1>4, <2>5 DEF t
<1> QED
  BY <1>3, <1>4

LEMMA CarriesTail ==
  ASSUME NEW s \in Seq(Hosts \X Nat), s # <<>>, NEW g \in Hosts,
         NEW a \in Nat, NEW b \in Nat, Carries(s, g, a, b)
  PROVE  /\ Head(s)[1] = g => Head(s)[2] = a /\ Carries(Tail(s), g, a + 1, b)
         /\ Head(s)[1] # g => Carries(Tail(s), g, a, b)
<1> DEFINE t == Tail(s)
<1>1. /\ Len(s) \in Nat \ {0} /\ Len(t) = Len(s) - 1 /\ Head(s) = s[1]
      /\ \A i \in 1..Len(t) : t[i] = s[i + 1]
  BY EmptySeq
<1> HIDE DEF t
<1>2. a <= b /\ {s[i][2] : i \in At(s, g)} = a..(b - 1)
      /\ \A i, j \in At(s, g) : i < j => s[i][2] < s[j][2]
  BY DEF Carries
<1>3. \A i \in 1..Len(t) : i \in At(t, g) <=> i + 1 \in At(s, g)
  BY SMTT(30), <1>1 DEF At
<1>4. At(t, g) \subseteq 1..Len(t) /\ At(s, g) \subseteq 1..Len(s)
  BY DEF At
<1>5. \A i, j \in At(t, g) : i < j => t[i][2] < t[j][2]
  <2> SUFFICES ASSUME NEW i \in At(t, g), NEW j \in At(t, g), i < j
               PROVE  t[i][2] < t[j][2]
    OBVIOUS
  <2>1. i + 1 \in At(s, g) /\ j + 1 \in At(s, g) /\ i + 1 < j + 1
    BY SMTT(30), <1>1, <1>3, <1>4
  <2>2. t[i] = s[i + 1] /\ t[j] = s[j + 1]
    BY <1>1, <1>4
  <2> QED
    BY <1>2, <2>1, <2>2
<1>6. \A i \in At(s, g) : i # 1 => i - 1 \in At(t, g) /\ s[i] = t[i - 1]
  <2> SUFFICES ASSUME NEW i \in At(s, g), i # 1
               PROVE  i - 1 \in At(t, g) /\ s[i] = t[i - 1]
    OBVIOUS
  <2>1. i - 1 \in 1..Len(t) /\ (i - 1) + 1 = i
    BY <1>1, <1>4
  <2> QED
    BY <1>1, <1>3, <2>1
<1>7. \A i \in At(t, g) : i + 1 \in At(s, g) /\ i + 1 # 1 /\ t[i] = s[i + 1]
  BY SMTT(30), <1>1, <1>3, <1>4
<1>8. CASE s[1][1] = g
  <2>1. 1 \in At(s, g)
    BY <1>1, <1>8 DEF At
  <2>2. s[1][2] \in a..(b - 1)
    BY <1>2, <2>1
  <2>3. a \in a..(b - 1)
    BY <2>2
  <2>4. PICK k \in At(s, g) : s[k][2] = a
    BY <1>2, <2>3
  <2>5. k = 1
    <3>1. CASE k # 1
      <4>1. 1 < k
        BY <1>4, <3>1
      <4> QED
        BY <1>2, <2>1, <2>2, <2>4, <4>1
    <3> QED
      BY <3>1
  <2>6. s[1][2] = a
    BY <2>4, <2>5
  <2>7. {t[i][2] : i \in At(t, g)} = (a + 1)..(b - 1)
    <3>1. ASSUME NEW i \in At(t, g) PROVE t[i][2] \in (a + 1)..(b - 1)
      <4>1. s[i + 1][2] \in a..(b - 1)
        BY <1>2, <1>7
      <4>2. 1 < i + 1
        BY <1>4
      <4>3. s[1][2] < s[i + 1][2]
        BY <1>2, <1>7, <2>1, <4>2
      <4> QED
        BY <1>7, <2>6, <4>1, <4>3
    <3>2. ASSUME NEW v \in (a + 1)..(b - 1) PROVE \E i \in At(t, g) : t[i][2] = v
      <4>1. v \in a..(b - 1) /\ v # a
        OBVIOUS
      <4>2. PICK i \in At(s, g) : s[i][2] = v
        BY <1>2, <4>1
      <4>3. i # 1
        BY <2>6, <4>1, <4>2
      <4> QED
        BY <1>6, <4>2, <4>3
    <3> QED
      BY <3>1, <3>2
  <2>8. a + 1 <= b
    BY <2>2
  <2> QED
    BY <1>1, <1>5, <1>8, <2>6, <2>7, <2>8 DEF Carries, t
<1>9. CASE s[1][1] # g
  <2>1. 1 \notin At(s, g)
    BY <1>9 DEF At
  <2>2. {t[i][2] : i \in At(t, g)} = {s[i][2] : i \in At(s, g)}
    <3>1. ASSUME NEW i \in At(t, g) PROVE t[i][2] \in {s[k][2] : k \in At(s, g)}
      BY <1>7
    <3>2. ASSUME NEW k \in At(s, g) PROVE s[k][2] \in {t[i][2] : i \in At(t, g)}
      BY <1>6, <2>1
    <3> QED
      BY <3>1, <3>2
  <2> QED
    BY <1>1, <1>2, <1>5, <1>9, <2>2 DEF Carries, t
<1> QED
  BY <1>8, <1>9, <1>1
-----------------------------------------------------------------------------
(* The memory interface. *)

LEMMA FirstGoesOn ==
  ASSUME NEW w \in Nat, NEW m \in Nat, NEW n \in Nat
  PROVE  (w + 1) + (m + n - 1) = w + m + n /\ w + (m + n) = w + m + n
  OBVIOUS

\* What the write queue of h becomes: the packets of q and s go on, in order.
LEMMA WriteStep ==
  ASSUME PathTypeOK, NEW h \in Hosts, NEW q \in Seq(Nat), NEW s \in Seq(Nat),
         NEW idle \in BOOLEAN, ~idle => h \in busy, WriteToMemory(h, q, idle, s),
         Consecutive(written[h], 0), Consecutive(q, Len(written[h])),
         Consecutive(s, Len(written[h]) + Len(q))
  PROVE  /\ txQueue' \in [Hosts -> Seq(Nat)] /\ written' \in [Hosts -> Seq(Nat)]
         /\ busy' \subseteq Hosts
         /\ \A g \in Hosts \ {h} : /\ txQueue'[g] = txQueue[g] /\ written'[g] = written[g]
                                   /\ g \in busy' <=> g \in busy
         /\ Consecutive(written'[h], 0) /\ Consecutive(txQueue'[h], Len(written'[h]))
         /\ Len(written'[h]) + Len(txQueue'[h]) = Len(written[h]) + Len(q) + Len(s)
         /\ IF idle /\ Len(q) + Len(s) > 0
            THEN Len(txQueue'[h]) = Len(q) + Len(s) - 1
            ELSE Len(txQueue'[h]) = Len(q) + Len(s)
         /\ h \in busy' <=> ~idle \/ Len(q) + Len(s) > 0
<1> DEFINE all == q \o s
           start == idle /\ all # <<>>
<1>1. /\ txQueue' = [txQueue EXCEPT ![h] = IF start THEN Tail(all) ELSE all]
      /\ written' = IF start THEN [written EXCEPT ![h] = Append(written[h], Head(all))]
                    ELSE written
      /\ busy' = IF start THEN busy \cup {h} ELSE IF idle THEN busy \ {h} ELSE busy
  BY DEF WriteToMemory
<1>2. /\ txQueue \in [Hosts -> Seq(Nat)] /\ written \in [Hosts -> Seq(Nat)]
      /\ busy \subseteq Hosts /\ Len(written[h]) \in Nat
      /\ Len(q) \in Nat /\ Len(s) \in Nat
  BY DEF PathTypeOK
<1>3. /\ all \in Seq(Nat) /\ Len(all) = Len(q) + Len(s)
      /\ Consecutive(all, Len(written[h]))
  BY <1>2, ConsecutiveConcat
<1>4. all # <<>> <=> Len(q) + Len(s) > 0
  BY <1>2, <1>3, EmptySeq
<1> HIDE DEF all
<1>5. CASE start
  <2>1. /\ Head(all) = Len(written[h]) /\ Tail(all) \in Seq(Nat)
        /\ Len(Tail(all)) = Len(all) - 1
        /\ Consecutive(Tail(all), Len(written[h]) + 1)
    BY <1>2, <1>3, <1>5, ConsecutiveTail
  <2>2. 0 + Len(written[h]) = Len(written[h])
    BY <1>2
  <2>3. written[h] \in Seq(Nat)
    BY <1>2
  <2>4. /\ Append(written[h], Len(written[h])) \in Seq(Nat)
        /\ Len(Append(written[h], Len(written[h]))) = Len(written[h]) + 1
        /\ Consecutive(Append(written[h], Len(written[h])), 0)
    BY <2>2, <2>3, ConsecutiveAppend
  <2>5. /\ txQueue' = [txQueue EXCEPT ![h] = Tail(all)]
        /\ written' = [written EXCEPT ![h] = Append(written[h], Len(written[h]))]
        /\ busy' = busy \cup {h}
    BY <1>1, <1>5, <2>1
  <2>6. /\ txQueue' \in [Hosts -> Seq(Nat)] /\ written' \in [Hosts -> Seq(Nat)]
        /\ txQueue'[h] = Tail(all) /\ written'[h] = Append(written[h], Len(written[h]))
        /\ \A g \in Hosts \ {h} : txQueue'[g] = txQueue[g] /\ written'[g] = written[g]
    BY <1>2, <2>1, <2>4, <2>5
  <2>7. /\ Len(txQueue'[h]) = Len(q) + Len(s) - 1
        /\ Len(written'[h]) = Len(written[h]) + 1
        /\ Len(written'[h]) + Len(txQueue'[h]) = Len(written[h]) + Len(q) + Len(s)
    <3>1. Len(txQueue'[h]) = Len(q) + Len(s) - 1
      BY <1>3, <2>1, <2>6
    <3>2. Len(written'[h]) = Len(written[h]) + 1
      BY <2>4, <2>6
    <3>3. Len(written[h]) \in Nat /\ Len(q) \in Nat /\ Len(s) \in Nat
      BY <1>2
    <3>4. (Len(written[h]) + 1) + (Len(q) + Len(s) - 1) = Len(written[h]) + Len(q) + Len(s)
      BY <3>3, FirstGoesOn
    <3> QED
      BY <3>1, <3>2, <3>4
  <2> QED
    BY <1>2, <1>4, <1>5, <2>1, <2>4, <2>5, <2>6, <2>7
<1>6. CASE ~start
  <2>1. /\ txQueue' = [txQueue EXCEPT ![h] = all] /\ written' = written
        /\ busy' = IF idle THEN busy \ {h} ELSE busy
    BY <1>1, <1>6
  <2>2. /\ txQueue' \in [Hosts -> Seq(Nat)] /\ txQueue'[h] = all
        /\ \A g \in Hosts \ {h} : txQueue'[g] = txQueue[g]
    BY <1>2, <1>3, <2>1
  <2>3. Len(written'[h]) + Len(txQueue'[h]) = Len(written[h]) + Len(q) + Len(s)
    <3>1. Len(txQueue'[h]) = Len(q) + Len(s) /\ written'[h] = written[h]
      BY <1>3, <2>1, <2>2
    <3>2. Len(written[h]) \in Nat /\ Len(q) \in Nat /\ Len(s) \in Nat
      BY <1>2
    <3>3. Len(written[h]) + (Len(q) + Len(s)) = Len(written[h]) + Len(q) + Len(s)
      BY <3>2, FirstGoesOn
    <3> QED
      BY <3>1, <3>3
  <2>4. idle => ~(Len(q) + Len(s) > 0)
    BY <1>4, <1>6
  <2>5. h \in busy' <=> ~idle \/ Len(q) + Len(s) > 0
    BY <2>1, <2>4
  <2>6. \A g \in Hosts \ {h} : g \in busy' <=> g \in busy
    BY <2>1
  <2> QED
    BY <1>2, <1>3, <2>1, <2>2, <2>3, <2>4, <2>5, <2>6
<1> QED
  BY <1>5, <1>6

\* An idle link takes the first packet, if there is one.
LEMMA WriteToIdle ==
  ASSUME PathTypeOK, NEW h \in Hosts, NEW q \in Seq(Nat), NEW s \in Seq(Nat),
         WriteToMemory(h, q, TRUE, s),
         Consecutive(written[h], 0), Consecutive(q, Len(written[h])),
         Consecutive(s, Len(written[h]) + Len(q))
  PROVE  /\ txQueue' \in [Hosts -> Seq(Nat)] /\ written' \in [Hosts -> Seq(Nat)]
         /\ busy' \subseteq Hosts
         /\ \A g \in Hosts \ {h} : /\ txQueue'[g] = txQueue[g] /\ written'[g] = written[g]
                                   /\ g \in busy' <=> g \in busy
         /\ Consecutive(written'[h], 0) /\ Consecutive(txQueue'[h], Len(written'[h]))
         /\ Len(written'[h]) + Len(txQueue'[h]) = Len(written[h]) + Len(q) + Len(s)
         /\ Len(txQueue'[h]) = IF Len(q) + Len(s) > 0 THEN Len(q) + Len(s) - 1 ELSE 0
         /\ h \in busy' <=> Len(q) + Len(s) > 0
<1>1. Len(q) \in Nat /\ Len(s) \in Nat
  OBVIOUS
<1>2. TRUE \in BOOLEAN /\ (~TRUE => h \in busy)
  OBVIOUS
<1>3. /\ txQueue' \in [Hosts -> Seq(Nat)] /\ written' \in [Hosts -> Seq(Nat)]
      /\ busy' \subseteq Hosts
      /\ \A g \in Hosts \ {h} : /\ txQueue'[g] = txQueue[g] /\ written'[g] = written[g]
                                /\ g \in busy' <=> g \in busy
      /\ Consecutive(written'[h], 0) /\ Consecutive(txQueue'[h], Len(written'[h]))
      /\ Len(written'[h]) + Len(txQueue'[h]) = Len(written[h]) + Len(q) + Len(s)
  BY <1>2, WriteStep
<1>4. h \in busy' <=> Len(q) + Len(s) > 0
  BY <1>2, WriteStep
<1>5. CASE Len(q) + Len(s) > 0
  <2>1. Len(txQueue'[h]) = Len(q) + Len(s) - 1
    BY <1>2, <1>5, WriteStep
  <2> QED
    BY <1>3, <1>4, <1>5, <2>1
<1>6. CASE ~(Len(q) + Len(s) > 0)
  <2>1. Len(txQueue'[h]) = Len(q) + Len(s)
    BY <1>2, <1>6, WriteStep
  <2>2. Len(txQueue'[h]) = 0
    BY <1>1, <1>6, <2>1
  <2> QED
    BY <1>3, <1>4, <1>6, <2>2
<1> QED
  BY <1>5, <1>6

\* A busy link lets everything wait.
LEMMA WriteToBusy ==
  ASSUME PathTypeOK, NEW h \in Hosts, NEW q \in Seq(Nat), NEW s \in Seq(Nat),
         h \in busy, WriteToMemory(h, q, FALSE, s),
         Consecutive(written[h], 0), Consecutive(q, Len(written[h])),
         Consecutive(s, Len(written[h]) + Len(q))
  PROVE  /\ txQueue' \in [Hosts -> Seq(Nat)] /\ written' \in [Hosts -> Seq(Nat)]
         /\ busy' \subseteq Hosts
         /\ \A g \in Hosts \ {h} : /\ txQueue'[g] = txQueue[g] /\ written'[g] = written[g]
                                   /\ g \in busy' <=> g \in busy
         /\ Consecutive(written'[h], 0) /\ Consecutive(txQueue'[h], Len(written'[h]))
         /\ Len(written'[h]) + Len(txQueue'[h]) = Len(written[h]) + Len(q) + Len(s)
         /\ Len(txQueue'[h]) = Len(q) + Len(s)
         /\ h \in busy'
  BY WriteStep
-----------------------------------------------------------------------------
(* The round: a list that holds the members of a set once each. *)

Round(s, S) ==
  /\ {s[i] : i \in 1..Len(s)} = S
  /\ \A i, j \in 1..Len(s) : s[i] = s[j] => i = j

LEMMA RoundAppend ==
  ASSUME NEW s \in Seq(Hosts), NEW S, Round(s, S), NEW h \in Hosts, h \notin S
  PROVE  Append(s, h) \in Seq(Hosts) /\ Round(Append(s, h), S \cup {h})
<1> DEFINE t == Append(s, h)
<1>1. /\ t \in Seq(Hosts) /\ Len(s) \in Nat /\ Len(t) = Len(s) + 1 /\ t[Len(s) + 1] = h
      /\ \A i \in 1..Len(s) : t[i] = s[i]
  OBVIOUS
<1> HIDE DEF t
<1>2. 1..Len(t) = (1..Len(s)) \cup {Len(s) + 1}
  BY <1>1
<1>3. {t[i] : i \in 1..Len(t)} = S \cup {h}
  BY <1>1, <1>2 DEF Round
<1>4. \A i \in 1..Len(s) : s[i] # h
  BY DEF Round
<1>5. \A i, j \in 1..Len(t) : t[i] = t[j] => i = j
  BY <1>1, <1>2, <1>4 DEF Round
<1> QED
  BY <1>1, <1>3, <1>5 DEF Round, t

LEMMA RoundTail ==
  ASSUME NEW s \in Seq(Hosts), NEW S, Round(s, S), s # <<>>
  PROVE  /\ Head(s) \in S /\ Head(s) \in Hosts
         /\ Tail(s) \in Seq(Hosts) /\ Round(Tail(s), S \ {Head(s)})
<1> DEFINE t == Tail(s)
<1>1. /\ Len(s) \in Nat \ {0} /\ t \in Seq(Hosts) /\ Len(t) = Len(s) - 1
      /\ Head(s) = s[1] /\ s[1] \in Hosts
      /\ \A i \in 1..Len(t) : t[i] = s[i + 1]
  BY EmptySeq
<1> HIDE DEF t
<1>2. s[1] \in S
  BY <1>1 DEF Round
<1>3. \A i \in 1..Len(t) : i + 1 \in 1..Len(s) /\ i + 1 # 1 /\ i \in Nat
  BY <1>1
<1>4. \A i \in 1..Len(s) : i # 1 => i - 1 \in 1..Len(t) /\ t[i - 1] = s[i]
  <2> SUFFICES ASSUME NEW i \in 1..Len(s), i # 1
               PROVE  i - 1 \in 1..Len(t) /\ t[i - 1] = s[i]
    OBVIOUS
  <2>1. i - 1 \in 1..Len(t) /\ (i - 1) + 1 = i
    BY <1>1
  <2> QED
    BY <1>1, <2>1
<1>5. {t[i] : i \in 1..Len(t)} = S \ {s[1]}
  <2>1. ASSUME NEW i \in 1..Len(t) PROVE t[i] \in S \ {s[1]}
    <3>1. s[i + 1] # s[1] /\ s[i + 1] \in S
      BY <1>1, <1>3 DEF Round
    <3> QED
      BY <1>1, <3>1
  <2>2. ASSUME NEW x \in S \ {s[1]} PROVE \E i \in 1..Len(t) : t[i] = x
    <3>1. PICK i \in 1..Len(s) : s[i] = x
      BY DEF Round
    <3> QED
      BY <1>4, <3>1
  <2> QED
    BY <2>1, <2>2
<1>6. \A i, j \in 1..Len(t) : t[i] = t[j] => i = j
  <2> SUFFICES ASSUME NEW i \in 1..Len(t), NEW j \in 1..Len(t), t[i] = t[j] PROVE i = j
    OBVIOUS
  <2>1. i + 1 = j + 1
    BY <1>1, <1>3 DEF Round
  <2> QED
    BY <1>3, <2>1
<1> QED
  BY <1>1, <1>2, <1>5, <1>6 DEF Round, t

LEMMA RoundWithout ==
  ASSUME active \in Seq(Hosts), NEW S, Round(active, S), NEW h \in S
  PROVE  Without(h) \in Seq(Hosts) /\ Round(Without(h), S \ {h}) /\ active # <<>>
<1> DEFINE t == Without(h)
           k == Iterator(h)
           n == Len(active)
<1>1. \E i \in 1..n : active[i] = h
  BY DEF Round
<1>2. k \in 1..n /\ active[k] = h
  BY <1>1 DEF Iterator
<1>3. n \in Nat \ {0} /\ active # <<>>
  BY <1>1, EmptySeq
<1>4. \A i \in 1..n : active[i] \in Hosts
  OBVIOUS
<1>5. /\ t = [i \in 1..(n - 1) |-> IF i < k THEN active[i] ELSE active[i + 1]]
  BY DEF Without
<1> HIDE DEF t, k
<1>6. \A i \in 1..(n - 1) : /\ i \in 1..n /\ i + 1 \in 1..n /\ i \in Nat
                            /\ t[i] = IF i < k THEN active[i] ELSE active[i + 1]
  BY <1>3, <1>5
<1>7. t \in Seq(Hosts) /\ Len(t) = n - 1
  <2>1. \A i \in 1..(n - 1) : t[i] \in Hosts
    BY <1>4, <1>6
  <2>2. t \in [1..(n - 1) -> Hosts] /\ n - 1 \in Nat
    BY <1>3, <1>5, <2>1
  <2> QED
    BY <2>2
<1> HIDE DEF n
<1>8. {t[i] : i \in 1..(n - 1)} = S \ {h}
  <2>1. ASSUME NEW i \in 1..(n - 1) PROVE t[i] \in S \ {h}
    <3>1. CASE i < k
      <4>1. i # k
        BY <1>2, <3>1
      <4> QED
        BY <1>2, <1>6, <3>1, <4>1 DEF Round, n
    <3>2. CASE ~(i < k)
      <4>1. i + 1 # k
        BY <1>2, <1>6, <3>2
      <4> QED
        BY <1>2, <1>6, <3>2, <4>1 DEF Round, n
    <3> QED
      BY <3>1, <3>2
  <2>2. ASSUME NEW x \in S \ {h} PROVE \E i \in 1..(n - 1) : t[i] = x
    <3>1. PICK i \in 1..n : active[i] = x
      BY DEF Round, n
    <3>2. i # k
      BY <1>2, <3>1
    <3>3. CASE i < k
      <4>1. i \in 1..(n - 1)
        BY <1>2, <1>3, <3>3
      <4> QED
        BY <1>6, <3>1, <3>3, <4>1
    <3>4. CASE i > k
      <4>1. i - 1 \in 1..(n - 1) /\ ~(i - 1 < k) /\ (i - 1) + 1 = i
        BY <1>2, <1>3, <3>4
      <4> QED
        BY <1>6, <3>1, <4>1
    <3> QED
      BY <1>2, <3>2, <3>3, <3>4
  <2> QED
    BY <2>1, <2>2
<1>9. \A i, j \in 1..(n - 1) : t[i] = t[j] => i = j
  <2> SUFFICES ASSUME NEW i \in 1..(n - 1), NEW j \in 1..(n - 1), t[i] = t[j] PROVE i = j
    OBVIOUS
  <2>1. \A x, y \in 1..n : active[x] = active[y] => x = y
    BY DEF Round, n
  <2>2. CASE i < k /\ j < k
    BY <1>6, <2>1, <2>2
  <2>3. CASE i < k /\ ~(j < k)
    <3>1. i = j + 1
      BY <1>6, <2>1, <2>3
    <3> QED
      BY <1>2, <1>6, <2>3, <3>1
  <2>4. CASE ~(i < k) /\ j < k
    <3>1. i + 1 = j
      BY <1>6, <2>1, <2>4
    <3> QED
      BY <1>2, <1>6, <2>4, <3>1
  <2>5. CASE ~(i < k) /\ ~(j < k)
    <3>1. i + 1 = j + 1
      BY <1>6, <2>1, <2>5
    <3> QED
      BY <1>6, <3>1
  <2> QED
    BY <2>2, <2>3, <2>4, <2>5
<1> QED
  BY <1>3, <1>7, <1>8, <1>9 DEF Round, t
-----------------------------------------------------------------------------
(* XOFF and XON. *)

\* The part of NoLostWakeup that XOFF and XON can disturb.
RoundIsSound ==
  /\ active \in Seq(Hosts) /\ Round(active, hasWork \ xoff)
  /\ running \in BOOLEAN /\ (active # <<>> => running)

LEMMA RoundOfInvariant ==
  ASSUME PathTypeOK, NoLostWakeup
  PROVE  RoundIsSound
<1>1. Round(active, hasWork \ xoff)
  BY DEF NoLostWakeup, Round
<1> QED
  BY <1>1 DEF RoundIsSound, PathTypeOK, NoLostWakeup

LEMMA XoffStep ==
  ASSUME RoundIsSound, NEW h \in Hosts, XoffHost(h)
  PROVE  RoundIsSound' /\ xoff' = xoff \cup {h} /\ queue' = queue /\ hasWork' = hasWork
<1>1. /\ xoff' = xoff \cup {h} /\ queue' = queue /\ hasWork' = hasWork /\ running' = running
      /\ active' = IF h \in hasWork \ xoff THEN Without(h) ELSE active
  BY DEF XoffHost
<1>2. /\ active \in Seq(Hosts) /\ Round(active, hasWork \ xoff)
      /\ running \in BOOLEAN /\ (active # <<>> => running)
  BY DEF RoundIsSound
<1>3. CASE h \in hasWork \ xoff
  <2>1. /\ Without(h) \in Seq(Hosts) /\ Round(Without(h), (hasWork \ xoff) \ {h})
        /\ active # <<>>
    BY <1>2, <1>3, RoundWithout
  <2>2. hasWork' \ xoff' = (hasWork \ xoff) \ {h}
    BY <1>1
  <2>3. active' \in Seq(Hosts) /\ Round(active', hasWork' \ xoff')
    BY <1>1, <1>3, <2>1, <2>2
  <2> QED
    BY <1>1, <1>2, <2>1, <2>3 DEF RoundIsSound, Round
<1>4. CASE h \notin hasWork \ xoff
  <2>1. hasWork' \ xoff' = hasWork \ xoff /\ active' = active
    BY <1>1, <1>4
  <2> QED
    BY <1>1, <1>2, <2>1 DEF RoundIsSound, Round
<1> QED
  BY <1>3, <1>4

LEMMA XonStep ==
  ASSUME RoundIsSound, NEW h \in Hosts, XonHost(h)
  PROVE  RoundIsSound' /\ xoff' = xoff \ {h} /\ queue' = queue /\ hasWork' = hasWork
<1>1. /\ xoff' = xoff \ {h} /\ queue' = queue /\ hasWork' = hasWork
      /\ running' = (running \/ active' # <<>>)
      /\ active' = IF h \in xoff \cap hasWork THEN Append(active, h) ELSE active
  BY DEF XonHost
<1>2. /\ active \in Seq(Hosts) /\ Round(active, hasWork \ xoff)
  BY DEF RoundIsSound
<1>3. running' \in BOOLEAN /\ (active' # <<>> => running')
  BY <1>1
<1>4. CASE h \in xoff \cap hasWork
  <2>1. Append(active, h) \in Seq(Hosts) /\ Round(Append(active, h), (hasWork \ xoff) \cup {h})
    BY <1>2, <1>4, RoundAppend
  <2>2. hasWork' \ xoff' = (hasWork \ xoff) \cup {h}
    BY <1>1, <1>4
  <2>3. active' \in Seq(Hosts) /\ Round(active', hasWork' \ xoff')
    BY <1>1, <1>4, <2>1, <2>2
  <2> QED
    BY <1>1, <1>3, <2>3 DEF RoundIsSound, Round
<1>5. CASE h \notin xoff \cap hasWork
  <2>1. hasWork' \ xoff' = hasWork \ xoff /\ active' = active
    BY <1>1, <1>5
  <2> QED
    BY <1>1, <1>2, <1>3, <2>1 DEF RoundIsSound, Round
<1> QED
  BY <1>4, <1>5
-----------------------------------------------------------------------------
(* The actions. *)

LEMMA SumAndDifference ==
  ASSUME NEW x \in Nat, NEW y \in Nat, NEW z \in Nat
  PROVE  /\ x + y \in Nat /\ x + y + z \in Nat /\ x + y + (z + 1) = (x + y + z) + 1
         /\ x + y + 0 = x + y
         /\ (x <= y - z => y - z \in Nat) /\ y = (y - z) + z
  OBVIOUS

LEMMA ConsecutiveSingle ==
  ASSUME NEW n \in Nat
  PROVE  <<n>> \in Seq(Nat) /\ Len(<<n>>) = 1 /\ Consecutive(<<n>>, n)
  BY DEF Consecutive

\* The lengths are numbers and fit together.
LEMMA Numbers ==
  ASSUME PathIInv, NEW h \in Hosts
  PROVE  /\ Len(written[h]) \in Nat /\ Len(txQueue[h]) \in Nat /\ Len(rxBuffer[h]) \in Nat
         /\ Len(queue[h]) \in Nat /\ sent[h] \in Nat
         /\ Taken(h) \in Nat /\ Released(h) \in Nat
         /\ sent[h] = Released(h) + Len(queue[h])
         /\ Taken(h) = Len(written[h]) + Len(txQueue[h]) + Len(rxBuffer[h])
<1>1. /\ written[h] \in Seq(Nat) /\ txQueue[h] \in Seq(Nat) /\ rxBuffer[h] \in Seq(Nat)
      /\ queue[h] \in Seq(Nat) /\ sent[h] \in 0..MaxPackets
  BY DEF PathIInv, PathTypeOK
<1>2. /\ Len(written[h]) \in Nat /\ Len(txQueue[h]) \in Nat /\ Len(rxBuffer[h]) \in Nat
      /\ Len(queue[h]) \in Nat /\ sent[h] \in Nat
  BY <1>1
<1>3. Taken(h) <= Released(h)
  BY DEF PathIInv, InOrder, Carries
<1>4. /\ Taken(h) = Len(written[h]) + Len(txQueue[h]) + Len(rxBuffer[h])
      /\ Released(h) = sent[h] - Len(queue[h])
  BY DEF Taken, Released
<1>5. /\ Taken(h) \in Nat /\ Released(h) \in Nat
      /\ sent[h] = Released(h) + Len(queue[h])
  <2>1. Len(written[h]) + Len(txQueue[h]) + Len(rxBuffer[h]) <= sent[h] - Len(queue[h])
    BY <1>3, <1>4
  <2>2. /\ Len(written[h]) + Len(txQueue[h]) + Len(rxBuffer[h]) \in Nat
        /\ sent[h] - Len(queue[h]) \in Nat
        /\ sent[h] = (sent[h] - Len(queue[h])) + Len(queue[h])
    <3>1. Len(written[h]) + Len(txQueue[h]) + Len(rxBuffer[h]) \in Nat
      BY <1>2, SumAndDifference
    <3>2. sent[h] - Len(queue[h]) \in Nat
      BY <1>2, <2>1, <3>1, SumAndDifference
    <3>3. sent[h] = (sent[h] - Len(queue[h])) + Len(queue[h])
      BY <1>2, SumAndDifference
    <3> QED
      BY <3>1, <3>2, <3>3
  <2> QED
    BY <1>4, <2>2
<1> QED
  BY <1>2, <1>4, <1>5

LEMMA NothingMoves ==
  ASSUME InOrder, sent' = sent, queue' = queue, pipeline' = pipeline,
         rxBuffer' = rxBuffer, txQueue' = txQueue, written' = written
  PROVE  InOrder'
<1> SUFFICES ASSUME NEW g \in Hosts
             PROVE  /\ Consecutive(written[g], 0)' /\ Consecutive(txQueue[g], Len(written[g]))'
                    /\ Consecutive(rxBuffer[g], Len(written[g]) + Len(txQueue[g]))'
                    /\ Carries(pipeline, g, Taken(g), Released(g))'
                    /\ Consecutive(queue[g], Released(g))'
  BY DEF InOrder
<1>1. /\ Consecutive(written[g], 0) /\ Consecutive(txQueue[g], Len(written[g]))
      /\ Consecutive(rxBuffer[g], Len(written[g]) + Len(txQueue[g]))
      /\ Carries(pipeline, g, Taken(g), Released(g))
      /\ Consecutive(queue[g], Released(g))
  BY DEF InOrder
<1>2. Taken(g)' = Taken(g) /\ Released(g)' = Released(g)
  BY DEF Taken, Released
<1> QED
  BY ZenonT(60), <1>1, <1>2 DEF Consecutive, Carries, At

LEMMA EnqueueStep ==
  ASSUME PathAssumption, PathIInv, NEW h \in Hosts, Enqueue(h)
  PROVE  PathIInv'
<1>0. PathTypeOK /\ NoLostWakeup /\ XoffHasRelease /\ InOrder
  BY DEF PathIInv
<1>1. /\ sent[h] < MaxPackets /\ sent' = [sent EXCEPT ![h] = sent[h] + 1]
      /\ queue' = [queue EXCEPT ![h] = Append(queue[h], sent[h])]
      /\ hasWork' = hasWork \cup {h}
      /\ active' = IF h \in hasWork \cup xoff THEN active ELSE Append(active, h)
      /\ running' = TRUE
      /\ xoff' = xoff /\ pipeline' = pipeline /\ rxBuffer' = rxBuffer
      /\ txQueue' = txQueue /\ busy' = busy /\ written' = written
  BY DEF Enqueue, MarkHostActive, memoryVars
<1>2. /\ sent \in [Hosts -> 0..MaxPackets] /\ queue \in [Hosts -> Seq(Nat)]
      /\ hasWork \subseteq Hosts
  BY <1>0 DEF PathTypeOK
<1>3. /\ Append(queue[h], sent[h]) \in Seq(Nat)
      /\ Len(Append(queue[h], sent[h])) = Len(queue[h]) + 1
      /\ Consecutive(Append(queue[h], sent[h]), Released(h))
  <2>1. Consecutive(queue[h], Released(h))
    BY <1>0 DEF InOrder
  <2>2. queue[h] \in Seq(Nat)
    BY <1>2
  <2> QED
    BY <2>1, <2>2, Numbers, ConsecutiveAppend
<1>4. queue' \in [Hosts -> Seq(Nat)] /\ sent' \in [Hosts -> 0..MaxPackets]
  <2>1. sent[h] + 1 \in 0..MaxPackets
    BY <1>1, <1>2 DEF PathAssumption
  <2> QED
    BY <1>1, <1>2, <1>3, <2>1
<1>5. RoundIsSound'
  <2>1. RoundIsSound
    BY <1>0, RoundOfInvariant
  <2>2. active' \in Seq(Hosts) /\ Round(active', hasWork' \ xoff')
    <3>1. CASE h \in hasWork \cup xoff
      <4>1. hasWork' \ xoff' = hasWork \ xoff /\ active' = active
        BY <1>1, <3>1
      <4> QED
        BY <2>1, <4>1 DEF RoundIsSound
    <3>2. CASE h \notin hasWork \cup xoff
      <4>1. hasWork' \ xoff' = (hasWork \ xoff) \cup {h} /\ active' = Append(active, h)
        BY <1>1, <3>2
      <4> QED
        BY <2>1, <3>2, <4>1, RoundAppend DEF RoundIsSound
    <3> QED
      BY <3>1, <3>2
  <2> QED
    BY <1>1, <2>2 DEF RoundIsSound, Round
<1>6. PathTypeOK'
  BY <1>0, <1>1, <1>4, <1>5 DEF PathTypeOK, RoundIsSound
<1>7. NoLostWakeup'
  <2>1. hasWork' = {g \in Hosts : queue'[g] # <<>>}
    <3>1. queue'[h] # <<>> /\ \A g \in Hosts \ {h} : queue'[g] = queue[g]
      BY <1>1, <1>2, <1>3
    <3>2. hasWork = {g \in Hosts : queue[g] # <<>>}
      BY <1>0 DEF NoLostWakeup
    <3> QED
      BY <1>1, <3>1, <3>2
  <2> QED
    BY <1>5, <2>1 DEF NoLostWakeup, RoundIsSound, Round
<1>8. XoffHasRelease'
  BY <1>0, <1>1 DEF XoffHasRelease
<1>9. InOrder'
  <2> SUFFICES ASSUME NEW g \in Hosts
               PROVE  /\ Consecutive(written[g], 0)' /\ Consecutive(txQueue[g], Len(written[g]))'
                      /\ Consecutive(rxBuffer[g], Len(written[g]) + Len(txQueue[g]))'
                      /\ Carries(pipeline, g, Taken(g), Released(g))'
                      /\ Consecutive(queue[g], Released(g))'
    BY DEF InOrder
  <2>1. /\ Consecutive(written[g], 0) /\ Consecutive(txQueue[g], Len(written[g]))
        /\ Consecutive(rxBuffer[g], Len(written[g]) + Len(txQueue[g]))
        /\ Carries(pipeline, g, Taken(g), Released(g))
        /\ Consecutive(queue[g], Released(g))
    BY <1>0 DEF InOrder
  <2>2. Taken(g)' = Taken(g)
    BY <1>1 DEF Taken
  <2>3. Released(g)' = Released(g)
    <3>1. CASE g = h
      <4>1. Len(queue'[h]) = Len(queue[h]) + 1 /\ sent'[h] = sent[h] + 1
        BY <1>1, <1>2, <1>3
      <4> QED
        <5>1. (sent[h] + 1) - (Len(queue[h]) + 1) = sent[h] - Len(queue[h])
          <6>1. sent[h] \in Nat /\ Len(queue[h]) \in Nat
            BY Numbers
          <6> QED
            BY <6>1
        <5> QED
          BY <3>1, <4>1, <5>1 DEF Released
    <3>2. CASE g # h
      BY <1>1, <1>2, <3>2 DEF Released
    <3> QED
      BY <3>1, <3>2
  <2>4. Consecutive(queue'[g], Released(g))
    <3>1. CASE g = h
      BY <1>1, <1>2, <1>3, <3>1
    <3>2. CASE g # h
      BY <1>1, <1>2, <2>1, <3>2
    <3> QED
      BY <3>1, <3>2
  <2> QED
    BY ZenonT(60), <1>1, <2>1, <2>2, <2>3, <2>4 DEF Consecutive, Carries, At
<1> QED
  BY <1>6, <1>7, <1>8, <1>9 DEF PathIInv

LEMMA ScheduleWorkStep ==
  ASSUME PathAssumption, PathIInv, ScheduleWork
  PROVE  PathIInv'
<1>0. /\ PathTypeOK /\ NoLostWakeup /\ XoffHasRelease /\ InOrder
  BY DEF PathIInv
<1>1. /\ sent' = sent /\ xoff' = xoff /\ rxBuffer' = rxBuffer
      /\ txQueue' = txQueue /\ busy' = busy /\ written' = written
  BY DEF ScheduleWork, memoryVars
<1>2. XoffHasRelease'
  BY <1>0, <1>1 DEF XoffHasRelease
<1>3. CASE active = <<>>
  <2>1. /\ running' = FALSE /\ queue' = queue /\ hasWork' = hasWork
        /\ active' = active /\ pipeline' = pipeline
    BY <1>3 DEF ScheduleWork
  <2>2. PathTypeOK'
    BY <1>0, <1>1, <2>1 DEF PathTypeOK
  <2>3. NoLostWakeup'
    BY <1>0, <1>1, <1>3, <2>1 DEF NoLostWakeup
  <2>4. InOrder'
    BY <1>0, <1>1, <2>1, NothingMoves
  <2> QED
    BY <1>2, <2>2, <2>3, <2>4 DEF PathIInv
<1>4. CASE active # <<>>
  <2> DEFINE h == Head(active)
             last == Tail(queue[h]) = <<>>
  <2>1. /\ pipeline' = Append(pipeline, <<h, Head(queue[h])>>)
        /\ queue' = [queue EXCEPT ![h] = Tail(queue[h])]
        /\ hasWork' = IF last THEN hasWork \ {h} ELSE hasWork
        /\ active' = IF last THEN Tail(active) ELSE Append(Tail(active), h)
        /\ running' = (active' # <<>>)
    BY <1>4 DEF ScheduleWork, MarkHostInactive, SelectHost
  <2>2. /\ active \in Seq(Hosts) /\ Round(active, hasWork \ xoff)
    BY <1>0, RoundOfInvariant DEF RoundIsSound
  <2>3. /\ h \in hasWork \ xoff /\ h \in Hosts
        /\ Tail(active) \in Seq(Hosts) /\ Round(Tail(active), (hasWork \ xoff) \ {h})
    BY <1>4, <2>2, RoundTail
  <2> HIDE DEF h
  <2>4. /\ queue[h] # <<>> /\ hasWork = {g \in Hosts : queue[g] # <<>>}
    BY <1>0, <2>3 DEF NoLostWakeup
  <2>5. /\ queue \in [Hosts -> Seq(Nat)] /\ pipeline \in Seq(Hosts \X Nat)
        /\ hasWork \subseteq Hosts /\ queue[h] \in Seq(Nat)
    BY <1>0, <2>3 DEF PathTypeOK
  <2>6. Consecutive(queue[h], Released(h)) /\ Released(h) \in Nat
    BY <1>0, <2>3, Numbers DEF InOrder
  <2>7. /\ Head(queue[h]) = Released(h) /\ Tail(queue[h]) \in Seq(Nat)
        /\ Len(Tail(queue[h])) = Len(queue[h]) - 1
        /\ Consecutive(Tail(queue[h]), Released(h) + 1)
    BY <2>4, <2>5, <2>6, ConsecutiveTail
  <2>8. /\ queue' \in [Hosts -> Seq(Nat)] /\ queue'[h] = Tail(queue[h])
        /\ \A g \in Hosts \ {h} : queue'[g] = queue[g]
    BY <2>1, <2>3, <2>5, <2>7
  <2>9. active' \in Seq(Hosts) /\ Round(active', hasWork' \ xoff')
    <3>1. CASE last
      <4>1. hasWork' \ xoff' = (hasWork \ xoff) \ {h}
        BY <1>1, <2>1, <3>1
      <4> QED
        BY <2>1, <2>3, <3>1, <4>1
    <3>2. CASE ~last
      <4>1. hasWork' \ xoff' = ((hasWork \ xoff) \ {h}) \cup {h}
        BY <1>1, <2>1, <2>3, <3>2
      <4>2. h \notin (hasWork \ xoff) \ {h}
        OBVIOUS
      <4>3. /\ Append(Tail(active), h) \in Seq(Hosts)
            /\ Round(Append(Tail(active), h), ((hasWork \ xoff) \ {h}) \cup {h})
        BY <2>3, <4>2, RoundAppend
      <4> QED
        BY <2>1, <3>2, <4>1, <4>3
    <3> QED
      BY <3>1, <3>2
  <2>10. hasWork' = {g \in Hosts : queue'[g] # <<>>}
    BY <2>1, <2>3, <2>4, <2>8
  <2>11. NoLostWakeup'
    BY <2>1, <2>9, <2>10 DEF NoLostWakeup, Round
  <2>12. pipeline' \in Seq(Hosts \X Nat)
    BY <2>1, <2>3, <2>5, <2>6, <2>7
  <2>13. running' \in BOOLEAN
    BY <2>1
  <2>14. PathTypeOK'
    BY <1>0, <1>1, <2>8, <2>9, <2>10, <2>12, <2>13 DEF PathTypeOK
  <2>15. InOrder'
    <3> SUFFICES ASSUME NEW g \in Hosts
                 PROVE  /\ Consecutive(written[g], 0)' /\ Consecutive(txQueue[g], Len(written[g]))'
                        /\ Consecutive(rxBuffer[g], Len(written[g]) + Len(txQueue[g]))'
                        /\ Carries(pipeline, g, Taken(g), Released(g))'
                        /\ Consecutive(queue[g], Released(g))'
      BY DEF InOrder
    <3>1. /\ Consecutive(written[g], 0) /\ Consecutive(txQueue[g], Len(written[g]))
          /\ Consecutive(rxBuffer[g], Len(written[g]) + Len(txQueue[g]))
          /\ Carries(pipeline, g, Taken(g), Released(g))
          /\ Consecutive(queue[g], Released(g))
      BY <1>0 DEF InOrder
    <3>2. Taken(g)' = Taken(g)
      BY <1>1 DEF Taken
    <3>3. Released(g)' = IF g = h THEN Released(g) + 1 ELSE Released(g)
      <4>1. CASE g = h
        <5>1. sent[h] \in Nat /\ Len(queue[h]) \in Nat
          BY <2>3, Numbers
        <5>2. sent[h] - (Len(queue[h]) - 1) = (sent[h] - Len(queue[h])) + 1
          BY <5>1
        <5>3. Len(queue'[h]) = Len(queue[h]) - 1
          BY <2>7, <2>8
        <5> QED
          BY <1>1, <4>1, <5>2, <5>3 DEF Released
      <4>2. CASE g # h
        BY <1>1, <2>8, <4>2 DEF Released
      <4> QED
        BY <4>1, <4>2
    <3>4. Consecutive(queue'[g], Released(g)')
      <4>1. CASE g = h
        BY <2>7, <2>8, <3>3, <4>1
      <4>2. CASE g # h
        BY <2>8, <3>1, <3>3, <4>2
      <4> QED
        BY <4>1, <4>2
    <3>5. Carries(pipeline', g, Taken(g), Released(g)')
      <4>1. Taken(g) \in Nat /\ Released(g) \in Nat
        BY Numbers
      <4>2. pipeline' = Append(pipeline, <<h, Released(h)>>)
        BY <2>1, <2>7
      <4> QED
        BY ZenonT(60), <2>3, <2>5, <2>6, <3>1, <3>3, <4>1, <4>2, CarriesAppend
    <3> QED
      BY <1>1, <3>1, <3>2, <3>4, <3>5 DEF Consecutive, Carries, At
  <2> QED
    BY <1>2, <2>11, <2>14, <2>15 DEF PathIInv
<1> QED
  BY <1>3, <1>4

\* What a step of one host's RX buffer and write queue has to show: nothing of
\* the other hosts changes, and h's own part stays sound.
LEMMA MemoryStep ==
  ASSUME PathAssumption, PathIInv, NEW h \in Hosts, sent' = sent, queue' = queue,
         hasWork' = hasWork, RoundIsSound', pipeline' \in Seq(Hosts \X Nat),
         rxBuffer' \in [Hosts -> Seq(Nat)], txQueue' \in [Hosts -> Seq(Nat)],
         written' \in [Hosts -> Seq(Nat)], busy' \subseteq Hosts, xoff' \subseteq Hosts,
         \A g \in Hosts \ {h} : /\ rxBuffer'[g] = rxBuffer[g] /\ txQueue'[g] = txQueue[g]
                                /\ written'[g] = written[g]
                                /\ (g \in busy' <=> g \in busy) /\ (g \in xoff' <=> g \in xoff),
         Len(txQueue'[h]) <= QueueSize,
         Consecutive(written'[h], 0), Consecutive(txQueue'[h], Len(written'[h])),
         Consecutive(rxBuffer'[h], Len(written'[h]) + Len(txQueue'[h])),
         h \in xoff' <=> Len(rxBuffer'[h]) >= BufferSize,
         rxBuffer'[h] # <<>> => Len(txQueue'[h]) = QueueSize /\ h \in busy',
         h \notin busy' => txQueue'[h] = <<>>,
         \A g \in Hosts : Carries(pipeline', g, Taken(g)', Released(g))
  PROVE  PathIInv'
<1>0. PathTypeOK /\ NoLostWakeup /\ XoffHasRelease /\ InOrder
  BY DEF PathIInv
<1>1. PathTypeOK'
  <2>1. \A g \in Hosts : Len(txQueue'[g]) <= QueueSize
    BY <1>0 DEF PathTypeOK
  <2> QED
    BY <1>0, <2>1 DEF PathTypeOK, RoundIsSound
<1>2. NoLostWakeup'
  <2>1. hasWork = {g \in Hosts : queue[g] # <<>>}
    BY <1>0 DEF NoLostWakeup
  <2> QED
    BY <2>1 DEF NoLostWakeup, RoundIsSound, Round
<1>3. XoffHasRelease'
  <2> SUFFICES ASSUME NEW g \in Hosts
               PROVE  /\ g \in xoff' <=> Len(rxBuffer'[g]) >= BufferSize
                      /\ rxBuffer'[g] # <<>> => Len(txQueue'[g]) = QueueSize /\ g \in busy'
                      /\ g \notin busy' => txQueue'[g] = <<>>
    BY DEF XoffHasRelease
  <2>1. CASE g # h
    BY <1>0, <2>1 DEF XoffHasRelease
  <2> QED
    BY <2>1
<1>4. InOrder'
  <2> SUFFICES ASSUME NEW g \in Hosts
               PROVE  /\ Consecutive(written'[g], 0) /\ Consecutive(txQueue'[g], Len(written'[g]))
                      /\ Consecutive(rxBuffer'[g], Len(written'[g]) + Len(txQueue'[g]))
                      /\ Carries(pipeline', g, Taken(g)', Released(g)')
                      /\ Consecutive(queue'[g], Released(g)')
    BY DEF InOrder, Consecutive, Carries, At
  <2>1. Released(g)' = Released(g)
    BY DEF Released
  <2>2. Consecutive(queue[g], Released(g))
    BY <1>0 DEF InOrder
  <2>3. CASE g # h
    BY <1>0, <2>1, <2>2, <2>3 DEF InOrder
  <2>4. CASE g = h
    BY <2>1, <2>2, <2>4
  <2> QED
    BY <2>3, <2>4
<1> QED
  BY <1>1, <1>2, <1>3, <1>4 DEF PathIInv

\* A packet leaves the pipeline for the RX buffer of its host.
LEMMA PushStep ==
  ASSUME PathAssumption, PathIInv, NEW h \in Hosts, NEW p \in Nat, Push(h, p), sent' = sent,
         pipeline' \in Seq(Hosts \X Nat), p = Taken(h),
         Carries(pipeline', h, Taken(h) + 1, Released(h)),
         \A g \in Hosts \ {h} : Carries(pipeline', g, Taken(g), Released(g))
  PROVE  PathIInv'
<1>0. PathTypeOK /\ NoLostWakeup /\ XoffHasRelease /\ InOrder
  BY DEF PathIInv
<1>1. Push(h, p) /\ sent' = sent
  OBVIOUS
<1>2. h \in Hosts /\ p \in Nat /\ pipeline' \in Seq(Hosts \X Nat)
  OBVIOUS
<1>4. p = Taken(h) /\ Carries(pipeline', h, Taken(h) + 1, Released(h))
  OBVIOUS
<1>5. \A g \in Hosts \ {h} : Carries(pipeline', g, Taken(g), Released(g))
  OBVIOUS
<1>6. /\ rxBuffer \in [Hosts -> Seq(Nat)] /\ txQueue \in [Hosts -> Seq(Nat)]
      /\ written \in [Hosts -> Seq(Nat)] /\ busy \subseteq Hosts /\ xoff \subseteq Hosts
      /\ Len(txQueue[h]) <= QueueSize
      /\ rxBuffer[h] \in Seq(Nat) /\ txQueue[h] \in Seq(Nat) /\ written[h] \in Seq(Nat)
  BY <1>0, <1>2 DEF PathTypeOK
<1>7. /\ Consecutive(written[h], 0) /\ Consecutive(txQueue[h], Len(written[h]))
      /\ Consecutive(rxBuffer[h], Len(written[h]) + Len(txQueue[h]))
  BY <1>0, <1>2 DEF InOrder
<1>8. /\ h \in xoff <=> Len(rxBuffer[h]) >= BufferSize
      /\ rxBuffer[h] # <<>> => Len(txQueue[h]) = QueueSize /\ h \in busy
      /\ h \notin busy => txQueue[h] = <<>>
  BY <1>0, <1>2 DEF XoffHasRelease
<1>9. /\ Len(written[h]) \in Nat /\ Len(txQueue[h]) \in Nat /\ Len(rxBuffer[h]) \in Nat
      /\ Taken(h) = Len(written[h]) + Len(txQueue[h]) + Len(rxBuffer[h])
      /\ QueueSize \in Nat \ {0} /\ BufferSize \in Nat \ {0}
  BY <1>2, Numbers DEF PathAssumption
<1>10. RoundIsSound
  BY <1>0, RoundOfInvariant
<1>11. CASE CanWriteToMemory(h)
  <2>1. /\ WriteToMemory(h, txQueue[h], h \notin busy, <<p>>) /\ rxBuffer' = rxBuffer
        /\ queue' = queue /\ hasWork' = hasWork /\ xoff' = xoff /\ active' = active
        /\ running' = running
    BY <1>1, <1>11 DEF Push, schedulerVars
  <2>2. Len(txQueue[h]) # QueueSize
    BY <1>11 DEF CanWriteToMemory
  <2>3. rxBuffer[h] = <<>> /\ Len(rxBuffer[h]) = 0
    BY <1>8, <2>2
  <2>4. p = Len(written[h]) + Len(txQueue[h]) /\ p \in Nat
    BY <1>2, <1>4, <1>6, <1>9, <2>3
  <2>5. <<p>> \in Seq(Nat) /\ Len(<<p>>) = 1
    BY <2>4, ConsecutiveSingle
  <2>6. Consecutive(<<p>>, Len(written[h]) + Len(txQueue[h]))
    BY <2>4, ConsecutiveSingle
  <2> DEFINE W == Len(written[h])
             T == Len(txQueue[h])
  <2>7. /\ txQueue' \in [Hosts -> Seq(Nat)] /\ written' \in [Hosts -> Seq(Nat)]
        /\ busy' \subseteq Hosts
        /\ \A g \in Hosts \ {h} : /\ txQueue'[g] = txQueue[g] /\ written'[g] = written[g]
                                  /\ g \in busy' <=> g \in busy
        /\ Consecutive(written'[h], 0) /\ Consecutive(txQueue'[h], Len(written'[h]))
        /\ Len(written'[h]) + Len(txQueue'[h]) = W + T + Len(<<p>>)
        /\ Len(txQueue'[h]) <= T + 1 /\ h \in busy'
    <3>1. CASE h \notin busy
      <4>1. WriteToMemory(h, txQueue[h], TRUE, <<p>>)
        BY <2>1, <3>1 DEF WriteToMemory
      <4>2. /\ txQueue' \in [Hosts -> Seq(Nat)] /\ written' \in [Hosts -> Seq(Nat)]
            /\ busy' \subseteq Hosts
            /\ \A g \in Hosts \ {h} : /\ txQueue'[g] = txQueue[g] /\ written'[g] = written[g]
                                      /\ g \in busy' <=> g \in busy
            /\ Consecutive(written'[h], 0) /\ Consecutive(txQueue'[h], Len(written'[h]))
            /\ Len(written'[h]) + Len(txQueue'[h]) = W + T + Len(<<p>>)
            /\ Len(txQueue'[h]) = IF T + Len(<<p>>) > 0 THEN T + Len(<<p>>) - 1 ELSE 0
            /\ h \in busy' <=> T + Len(<<p>>) > 0
        BY <1>0, <1>6, <1>7, <2>5, <2>6, <4>1, WriteToIdle
      <4>3. T + Len(<<p>>) > 0 /\ T + Len(<<p>>) - 1 <= T + 1
        BY <1>9, <2>5
      <4> QED
        BY <4>2, <4>3
    <3>2. CASE h \in busy
      <4>1. WriteToMemory(h, txQueue[h], FALSE, <<p>>)
        BY <2>1, <3>2 DEF WriteToMemory
      <4>2. /\ txQueue' \in [Hosts -> Seq(Nat)] /\ written' \in [Hosts -> Seq(Nat)]
            /\ busy' \subseteq Hosts
            /\ \A g \in Hosts \ {h} : /\ txQueue'[g] = txQueue[g] /\ written'[g] = written[g]
                                      /\ g \in busy' <=> g \in busy
            /\ Consecutive(written'[h], 0) /\ Consecutive(txQueue'[h], Len(written'[h]))
            /\ Len(written'[h]) + Len(txQueue'[h]) = W + T + Len(<<p>>)
            /\ Len(txQueue'[h]) = T + Len(<<p>>) /\ h \in busy'
        BY <1>0, <1>6, <1>7, <2>5, <2>6, <3>2, <4>1, WriteToBusy
      <4>3. T + Len(<<p>>) <= T + 1
        BY <1>6, <1>9, <2>5
      <4> QED
        BY <4>2, <4>3
    <3> QED
      BY <3>1, <3>2
  <2>8. Len(txQueue'[h]) \in Nat
    BY <1>2, <2>7
  <2>9. Len(txQueue'[h]) <= QueueSize
    BY <1>6, <1>9, <2>2, <2>7, <2>8
  <2>10. h \in busy'
    BY <2>7
  <2>11. Consecutive(rxBuffer'[h], Len(written'[h]) + Len(txQueue'[h]))
    BY <2>1, <2>3 DEF Consecutive
  <2>12. Len(rxBuffer'[h]) = 0 /\ rxBuffer'[h] = <<>>
    BY <2>1, <2>3
  <2>13. Taken(h)' = Taken(h) + 1
    <3>1. Len(written'[h]) + Len(txQueue'[h]) + Len(rxBuffer'[h]) = W + T + 1
      BY <1>6, <1>9, <2>1, <2>5, <2>7, <2>12
    <3>2. Taken(h) = W + T
      BY <1>6, <1>9, <2>3
    <3> QED
      BY <3>1, <3>2 DEF Taken
  <2>14. \A g \in Hosts \ {h} : Taken(g)' = Taken(g)
    BY <2>1, <2>7 DEF Taken
  <2>15. \A g \in Hosts : Carries(pipeline', g, Taken(g)', Released(g))
    <3> SUFFICES ASSUME NEW g \in Hosts PROVE Carries(pipeline', g, Taken(g)', Released(g))
      OBVIOUS
    <3>1. CASE g = h
      BY <1>4, <2>13, <3>1
    <3>2. CASE g # h
      BY <1>5, <2>14, <3>2
    <3> QED
      BY <3>1, <3>2
  <2>16. RoundIsSound'
    BY <1>10, <2>1 DEF RoundIsSound, Round
  <2>17. h \in xoff' <=> Len(rxBuffer'[h]) >= BufferSize
    BY <1>8, <2>1
  <2>18. /\ rxBuffer'[h] # <<>> => Len(txQueue'[h]) = QueueSize /\ h \in busy'
         /\ h \notin busy' => txQueue'[h] = <<>>
    BY <2>10, <2>12
  <2>19. \A g \in Hosts \ {h} : /\ rxBuffer'[g] = rxBuffer[g] /\ txQueue'[g] = txQueue[g]
                                /\ written'[g] = written[g]
                                /\ (g \in busy' <=> g \in busy) /\ (g \in xoff' <=> g \in xoff)
    BY <2>1, <2>7
  <2> QED
    BY <1>1, <1>2, <1>6, <2>1, <2>7, <2>9, <2>11, <2>15, <2>16, <2>17, <2>18, <2>19, MemoryStep
<1>12. CASE ~CanWriteToMemory(h)
  <2>1. /\ rxBuffer' = [rxBuffer EXCEPT ![h] = Append(rxBuffer[h], p)]
        /\ IF Len(rxBuffer'[h]) >= BufferSize THEN XoffHost(h) ELSE UNCHANGED schedulerVars
        /\ txQueue' = txQueue /\ busy' = busy /\ written' = written
    BY <1>1, <1>12 DEF Push, memoryVars
  <2>2. Len(txQueue[h]) = QueueSize
    BY <1>12 DEF CanWriteToMemory
  <2>3. h \in busy
    BY <1>8, <1>9, <2>2
  <2>4. /\ Append(rxBuffer[h], p) \in Seq(Nat)
        /\ Len(Append(rxBuffer[h], p)) = Len(rxBuffer[h]) + 1
        /\ Consecutive(Append(rxBuffer[h], p), Len(written[h]) + Len(txQueue[h]))
    <3>1. Len(written[h]) + Len(txQueue[h]) \in Nat
      BY <1>9, SumAndDifference
    <3>2. p = (Len(written[h]) + Len(txQueue[h])) + Len(rxBuffer[h])
      BY <1>4, <1>9
    <3> QED
      BY <1>6, <1>7, <3>1, <3>2, ConsecutiveAppend
  <2>5. /\ rxBuffer' \in [Hosts -> Seq(Nat)] /\ rxBuffer'[h] = Append(rxBuffer[h], p)
        /\ \A g \in Hosts \ {h} : rxBuffer'[g] = rxBuffer[g]
    BY <1>2, <1>6, <2>1, <2>4
  <2>6. Len(rxBuffer'[h]) = Len(rxBuffer[h]) + 1
    BY <2>4, <2>5
  <2>7. /\ RoundIsSound' /\ queue' = queue /\ hasWork' = hasWork /\ xoff' \subseteq Hosts
        /\ \A g \in Hosts \ {h} : g \in xoff' <=> g \in xoff
        /\ h \in xoff' <=> Len(rxBuffer'[h]) >= BufferSize
    <3>1. CASE Len(rxBuffer'[h]) >= BufferSize
      <4>1. XoffHost(h)
        BY <2>1, <3>1
      <4>2. RoundIsSound' /\ xoff' = xoff \cup {h} /\ queue' = queue /\ hasWork' = hasWork
        BY <1>2, <1>10, <4>1, XoffStep
      <4> QED
        BY <1>2, <1>6, <3>1, <4>2
    <3>2. CASE ~(Len(rxBuffer'[h]) >= BufferSize)
      <4>1. /\ queue' = queue /\ hasWork' = hasWork /\ xoff' = xoff /\ active' = active
            /\ running' = running
        BY <2>1, <3>2 DEF schedulerVars
      <4>2. RoundIsSound'
        BY <1>10, <4>1 DEF RoundIsSound, Round
      <4>3. h \notin xoff
        BY <1>8, <1>9, <2>6, <3>2
      <4> QED
        BY <1>6, <3>2, <4>1, <4>2, <4>3
    <3> QED
      BY <3>1, <3>2
  <2>8. Taken(h)' = Taken(h) + 1
    <3>1. Len(written[h]) + Len(txQueue[h]) + (Len(rxBuffer[h]) + 1)
            = (Len(written[h]) + Len(txQueue[h]) + Len(rxBuffer[h])) + 1
      BY <1>6, <1>9
    <3> QED
      BY <2>1, <2>6, <3>1 DEF Taken
  <2>9. \A g \in Hosts \ {h} : Taken(g)' = Taken(g)
    BY <2>1, <2>5 DEF Taken
  <2>10. \A g \in Hosts : Carries(pipeline', g, Taken(g)', Released(g))
    <3> SUFFICES ASSUME NEW g \in Hosts PROVE Carries(pipeline', g, Taken(g)', Released(g))
      OBVIOUS
    <3>1. CASE g = h
      BY <1>4, <2>8, <3>1
    <3>2. CASE g # h
      BY <1>5, <2>9, <3>2
    <3> QED
      BY <3>1, <3>2
  <2>11. Consecutive(rxBuffer'[h], Len(written'[h]) + Len(txQueue'[h]))
    BY <2>1, <2>4, <2>5
  <2>12. /\ rxBuffer'[h] # <<>> => Len(txQueue'[h]) = QueueSize /\ h \in busy'
         /\ h \notin busy' => txQueue'[h] = <<>>
    BY <2>1, <2>2, <2>3
  <2>13. /\ Consecutive(written'[h], 0) /\ Consecutive(txQueue'[h], Len(written'[h]))
         /\ txQueue' \in [Hosts -> Seq(Nat)] /\ written' \in [Hosts -> Seq(Nat)]
         /\ busy' \subseteq Hosts /\ Len(txQueue'[h]) <= QueueSize
    BY <1>6, <1>7, <2>1
  <2>14. \A g \in Hosts \ {h} : /\ rxBuffer'[g] = rxBuffer[g] /\ txQueue'[g] = txQueue[g]
                                /\ written'[g] = written[g]
                                /\ (g \in busy' <=> g \in busy) /\ (g \in xoff' <=> g \in xoff)
    BY <2>1, <2>5, <2>7
  <2> QED
    BY <1>1, <1>2, <2>5, <2>7, <2>10, <2>11, <2>12, <2>13, <2>14, MemoryStep
<1> QED
  BY <1>11, <1>12

LEMMA PipelineDequeueStep ==
  ASSUME PathAssumption, PathIInv, PipelineDequeue
  PROVE  PathIInv'
<1>1. /\ pipeline # <<>> /\ pipeline' = Tail(pipeline) /\ sent' = sent
      /\ Push(Head(pipeline)[1], Head(pipeline)[2])
  BY DEF PipelineDequeue
<1>2. pipeline \in Seq(Hosts \X Nat) /\ pipeline' \in Seq(Hosts \X Nat)
  BY <1>1 DEF PathIInv, PathTypeOK
<1>3. Head(pipeline) \in Hosts \X Nat
  BY <1>1, <1>2
<1>4. PICK h \in Hosts, p \in Nat : Head(pipeline)[1] = h /\ Head(pipeline)[2] = p
  BY <1>3
<1>5. \A g \in Hosts : /\ Taken(g) \in Nat /\ Released(g) \in Nat
                       /\ Carries(pipeline, g, Taken(g), Released(g))
  BY Numbers DEF PathIInv, InOrder
<1>6. p = Taken(h) /\ Carries(Tail(pipeline), h, Taken(h) + 1, Released(h))
  <2>1. /\ Taken(h) \in Nat /\ Released(h) \in Nat
        /\ Carries(pipeline, h, Taken(h), Released(h))
    BY <1>5
  <2> QED
    BY <1>1, <1>2, <1>4, <2>1, CarriesTail
<1>7. ASSUME NEW g \in Hosts \ {h} PROVE Carries(Tail(pipeline), g, Taken(g), Released(g))
  <2>1. /\ g \in Hosts /\ Taken(g) \in Nat /\ Released(g) \in Nat
        /\ Carries(pipeline, g, Taken(g), Released(g))
    BY <1>5
  <2> QED
    BY <1>1, <1>2, <1>4, <2>1, CarriesTail
<1>8. Push(h, p)
  BY <1>1, <1>4
<1> QED
  BY <1>1, <1>2, <1>6, <1>7, <1>8, PushStep

\* A completion with n packets moved from the RX buffer: the n packets s go to
\* the write queue, the others, rest, stay because the queue is full again.
LEMMA CompletionStep ==
  ASSUME PathAssumption, PathIInv, NEW h \in Hosts, NEW s \in Seq(Nat), NEW rest \in Seq(Nat),
         NEW n \in Nat, Len(s) = n, Len(rest) = Len(rxBuffer[h]) - n,
         WriteToMemory(h, txQueue[h], TRUE, s),
         rxBuffer' = [rxBuffer EXCEPT ![h] = rest],
         Consecutive(s, Len(written[h]) + Len(txQueue[h])),
         Consecutive(rest, Len(written[h]) + Len(txQueue[h]) + n),
         Len(txQueue[h]) + n <= QueueSize + 1,
         rest # <<>> => Len(txQueue[h]) + n = QueueSize + 1,
         sent' = sent, pipeline' = pipeline, queue' = queue, hasWork' = hasWork,
         RoundIsSound', xoff' \subseteq Hosts,
         \A g \in Hosts \ {h} : g \in xoff' <=> g \in xoff,
         h \in xoff' <=> Len(rest) >= BufferSize
  PROVE  PathIInv'
<1>0. PathTypeOK /\ NoLostWakeup /\ XoffHasRelease /\ InOrder
  BY DEF PathIInv
<1> DEFINE W == Len(written[h])
           T == Len(txQueue[h])
           R == Len(rxBuffer[h])
<1>1. /\ rxBuffer \in [Hosts -> Seq(Nat)] /\ txQueue \in [Hosts -> Seq(Nat)]
      /\ written \in [Hosts -> Seq(Nat)] /\ txQueue[h] \in Seq(Nat)
      /\ pipeline \in Seq(Hosts \X Nat)
      /\ W \in Nat /\ T \in Nat /\ R \in Nat /\ QueueSize \in Nat \ {0}
  BY <1>0, Numbers DEF PathTypeOK, PathAssumption
<1>2. Consecutive(written[h], 0) /\ Consecutive(txQueue[h], W)
  BY <1>0 DEF InOrder
<1>3. /\ txQueue' \in [Hosts -> Seq(Nat)] /\ written' \in [Hosts -> Seq(Nat)]
      /\ busy' \subseteq Hosts
      /\ \A g \in Hosts \ {h} : /\ txQueue'[g] = txQueue[g] /\ written'[g] = written[g]
                                /\ g \in busy' <=> g \in busy
      /\ Consecutive(written'[h], 0) /\ Consecutive(txQueue'[h], Len(written'[h]))
      /\ Len(written'[h]) + Len(txQueue'[h]) = W + T + n
      /\ Len(txQueue'[h]) = IF T + n > 0 THEN T + n - 1 ELSE 0
      /\ h \in busy' <=> T + n > 0
  BY ZenonT(60), <1>0, <1>1, <1>2, WriteToIdle
<1>4. /\ rxBuffer' \in [Hosts -> Seq(Nat)] /\ rxBuffer'[h] = rest
      /\ \A g \in Hosts \ {h} : rxBuffer'[g] = rxBuffer[g]
  BY <1>1
<1>5. T + n \in Nat
  BY <1>1
<1>6. Len(txQueue'[h]) <= QueueSize
  BY <1>1, <1>3, <1>5
<1>7. Consecutive(rxBuffer'[h], Len(written'[h]) + Len(txQueue'[h]))
  BY <1>3, <1>4
<1>8. rxBuffer'[h] # <<>> => Len(txQueue'[h]) = QueueSize /\ h \in busy'
  <2> SUFFICES ASSUME rest # <<>> PROVE Len(txQueue'[h]) = QueueSize /\ h \in busy'
    BY <1>4
  <2>1. T + n = QueueSize + 1
    OBVIOUS
  <2>2. T + n > 0 /\ T + n - 1 = QueueSize
    BY <1>1, <2>1
  <2> QED
    BY <1>3, <2>2
<1>9. h \notin busy' => txQueue'[h] = <<>>
  <2>1. txQueue'[h] \in Seq(Nat)
    BY <1>3
  <2>2. h \notin busy' => Len(txQueue'[h]) = 0
    BY <1>3
  <2> QED
    BY <2>1, <2>2, EmptySeq
<1>10. Taken(h)' = Taken(h)
  <2>1. (W + T + n) + (R - n) = W + T + R
    BY <1>1
  <2>2. Len(rxBuffer'[h]) = R - n
    BY <1>4
  <2> QED
    BY <1>3, <2>1, <2>2 DEF Taken
<1>11. \A g \in Hosts \ {h} : Taken(g)' = Taken(g)
  BY <1>3, <1>4 DEF Taken
<1>12. \A g \in Hosts : Carries(pipeline', g, Taken(g)', Released(g))
  <2> SUFFICES ASSUME NEW g \in Hosts PROVE Carries(pipeline', g, Taken(g)', Released(g))
    OBVIOUS
  <2>1. Taken(g)' = Taken(g)
    BY <1>10, <1>11
  <2>2. Carries(pipeline, g, Taken(g), Released(g))
    BY <1>0 DEF InOrder
  <2> QED
    BY <2>1, <2>2
<1>13. \A g \in Hosts \ {h} : /\ rxBuffer'[g] = rxBuffer[g] /\ txQueue'[g] = txQueue[g]
                              /\ written'[g] = written[g]
                              /\ (g \in busy' <=> g \in busy) /\ (g \in xoff' <=> g \in xoff)
  BY <1>3, <1>4
<1>14. h \in xoff' <=> Len(rxBuffer'[h]) >= BufferSize
  BY <1>4
<1>15. pipeline' \in Seq(Hosts \X Nat)
  BY <1>1
<1> QED
  BY <1>3, <1>4, <1>6, <1>7, <1>8, <1>9, <1>12, <1>13, <1>14, <1>15, MemoryStep

LEMMA TransmitCompleteStep ==
  ASSUME PathAssumption, PathIInv, NEW h \in Hosts, TransmitComplete(h)
  PROVE  PathIInv'
<1>0. PathTypeOK /\ NoLostWakeup /\ XoffHasRelease /\ InOrder
  BY DEF PathIInv
<1> DEFINE T == Len(txQueue[h])
           R == Len(rxBuffer[h])
<1>1. h \in busy /\ sent' = sent /\ pipeline' = pipeline
  BY DEF TransmitComplete
<1>2. /\ rxBuffer \in [Hosts -> Seq(Nat)] /\ txQueue \in [Hosts -> Seq(Nat)]
      /\ txQueue[h] \in Seq(Nat) /\ rxBuffer[h] \in Seq(Nat) /\ xoff \subseteq Hosts
      /\ T <= QueueSize
  BY <1>0 DEF PathTypeOK
<1>3. /\ T \in Nat /\ R \in Nat /\ Len(written[h]) \in Nat /\ Len(written[h]) + T \in Nat
      /\ QueueSize \in Nat \ {0} /\ BufferSize \in Nat \ {0}
  BY Numbers, SumAndDifference DEF PathAssumption
<1>4. Consecutive(rxBuffer[h], Len(written[h]) + T)
  BY <1>0 DEF InOrder
<1>5. /\ h \in xoff <=> R >= BufferSize
      /\ rxBuffer[h] # <<>> => T = QueueSize
  BY <1>0 DEF XoffHasRelease
<1>6. RoundIsSound
  BY <1>0, RoundOfInvariant
<1>7. CASE Wakeup(h, txQueue[h], TRUE)
  <2> DEFINE n == Moved(h, txQueue[h], TRUE)
  <2>1. n = IF R < (QueueSize - T) + 1 THEN R ELSE (QueueSize - T) + 1
    BY DEF Moved
  <2>2. /\ WriteToMemory(h, txQueue[h], TRUE, SubSeq(rxBuffer[h], 1, n))
        /\ rxBuffer' = [rxBuffer EXCEPT ![h] = SubSeq(rxBuffer[h], n + 1, Len(rxBuffer[h]))]
        /\ IF Len(rxBuffer'[h]) < BufferSize THEN XonHost(h) ELSE UNCHANGED schedulerVars
    BY <1>7 DEF Wakeup
  <2> HIDE DEF n
  <2>3. n \in 0..R /\ T + n <= QueueSize + 1 /\ (n # R => T + n = QueueSize + 1)
    BY <1>2, <1>3, <2>1
  <2>4. PICK k \in 0..R : k = n
    BY <2>3
  <2> DEFINE s == SubSeq(rxBuffer[h], 1, k)
             rest == SubSeq(rxBuffer[h], k + 1, Len(rxBuffer[h]))
  <2>5. /\ s \in Seq(Nat) /\ Len(s) = k /\ Consecutive(s, Len(written[h]) + T)
        /\ rest \in Seq(Nat) /\ Len(rest) = R - k
        /\ Consecutive(rest, Len(written[h]) + T + k)
    BY <1>2, <1>3, <1>4, ConsecutiveSplit
  <2>6. /\ WriteToMemory(h, txQueue[h], TRUE, s) /\ rxBuffer' = [rxBuffer EXCEPT ![h] = rest]
    BY <2>2, <2>4
  <2>7. Len(rxBuffer'[h]) = R - k
    BY <1>2, <2>5, <2>6
  <2>8. /\ RoundIsSound' /\ queue' = queue /\ hasWork' = hasWork /\ xoff' \subseteq Hosts
        /\ \A g \in Hosts \ {h} : g \in xoff' <=> g \in xoff
        /\ h \in xoff' <=> R - k >= BufferSize
    <3>1. CASE R - k < BufferSize
      <4>1. XonHost(h)
        BY <2>2, <2>7, <3>1
      <4>2. RoundIsSound' /\ xoff' = xoff \ {h} /\ queue' = queue /\ hasWork' = hasWork
        BY <1>6, <4>1, XonStep
      <4>3. ~(R - k >= BufferSize)
        BY <1>3, <3>1
      <4> QED
        BY <1>2, <4>2, <4>3
    <3>2. CASE ~(R - k < BufferSize)
      <4>1. /\ queue' = queue /\ hasWork' = hasWork /\ xoff' = xoff /\ active' = active
            /\ running' = running
        BY <2>2, <2>7, <3>2 DEF schedulerVars
      <4>2. RoundIsSound'
        BY <1>6, <4>1 DEF RoundIsSound, Round
      <4>3. R >= BufferSize /\ R - k >= BufferSize
        BY <1>3, <3>2
      <4> QED
        BY <1>2, <1>5, <4>1, <4>2, <4>3
    <3> QED
      BY <3>1, <3>2
  <2>9. T + k <= QueueSize + 1 /\ (rest # <<>> => T + k = QueueSize + 1)
    <3>1. rest # <<>> => k # R
      <4>1. rest # <<>> => Len(rest) # 0
        BY <2>5, EmptySeq
      <4> QED
        BY <1>3, <2>5, <4>1
    <3> QED
      BY <2>3, <2>4, <3>1
  <2>10. k \in Nat
    BY <1>3
  <2> HIDE DEF s, rest
  <2> QED
    BY <1>1, <2>5, <2>6, <2>8, <2>9, <2>10, CompletionStep
<1>8. CASE /\ WriteToMemory(h, txQueue[h], TRUE, <<>>) /\ T # QueueSize
           /\ rxBuffer' = rxBuffer /\ UNCHANGED schedulerVars
  <2>1. rxBuffer[h] = <<>> /\ R = 0
    BY <1>5, <1>8
  <2>2. /\ queue' = queue /\ hasWork' = hasWork /\ xoff' = xoff /\ active' = active
        /\ running' = running
    BY <1>8 DEF schedulerVars
  <2>3. RoundIsSound'
    BY <1>6, <2>2 DEF RoundIsSound, Round
  <2> DEFINE none == <<>>
  <2>4. none \in Seq(Nat) /\ Len(none) = 0 /\ none = rxBuffer[h]
    BY <2>1
  <2>5. \A m \in Nat : Consecutive(none, m)
    BY <2>4 DEF Consecutive
  <2>6. rxBuffer' = [rxBuffer EXCEPT ![h] = none]
    BY <1>2, <1>8, <2>4
  <2>7. WriteToMemory(h, txQueue[h], TRUE, none)
    BY <1>8
  <2>8. /\ Consecutive(none, Len(written[h]) + T) /\ Consecutive(none, Len(written[h]) + T + 0)
        /\ Len(none) = R - 0 /\ T + 0 <= QueueSize + 1
    <3>1. Len(written[h]) + T + 0 = Len(written[h]) + T
      BY <1>3, SumAndDifference
    <3>2. R - 0 = 0 /\ T + 0 <= QueueSize + 1
      BY <1>2, <1>3, <2>1
    <3> QED
      BY <1>3, <2>4, <2>5, <3>1, <3>2
  <2>9. h \in xoff' <=> Len(none) >= BufferSize
    BY <1>5, <2>2, <2>4
  <2>10. none # <<>> => T + 0 = QueueSize + 1
    OBVIOUS
  <2>11. /\ xoff' \subseteq Hosts /\ \A g \in Hosts \ {h} : g \in xoff' <=> g \in xoff
    BY <1>2, <2>2
  <2>12. PICK k \in Nat : k = 0
    OBVIOUS
  <2>13. /\ Consecutive(none, Len(written[h]) + T) /\ Consecutive(none, Len(written[h]) + T + k)
         /\ Len(none) = k /\ Len(none) = R - k /\ T + k <= QueueSize + 1
         /\ none # <<>> => T + k = QueueSize + 1
    BY <2>4, <2>8, <2>10, <2>12
  <2> HIDE DEF none
  <2> QED
    BY <1>1, <2>2, <2>3, <2>4, <2>6, <2>7, <2>9, <2>11, <2>13, CompletionStep
<1>9. Wakeup(h, txQueue[h], TRUE)
        \/ /\ WriteToMemory(h, txQueue[h], TRUE, <<>>) /\ T # QueueSize
           /\ rxBuffer' = rxBuffer /\ UNCHANGED schedulerVars
  <2>1. CASE txQueue[h] = <<>>
    <3>1. Wakeup(h, <<>>, TRUE)
      BY <2>1 DEF TransmitComplete
    <3> QED
      BY <2>1, <3>1
  <2>2. CASE txQueue[h] # <<>> /\ T = QueueSize
    BY <2>2 DEF TransmitComplete
  <2>3. CASE txQueue[h] # <<>> /\ T # QueueSize
    BY <2>3 DEF TransmitComplete
  <2> QED
    BY <2>1, <2>2, <2>3
<1> QED
  BY <1>7, <1>8, <1>9
-----------------------------------------------------------------------------
(* The theorems. *)

LEMMA InitSound ==
  ASSUME PathAssumption, PathInit
  PROVE  PathIInv
<1>1. /\ sent = [h \in Hosts |-> 0] /\ queue = [h \in Hosts |-> <<>>]
      /\ hasWork = {} /\ xoff = {} /\ active = <<>> /\ running = FALSE /\ pipeline = <<>>
      /\ rxBuffer = [h \in Hosts |-> <<>>] /\ txQueue = [h \in Hosts |-> <<>>] /\ busy = {}
      /\ written = [h \in Hosts |-> <<>>]
  BY DEF PathInit
<1>0. 0 \in 0..MaxPackets /\ 0 <= QueueSize /\ ~(0 >= BufferSize)
  BY DEF PathAssumption
<1>2. PathTypeOK
  <2>1. <<>> \in Seq(Nat) /\ <<>> \in Seq(Hosts) /\ <<>> \in Seq(Hosts \X Nat)
    OBVIOUS
  <2>2. /\ sent \in [Hosts -> 0..MaxPackets] /\ running \in BOOLEAN
        /\ hasWork \subseteq Hosts /\ xoff \subseteq Hosts /\ busy \subseteq Hosts
    BY <1>0, <1>1
  <2>3. /\ queue \in [Hosts -> Seq(Nat)] /\ rxBuffer \in [Hosts -> Seq(Nat)]
        /\ txQueue \in [Hosts -> Seq(Nat)] /\ written \in [Hosts -> Seq(Nat)]
        /\ active \in Seq(Hosts) /\ pipeline \in Seq(Hosts \X Nat)
    BY <1>1, <2>1
  <2>4. \A h \in Hosts : Len(txQueue[h]) <= QueueSize
    <3>1. \A h \in Hosts : Len(txQueue[h]) = 0
      BY <1>1
    <3> QED
      BY <1>0, <3>1
  <2> QED
    BY <2>2, <2>3, <2>4 DEF PathTypeOK
<1>3. NoLostWakeup
  BY <1>1 DEF NoLostWakeup
<1>4. XoffHasRelease
  <2>1. \A h \in Hosts : rxBuffer[h] = <<>> /\ txQueue[h] = <<>> /\ Len(rxBuffer[h]) = 0
    BY <1>1
  <2> QED
    BY <1>0, <1>1, <2>1 DEF XoffHasRelease
<1>5. InOrder
  <2> SUFFICES ASSUME NEW h \in Hosts
               PROVE  /\ Consecutive(written[h], 0) /\ Consecutive(txQueue[h], Len(written[h]))
                      /\ Consecutive(rxBuffer[h], Len(written[h]) + Len(txQueue[h]))
                      /\ Carries(pipeline, h, Taken(h), Released(h))
                      /\ Consecutive(queue[h], Released(h))
    BY DEF InOrder
  <2>1. /\ Len(written[h]) = 0 /\ Len(txQueue[h]) = 0 /\ Len(rxBuffer[h]) = 0
        /\ Len(queue[h]) = 0 /\ sent[h] = 0 /\ Len(pipeline) = 0
    BY <1>1
  <2>2. Taken(h) = 0 /\ Released(h) = 0
    BY <2>1 DEF Taken, Released
  <2>3. Carries(pipeline, h, 0, 0)
    BY <2>1 DEF Carries, At
  <2> QED
    BY <2>1, <2>2, <2>3 DEF Consecutive
<1> QED
  BY <1>2, <1>3, <1>4, <1>5 DEF PathIInv

LEMMA NextSound ==
  ASSUME PathAssumption, PathIInv, [PathNext]_pathVars
  PROVE  PathIInv'
<1>1. ASSUME NEW h \in Hosts, Enqueue(h) PROVE PathIInv'
  BY <1>1, EnqueueStep
<1>2. ASSUME NEW h \in Hosts, TransmitComplete(h) PROVE PathIInv'
  BY <1>2, TransmitCompleteStep
<1>3. CASE ScheduleWork
  BY <1>3, ScheduleWorkStep
<1>4. CASE PipelineDequeue
  BY <1>4, PipelineDequeueStep
<1>5. CASE UNCHANGED pathVars
  <2>1. /\ sent' = sent /\ queue' = queue /\ hasWork' = hasWork /\ xoff' = xoff
        /\ active' = active /\ running' = running /\ pipeline' = pipeline
        /\ rxBuffer' = rxBuffer /\ txQueue' = txQueue /\ busy' = busy /\ written' = written
    BY <1>5 DEF pathVars, schedulerVars, memoryVars
  <2>2. PathTypeOK' /\ NoLostWakeup'
    BY <2>1 DEF PathIInv, PathTypeOK, NoLostWakeup
  <2>3. XoffHasRelease'
    BY <2>1 DEF PathIInv, XoffHasRelease
  <2>4. InOrder'
    BY <2>1, NothingMoves DEF PathIInv
  <2> QED
    BY <2>2, <2>3, <2>4 DEF PathIInv
<1> QED
  BY <1>1, <1>2, <1>3, <1>4, <1>5 DEF PathNext

\* The inductive invariant of the receive path: the round, the pauses and the
\* order of the packets together.
THEOREM PathInvariance ==
  ASSUME PathAssumption
  PROVE  PathSpec => []PathIInv
<1>1. PathInit => PathIInv
  BY InitSound
<1>2. PathIInv /\ [PathNext]_pathVars => PathIInv'
  BY NextSound
<1> QED
  BY <1>1, <1>2, PTL DEF PathSpec

\* Enqueue, XOFF, XON and ScheduleWork never leave a host with packets out of
\* the round or the scheduler asleep, however many hosts share the NIC.
THEOREM NoHostLeftOut ==
  ASSUME PathAssumption
  PROVE  PathSpec => []NoLostWakeup
<1>1. PathIInv => NoLostWakeup
  BY DEF PathIInv
<1> QED
  BY <1>1, PathInvariance, PTL

\* A host is XOFFed only while its RX buffer is at its limit and a completion
\* of its PCIe link is to come, which wakes the buffer.
THEOREM PausesHaveRelease ==
  ASSUME PathAssumption
  PROVE  PathSpec => []XoffHasRelease
<1>1. PathIInv => XoffHasRelease
  BY DEF PathIInv
<1> QED
  BY <1>1, PathInvariance, PTL

\* The packets of a host reach it in the order Falcon sent them, none lost and
\* none twice, for any sizes of RX buffer and write queue: the direct path of
\* RdmaPerHostRxBuffers::Push never overtakes a buffered packet.
THEOREM PacketsStayInOrder ==
  ASSUME PathAssumption
  PROVE  PathSpec => []InOrder
<1>1. PathIInv => InOrder
  BY DEF PathIInv
<1> QED
  BY <1>1, PathInvariance, PTL
=============================================================================
