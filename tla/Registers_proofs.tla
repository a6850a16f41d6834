-------------------------- MODULE Registers_proofs --------------------------
(* Proofs about the registers of one connection: the PSNs of a transmit    *)
(* window (SerialNumbers), for every register width and window size, its   *)
(* request counters (RequestCounters), for every set of requests, and the  *)
(* ACK coalescing entry (AckCoalescing), for every value of its constants. *)
EXTENDS SerialNumbers, RequestCounters, AckCoalescing, FiniteSetTheorems,
        WellFoundedInduction, TLAPS

-----------------------------------------------------------------------------
(* SerialNumbers.                                                          *)

\* Division with remainder by the modulus.
LEMMA WrapFacts ==
  ASSUME NEW x \in Int
  PROVE  /\ Modulus \in Nat /\ Modulus > 0
         /\ Wrap(x) \in Int /\ 0 <= Wrap(x) /\ Wrap(x) < Modulus
         /\ x \div Modulus \in Int
         /\ x = (x \div Modulus) * Modulus + Wrap(x)
<1>1. Modulus \in Nat \ {0}
  BY HalfAssumption DEF Modulus
<1> HIDE DEF Modulus
<1> QED
  BY <1>1 DEF Wrap

\* The remainder is unique.
LEMMA WrapUnique ==
  ASSUME NEW x \in Int, NEW k \in Int, NEW r \in Int,
         0 <= r, r < Modulus, x = k * Modulus + r
  PROVE  Wrap(x) = r
<1> DEFINE M == Modulus
           q == x \div M
           w == Wrap(x)
<1>1. M \in Nat /\ M > 0 /\ w \in Int /\ 0 <= w /\ w < M /\ q \in Int /\ x = q * M + w
  BY WrapFacts
<1>2. x = k * M + r /\ 0 <= r /\ r < M
  OBVIOUS
<1> HIDE DEF M, q, w
<1>3. CASE q > k
  <2>1. q * M >= (k + 1) * M
    BY <1>1, <1>3
  <2>2. (k + 1) * M = k * M + M
    BY <1>1
  <2>3. q * M \in Int /\ k * M \in Int
    BY <1>1
  <2> QED
    BY <1>1, <1>2, <2>1, <2>2, <2>3
<1>4. CASE k > q
  <2>1. k * M >= (q + 1) * M
    BY <1>1, <1>4
  <2>2. (q + 1) * M = q * M + M
    BY <1>1
  <2>3. q * M \in Int /\ k * M \in Int
    BY <1>1
  <2> QED
    BY <1>1, <1>2, <2>1, <2>2, <2>3
<1>5. CASE q = k
  <2>1. k * M \in Int
    BY <1>1
  <2>2. w = r
    BY <1>1, <1>2, <1>5, <2>1
  <2> QED
    BY <2>2 DEF w
<1> QED
  BY <1>1, <1>3, <1>4, <1>5

LEMMA Distributes ==
  ASSUME NEW a \in Int, NEW b \in Int, NEW m \in Int
  PROVE  (a + b) * m = a * m + b * m /\ a * m \in Int /\ b * m \in Int
OBVIOUS

\* Numbers a multiple of the modulus apart wrap to the same.
LEMMA WrapCongruent ==
  ASSUME NEW x \in Int, NEW d \in Int, NEW k \in Int, x = k * Modulus + d
  PROVE  Wrap(x) = Wrap(d)
<1> DEFINE M == Modulus
           q == d \div M
           r == Wrap(d)
<1>1. /\ M \in Int /\ q \in Int /\ r \in Int /\ 0 <= r /\ r < M
      /\ d = q * M + r
  BY WrapFacts
<1>2. x = k * M + d
  OBVIOUS
<1> HIDE DEF M, q, r
<1>3. (k + q) * M = k * M + q * M /\ k * M \in Int /\ q * M \in Int
  BY <1>1, Distributes
<1>4. x = (k + q) * M + r /\ k + q \in Int
  BY <1>1, <1>2, <1>3
<1> QED
  BY <1>1, <1>4, WrapUnique DEF M, r

\* Reduction may be done early: a difference and a sum of reduced numbers.
LEMMA WrapDifference ==
  ASSUME NEW x \in Int, NEW y \in Int
  PROVE  /\ Wrap(Wrap(x) - Wrap(y)) = Wrap(x - y)
         /\ Wrap(Wrap(x) + y) = Wrap(x + y)
<1> DEFINE M == Modulus
           qx == x \div M
           qy == y \div M
           wx == Wrap(x)
           wy == Wrap(y)
<1>1. /\ M \in Int /\ wx \in Int /\ wy \in Int /\ qx \in Int /\ qy \in Int
      /\ x = qx * M + wx /\ y = qy * M + wy
  BY WrapFacts
<1> HIDE DEF M, qx, qy, wx, wy
<1>2. qx * M \in Int /\ qy * M \in Int /\ (-qy) * M = -(qy * M)
  BY <1>1
<1>3. (qx + (-qy)) * M = qx * M + (-qy) * M
  BY <1>1, Distributes
<1>4. x - y = (qx + (-qy)) * M + (wx - wy)
  BY <1>1, <1>2, <1>3
<1>5. x + y = qx * M + (wx + y)
  BY <1>1, <1>2
<1>6. Wrap(x - y) = Wrap(wx - wy)
  <2>1. x - y \in Int /\ wx - wy \in Int /\ qx + (-qy) \in Int
    BY <1>1
  <2> QED
    BY <2>1, <1>4, WrapCongruent DEF M
<1>7. Wrap(x + y) = Wrap(wx + y)
  <2>1. x + y \in Int /\ wx + y \in Int /\ qx \in Int
    BY <1>1
  <2> QED
    BY <2>1, <1>5, WrapCongruent DEF M
<1> QED
  BY <1>6, <1>7 DEF wx, wy

LEMMA WrapZero == Wrap(0) = 0
<1>1. Modulus \in Nat /\ Modulus > 0
  BY HalfAssumption DEF Modulus
<1>2. 0 = 0 * Modulus + 0
  BY <1>1
<1> QED
  BY <1>1, <1>2, WrapUnique

\* The cast to a signed number recovers every distance below half the space.
LEMMA SignedDistance ==
  ASSUME NEW d \in Int, d < Half, -d <= Half
  PROVE  Signed(Wrap(d)) = d
<1>0. Half \in Nat /\ Half > 0 /\ Modulus = 2 * Half
  BY HalfAssumption DEF Modulus
<1>1. CASE d >= 0
  <2>1. Wrap(d) = d
    <3>1. d = 0 * Modulus + d
      BY <1>0
    <3>2. 0 <= d /\ d < Modulus
      BY <1>0, <1>1
    <3> QED
      BY <3>1, <3>2, WrapUnique
  <2> QED
    BY <1>0, <1>1, <2>1 DEF Signed
<1>2. CASE d < 0
  <2>1. Wrap(d) = d + Modulus
    <3>1. d = (-1) * Modulus + (d + Modulus)
      BY <1>0
    <3>2. d + Modulus \in Int /\ 0 <= d + Modulus /\ d + Modulus < Modulus
      BY <1>0, <1>2
    <3> QED
      BY <3>1, <3>2, WrapUnique
  <2> QED
    BY <1>0, <1>2, <2>1 DEF Signed
<1> QED
  BY <1>1, <1>2

\* SeqLT and SeqGT compare wrapped sequence numbers as the numbers they stand
\* for, as long as these are less than half the number space apart.
THEOREM SeqComparesPsns ==
  ASSUME NEW x \in Int, NEW y \in Int, x - y < Half, y - x < Half
  PROVE  /\ SeqLT(Wrap(x), Wrap(y)) <=> x < y
         /\ SeqGT(Wrap(x), Wrap(y)) <=> x > y
<1>1. Half \in Nat
  BY HalfAssumption
<1>2. Wrap(Wrap(x) - Wrap(y)) = Wrap(x - y)
  BY WrapDifference
<1>3. x - y \in Int /\ -(x - y) <= Half
  BY <1>1
<1>4. Signed(Wrap(x - y)) = x - y
  BY <1>3, SignedDistance
<1> QED
  BY <1>2, <1>4 DEF SeqLT, SeqGT

----------------------------------------------------------------------------
(* The registers track the PSNs.                                           *)

PsnIInv == PsnTypeOK /\ RegistersTrackPsns

LEMMA InitPsnIInv == PsnInit => PsnIInv
<1> SUFFICES ASSUME PsnInit PROVE PsnIInv
  OBVIOUS
<1>1. Half \in Nat /\ Size \in Nat /\ LastPsn \in Nat /\ Modulus \in Nat /\ Modulus > 0
  BY HalfAssumption DEF Modulus
<1>2. Wrap(0) = 0
  BY WrapZero
<1>3. PsnTypeOK
  <2>1. 0 \in 0..(Modulus - 1) /\ 0 \in 0..LastPsn /\ 0 \in 0..0
    BY <1>1
  <2> QED
    BY <2>1 DEF PsnInit, PsnTypeOK
<1>4. RegistersTrackPsns
  BY <1>1, <1>2 DEF PsnInit, RegistersTrackPsns
<1> QED
  BY <1>3, <1>4 DEF PsnIInv

\* The index of a PSN near the base is its distance from the base.
LEMMA IndexIsDistance ==
  ASSUME PsnIInv, NEW p \in Int, p - trueBase <= Size, trueBase - p <= Lag
  PROVE  /\ Signed(Index(Wrap(p))) = p - trueBase
         /\ p >= trueBase => Index(Wrap(p)) = p - trueBase
         /\ SeqLT(Wrap(p), basePsn) <=> p < trueBase
         /\ SeqGT(Wrap(p), basePsn) <=> p > trueBase
<1>1. /\ Half \in Nat /\ Size \in Nat /\ Lag \in Nat /\ Size < Half /\ Lag < Half
      /\ Modulus = 2 * Half
      /\ trueBase \in Int /\ basePsn = Wrap(trueBase)
  BY HalfAssumption DEF PsnIInv, PsnTypeOK, RegistersTrackPsns, Modulus
<1>2. p - trueBase \in Int /\ p - trueBase < Half /\ trueBase - p < Half
      /\ -(p - trueBase) <= Half
  BY <1>1
<1>3. Index(Wrap(p)) = Wrap(p - trueBase)
  BY <1>1, WrapDifference DEF Index
<1>4. Signed(Wrap(p - trueBase)) = p - trueBase
  BY <1>2, SignedDistance
<1>5. ASSUME p >= trueBase PROVE Wrap(p - trueBase) = p - trueBase
  <2>1. p - trueBase = 0 * Modulus + (p - trueBase)
    BY <1>1, <1>2
  <2>2. 0 <= p - trueBase /\ p - trueBase < Modulus
    BY <1>1, <1>2, <1>5
  <2> QED
    BY <1>2, <2>1, <2>2, WrapUnique
<1>6. /\ SeqLT(Wrap(p), basePsn) <=> p < trueBase
      /\ SeqGT(Wrap(p), basePsn) <=> p > trueBase
  BY <1>1, <1>2, SeqComparesPsns
<1> QED
  BY <1>3, <1>4, <1>5, <1>6

\* A right shift by n moves every bit to its index above the new base.
LEMMA ShiftTracks ==
  ASSUME NEW b \in Int, NEW n \in Nat, NEW W \in SUBSET (0..(Size - 1)),
         NEW A, A = {b + i : i \in W}
  PROVE  /\ RightShift(W, n) \subseteq 0..(Size - 1)
         /\ {p \in A : p >= b + n} = {(b + n) + i : i \in RightShift(W, n)}
<1>1. Size \in Nat
  BY HalfAssumption
<1>2. ASSUME NEW j \in RightShift(W, n) PROVE j \in 0..(Size - 1)
  <2>1. PICK i \in W : i >= n /\ j = i - n
    BY DEF RightShift
  <2>2. i \in 0..(Size - 1)
    BY <2>1
  <2> QED
    BY <1>1, <2>1, <2>2
<1>3. ASSUME NEW p \in A, p >= b + n
      PROVE  p \in {(b + n) + i : i \in RightShift(W, n)}
  <2>1. PICK i \in W : p = b + i
    BY <1>3
  <2>2. i \in Int /\ i >= n
    BY <1>3, <2>1
  <2>3. (i - n) \in RightShift(W, n)
    BY <2>1, <2>2 DEF RightShift
  <2>4. p = (b + n) + (i - n)
    BY <2>1, <2>2
  <2> QED
    BY <2>3, <2>4
<1>4. ASSUME NEW j \in RightShift(W, n)
      PROVE  ((b + n) + j) \in A /\ (b + n) + j >= b + n
  <2>1. PICK i \in W : i >= n /\ j = i - n
    BY <1>4 DEF RightShift
  <2>2. i \in Int /\ (b + n) + j = b + i
    BY <2>1
  <2> QED
    BY <2>1, <2>2
<1> QED
  BY <1>2, <1>3, <1>4

LEMMA PsnNextStep == PsnIInv /\ [PsnNext]_psnVars => PsnIInv'
<1> SUFFICES ASSUME PsnIInv, [PsnNext]_psnVars PROVE PsnIInv'
  OBVIOUS
<1>1. /\ Half \in Nat /\ Size \in Nat /\ Lag \in Nat /\ LastPsn \in Nat
      /\ Size < Half /\ Lag < Half /\ Modulus \in Nat /\ Modulus > 0
  BY HalfAssumption DEF Modulus
<1>2. /\ trueBase \in Nat /\ trueNext \in Nat /\ trueBase <= trueNext
      /\ trueNext <= LastPsn /\ trueNext - trueBase <= Size
      /\ basePsn = Wrap(trueBase) /\ nextPsn = Wrap(trueNext)
      /\ window \in SUBSET (0..(Size - 1))
      /\ trueAcked = {trueBase + i : i \in window}
      /\ basePsn \in 0..(Modulus - 1) /\ nextPsn \in 0..(Modulus - 1)
  BY <1>1 DEF PsnIInv, PsnTypeOK, RegistersTrackPsns
<1>3. \A x \in Int : Wrap(x) \in 0..(Modulus - 1)
  BY <1>1, WrapFacts
<1>4. ASSUME NEW f \in 1..Size, TransmitPsn(f) PROVE PsnIInv'
  <2>1. Wrap(basePsn + f) = Wrap(trueBase + f)
    BY <1>1, <1>2, WrapDifference
  <2>2. trueNext < trueBase + f
    <3>1. /\ trueNext - (trueBase + f) < Half /\ (trueBase + f) - trueNext < Half
          /\ trueBase + f \in Int
      BY <1>1, <1>2
    <3>2. SeqLT(Wrap(trueNext), Wrap(trueBase + f))
      BY <1>2, <1>4, <2>1 DEF TransmitPsn
    <3> QED
      BY <1>2, <3>1, <3>2, SeqComparesPsns
  <2>3. Wrap(nextPsn + 1) = Wrap(trueNext + 1)
    BY <1>2, WrapDifference
  <2>4. PsnTypeOK'
    BY <1>1, <1>2, <1>3, <1>4 DEF TransmitPsn, PsnTypeOK, PsnIInv
  <2>5. RegistersTrackPsns'
    BY <1>1, <1>2, <1>4, <2>2, <2>3 DEF TransmitPsn, RegistersTrackPsns
  <2> QED
    BY <2>4, <2>5 DEF PsnIInv
<1>5. ASSUME NEW b \in 0..LastPsn, HandleACK(b) PROVE PsnIInv'
  <2>1. b \in Int /\ b - trueBase <= Size /\ trueBase - b <= Lag /\ b <= trueNext
    BY <1>1, <1>2, <1>5 DEF HandleACK
  <2>2. b > trueBase
    BY <1>5, <2>1, IndexIsDistance DEF HandleACK
  <2>3. Index(Wrap(b)) = b - trueBase
    BY <1>2, <2>1, <2>2, IndexIsDistance
  <2> DEFINE n == b - trueBase
  <2>4. n \in Nat /\ trueBase + n = b
    BY <1>2, <2>1, <2>2
  <2>5. /\ basePsn' = Wrap(b) /\ window' = RightShift(window, n)
        /\ trueBase' = b /\ trueAcked' = {p \in trueAcked : p >= b}
        /\ UNCHANGED <<nextPsn, crashed, trueNext>>
    BY <1>5, <2>2, <2>3 DEF HandleACK
  <2> HIDE DEF n
  <2>6. /\ window' \subseteq 0..(Size - 1)
        /\ trueAcked' = {b + i : i \in window'}
    <3>1. trueBase \in Int
      BY <1>2
    <3>2. /\ RightShift(window, n) \subseteq 0..(Size - 1)
          /\ {p \in trueAcked : p >= trueBase + n}
               = {(trueBase + n) + i : i \in RightShift(window, n)}
      BY ZenonT(60), <1>2, <2>4, <3>1, ShiftTracks
    <3> QED
      BY <2>4, <2>5, <3>2
  <2>7. PsnTypeOK'
    BY <1>2, <1>3, <2>1, <2>2, <2>5, <2>6 DEF PsnTypeOK, PsnIInv
  <2>8. RegistersTrackPsns'
    BY <1>1, <1>2, <2>1, <2>2, <2>5, <2>6 DEF RegistersTrackPsns
  <2> QED
    BY <2>7, <2>8 DEF PsnIInv
<1>6. ASSUME NEW p \in 0..LastPsn, HandleEACK(p) PROVE PsnIInv'
  <2>1. p \in Int /\ p - trueBase <= Size /\ trueBase - p <= Lag
        /\ p >= trueBase /\ p - trueBase \in 0..(Size - 1)
    BY <1>1, <1>2, <1>6 DEF HandleEACK
  <2>2. Index(Wrap(p)) = p - trueBase
    BY <2>1, IndexIsDistance
  <2>3. /\ window' = window \cup {p - trueBase} /\ trueAcked' = trueAcked \cup {p}
        /\ UNCHANGED <<basePsn, nextPsn, crashed, trueBase, trueNext>>
    BY <1>6, <2>2 DEF HandleEACK
  <2>4. p = trueBase + (p - trueBase)
    BY <1>2, <2>1
  <2>5. PsnTypeOK'
    BY <1>2, <2>1, <2>3 DEF PsnTypeOK, PsnIInv
  <2>6. trueAcked' = {trueBase' + i : i \in window'}
    BY <1>2, <2>3, <2>4
  <2>7. RegistersTrackPsns'
    BY <1>2, <2>3, <2>6 DEF RegistersTrackPsns
  <2> QED
    BY <2>5, <2>7 DEF PsnIInv
<1>7. ASSUME NEW p \in 0..LastPsn, HandleImplicitAck(p) PROVE PsnIInv'
  <2> DEFINE d == p - trueBase
  <2>1. /\ p \in Int /\ p - trueBase <= Size /\ trueBase - p <= Lag
        /\ p < trueNext /\ d \in Int /\ p = trueBase + d
    BY <1>1, <1>2, <1>7 DEF HandleImplicitAck
  <2>2. /\ Signed(Index(Wrap(p))) = d
        /\ p >= trueBase => Index(Wrap(p)) = d
    BY <2>1, IndexIsDistance
  <2>3. CASE /\ crashed' = TRUE
             /\ UNCHANGED <<basePsn, nextPsn, window, trueBase, trueNext, trueAcked>>
    BY <2>3 DEF PsnIInv, PsnTypeOK, RegistersTrackPsns
  <2>4. CASE /\ Signed(Index(Wrap(p))) \in 0..(Size - 1)
             /\ UNCHANGED <<nextPsn, crashed, trueNext>>
             /\ \/ /\ Wrap(p) = basePsn
                   /\ basePsn' = Wrap(basePsn + 1) /\ window' = RightShift(window, 1)
                   /\ trueBase' = p + 1
                   /\ trueAcked' = {q \in trueAcked : q > p}
                \/ /\ window' = window \cup {Index(Wrap(p))}
                   /\ trueAcked' = trueAcked \cup {p}
                   /\ UNCHANGED <<basePsn, trueBase>>
    <3>1. d \in 0..(Size - 1) /\ p >= trueBase /\ Index(Wrap(p)) = d
      BY <1>1, <1>2, <2>1, <2>2, <2>4
    <3>2. CASE /\ Wrap(p) = basePsn
               /\ basePsn' = Wrap(basePsn + 1) /\ window' = RightShift(window, 1)
               /\ trueBase' = p + 1
               /\ trueAcked' = {q \in trueAcked : q > p}
      <4>1. d = 0
        <5>1. basePsn - basePsn = 0
          BY <1>2
        <5>2. Index(basePsn) = Wrap(0)
          BY <5>1 DEF Index
        <5> QED
          BY <3>1, <3>2, <5>2, WrapZero
      <4>2. p = trueBase
        BY <2>1, <4>1, <1>2
      <4>3. Wrap(basePsn + 1) = Wrap(trueBase + 1)
        BY <1>2, WrapDifference
      <4>4. trueAcked' = {q \in trueAcked : q >= trueBase + 1}
        BY <1>2, <3>2, <4>2
      <4>5. /\ window' \subseteq 0..(Size - 1)
            /\ trueAcked' = {(trueBase + 1) + i : i \in window'}
        <5>1. trueBase \in Int /\ 1 \in Nat
          BY <1>2
        <5>2. /\ RightShift(window, 1) \subseteq 0..(Size - 1)
              /\ {q \in trueAcked : q >= trueBase + 1}
                   = {(trueBase + 1) + i : i \in RightShift(window, 1)}
          BY ZenonT(60), <1>2, <5>1, ShiftTracks
        <5> QED
          BY <3>2, <4>4, <5>2
      <4>6. PsnTypeOK'
        BY <1>2, <1>3, <2>1, <2>4, <3>2, <4>2, <4>5 DEF PsnTypeOK, PsnIInv
      <4>7. RegistersTrackPsns'
        BY <1>1, <1>2, <2>1, <2>4, <3>2, <4>2, <4>3, <4>5 DEF RegistersTrackPsns
      <4> QED
        BY <4>6, <4>7 DEF PsnIInv
    <3>3. CASE /\ window' = window \cup {Index(Wrap(p))}
               /\ trueAcked' = trueAcked \cup {p}
               /\ UNCHANGED <<basePsn, trueBase>>
      <4>1. PsnTypeOK'
        BY <1>2, <2>4, <3>1, <3>3 DEF PsnTypeOK, PsnIInv
      <4>2. trueAcked' = {trueBase' + i : i \in window'}
        BY <1>2, <2>1, <3>1, <3>3
      <4>3. RegistersTrackPsns'
        BY <1>2, <2>4, <3>3, <4>2 DEF RegistersTrackPsns
      <4> QED
        BY <4>1, <4>3 DEF PsnIInv
    <3> QED
      BY <2>4, <3>2, <3>3
  <2> QED
    BY <1>7, <2>3, <2>4 DEF HandleImplicitAck
<1>8. CASE UNCHANGED psnVars
  BY <1>8 DEF psnVars, PsnIInv, PsnTypeOK, RegistersTrackPsns
<1> QED
  BY <1>4, <1>5, <1>6, <1>7, <1>8 DEF PsnNext

\* For every register width and window size, base, next and the bitmap stand
\* for the packets sent and acknowledged, across every wrap-around.
THEOREM WrapIsInvisible == PsnSpec => []RegistersTrackPsns
<1>1. PsnIInv => RegistersTrackPsns
  BY DEF PsnIInv
<1> QED
  BY InitPsnIInv, PsnNextStep, <1>1, PTL DEF PsnSpec

-----------------------------------------------------------------------------
(* RequestCounters.                                                        *)

\* A counter stands for the size of a set of requests.
Counted(n, S) == n = Cardinality(S)

\* The registers are wide enough to count every request.
LEMMA RequestsFit ==
  ASSUME CountersAssumption
  PROVE  /\ IsFiniteSet(Requests) /\ Cardinality(Requests) \in Nat
         /\ CounterModulus \in Nat \ {0} /\ CounterModulus > Cardinality(Requests)
<1>1. IsFiniteSet(Pulls \cup PushRequests)
  BY FS_Union DEF CountersAssumption
<1>2. IsFiniteSet(Requests)
  BY <1>1, FS_Union DEF CountersAssumption, Requests
<1>3. Cardinality(Requests) \in Nat
  BY <1>2, FS_CardinalityType
<1>4. CounterModulus \in Nat /\ CounterModulus > Cardinality(Requests)
  BY DEF CountersAssumption, Requests
<1> QED
  BY <1>2, <1>3, <1>4

\* One more request is counted, without a wrap.
LEMMA CountsUp ==
  ASSUME CountersAssumption, NEW S \in SUBSET Requests, NEW r \in Requests, r \notin S,
         NEW n, Counted(n, S)
  PROVE  /\ Counted((n + 1) % CounterModulus, S \cup {r})
         /\ (n + 1) % CounterModulus \in 0..(CounterModulus - 1)
<1>1. IsFiniteSet(Requests) /\ Cardinality(Requests) \in Nat
  BY RequestsFit
<1>2. IsFiniteSet(S) /\ Cardinality(S) \in Nat
  BY <1>1, FS_Subset, FS_CardinalityType
<1>3. Cardinality(S \cup {r}) = Cardinality(S) + 1
  BY <1>2, FS_AddElement
<1>4. Cardinality(S \cup {r}) <= Cardinality(Requests)
  <2>1. (S \cup {r}) \in SUBSET Requests
    OBVIOUS
  <2> QED
    BY <1>1, <2>1, FS_Subset
<1>5. CounterModulus \in Nat /\ CounterModulus > Cardinality(Requests)
  BY RequestsFit
<1>6. n \in Nat /\ n + 1 < CounterModulus
  BY <1>1, <1>2, <1>3, <1>4, <1>5 DEF Counted
<1>7. (n + 1) % CounterModulus = n + 1
  BY <1>5, <1>6
<1> QED
  BY <1>2, <1>3, <1>5, <1>6, <1>7 DEF Counted

\* One request less is counted, without a wrap.
LEMMA CountsDown ==
  ASSUME CountersAssumption, NEW S \in SUBSET Requests, NEW r \in S, NEW n, Counted(n, S)
  PROVE  /\ Counted((n - 1) % CounterModulus, S \ {r})
         /\ (n - 1) % CounterModulus \in 0..(CounterModulus - 1)
<1>1. IsFiniteSet(Requests) /\ Cardinality(Requests) \in Nat
  BY RequestsFit
<1>2. IsFiniteSet(S) /\ Cardinality(S) \in Nat /\ Cardinality(S) <= Cardinality(Requests)
  BY <1>1, FS_Subset, FS_CardinalityType
<1>3. Cardinality(S \ {r}) = Cardinality(S) - 1 /\ IsFiniteSet(S \ {r})
  BY <1>2, FS_RemoveElement
<1>4. Cardinality(S \ {r}) \in Nat
  BY <1>3, FS_CardinalityType
<1>5. CounterModulus \in Nat /\ CounterModulus > Cardinality(Requests)
  BY RequestsFit
<1>6. n \in Nat /\ n - 1 \in Nat /\ n - 1 < CounterModulus
  BY <1>1, <1>2, <1>3, <1>4, <1>5 DEF Counted
<1>7. (n - 1) % CounterModulus = n - 1
  BY <1>5, <1>6
<1> QED
  BY <1>2, <1>3, <1>5, <1>6, <1>7 DEF Counted

\* The counter of window v moves from f to g with request r, and the sets of
\* requests from S to T; D are the windows whose counter stands for its set.
CounterStep(D, v, r, S, T, f, g) ==
  /\ D \in SUBSET Windows /\ v \in Windows /\ r \in Requests
  /\ S \in [Windows -> SUBSET Requests] /\ T \in [Windows -> SUBSET Requests]
  /\ f \in [Windows -> 0..(CounterModulus - 1)]
  /\ \A w \in D : Counted(f[w], S[w])
  /\ \A w \in Windows \ {v} : T[w] = S[w]
  /\ \/ g = Increment(f, v) /\ (v \in D => r \notin S[v] /\ T[v] = S[v] \cup {r})
     \/ g = Decrement(f, v) /\ (v \in D => r \in S[v] /\ T[v] = S[v] \ {r})
     \/ g = f /\ (v \in D => T[v] = S[v])

LEMMA CounterMoves ==
  ASSUME CountersAssumption, NEW D, NEW v, NEW r, NEW S, NEW T, NEW f, NEW g,
         CounterStep(D, v, r, S, T, f, g)
  PROVE  g \in [Windows -> 0..(CounterModulus - 1)] /\ \A w \in D : Counted(g[w], T[w])
<1>0. /\ D \in SUBSET Windows /\ v \in Windows /\ r \in Requests
      /\ S \in [Windows -> SUBSET Requests] /\ T \in [Windows -> SUBSET Requests]
      /\ f \in [Windows -> 0..(CounterModulus - 1)]
      /\ \A w \in D : Counted(f[w], S[w])
      /\ \A w \in Windows \ {v} : T[w] = S[w]
  BY DEF CounterStep
<1>1. CounterModulus \in Nat \ {0}
  BY RequestsFit
<1>2. ASSUME g = Increment(f, v), v \in D => r \notin S[v] /\ T[v] = S[v] \cup {r}
      PROVE  g \in [Windows -> 0..(CounterModulus - 1)] /\ \A w \in D : Counted(g[w], T[w])
  <2>1. f[v] \in Nat /\ (f[v] + 1) % CounterModulus \in 0..(CounterModulus - 1)
    BY <1>0, <1>1
  <2>2. g = [f EXCEPT ![v] = (f[v] + 1) % CounterModulus]
    BY <1>2 DEF Increment
  <2>3. g[v] = (f[v] + 1) % CounterModulus /\ \A w \in Windows \ {v} : g[w] = f[w]
    BY <1>0, <2>2
  <2>4. v \in D => Counted(g[v], T[v])
    BY <1>0, <1>2, <2>3, CountsUp
  <2> QED
    BY <1>0, <2>1, <2>2, <2>3, <2>4
<1>3. ASSUME g = Decrement(f, v), v \in D => r \in S[v] /\ T[v] = S[v] \ {r}
      PROVE  g \in [Windows -> 0..(CounterModulus - 1)] /\ \A w \in D : Counted(g[w], T[w])
  <2>1. f[v] \in Nat /\ (f[v] - 1) % CounterModulus \in 0..(CounterModulus - 1)
    BY <1>0, <1>1
  <2>2. g = [f EXCEPT ![v] = (f[v] - 1) % CounterModulus]
    BY <1>3 DEF Decrement
  <2>3. g[v] = (f[v] - 1) % CounterModulus /\ \A w \in Windows \ {v} : g[w] = f[w]
    BY <1>0, <2>2
  <2>4. v \in D => Counted(g[v], T[v])
    BY <1>0, <1>3, <2>3, CountsDown
  <2> QED
    BY <1>0, <2>1, <2>2, <2>3, <2>4
<1>4. ASSUME g = f, v \in D => T[v] = S[v]
      PROVE  g \in [Windows -> 0..(CounterModulus - 1)] /\ \A w \in D : Counted(g[w], T[w])
  <2>1. \A w \in D : T[w] = S[w]
    BY <1>0, <1>4
  <2> QED
    BY <1>0, <1>4, <2>1
<1> QED
  BY <1>2, <1>3, <1>4 DEF CounterStep

\* The requests each counter stands for.
OpenPlaces == {"outstanding", "queued", "granted"}
Open == [w \in Windows |-> {r \in RequestsOf(w) : place[r] \in OpenPlaces}]
IsRetransmission(q, n) == q = "outstanding" /\ n > 1
Again == [w \in Windows |-> {r \in RequestsOf(w) : IsRetransmission(place[r], attempts[r])}]
Pushless == {w \in Windows : RequestsOf(w) \cap PushRequests = {}}

LEMMA CountsAreSizes ==
  /\ RequestsCounted <=> \A w \in Windows : Counted(orc[w], Open[w])
  /\ RetransmissionsCounted <=> \A w \in Pushless : Counted(orrc[w], Again[w])
BY DEF RequestsCounted, RetransmissionsCounted, Counted, Open, OpenPlaces, Again,
       IsRetransmission, Pushless

LEMMA CountsAreSizesNext ==
  /\ RequestsCounted' <=> \A w \in Windows : Counted(orc'[w], Open'[w])
  /\ RetransmissionsCounted' <=> \A w \in Pushless : Counted(orrc'[w], Again'[w])
BY DEF RequestsCounted, RetransmissionsCounted, Counted, Open, OpenPlaces, Again,
       IsRetransmission, Pushless, RequestsOf, Window, Requests, Windows

\* Request r goes to place q with n transmissions: ORC moves when it becomes or
\* ceases to be open, and, where no push request shares the window, ORRC moves
\* when it becomes or ceases to be a retransmission that is outstanding.
Moves(r, q, n) ==
  /\ r \in Requests /\ q \in Places /\ n \in 0..MaxAttempts
  /\ place' = [place EXCEPT ![r] = q] /\ attempts' = [attempts EXCEPT ![r] = n]
  /\ q # "unsent" /\ n # 0
  /\ q = "queued" => n < MaxAttempts
  /\ q = "granted" => r \in PushRequests
  /\ \/ orc' = Increment(orc, Window(r)) /\ place[r] \notin OpenPlaces /\ q \in OpenPlaces
     \/ orc' = Decrement(orc, Window(r)) /\ place[r] \in OpenPlaces /\ q \notin OpenPlaces
     \/ orc' = orc /\ (place[r] \in OpenPlaces <=> q \in OpenPlaces)
  /\ \/ /\ orrc' = Increment(orrc, Window(r))
        /\ Window(r) \in Pushless =>
             ~IsRetransmission(place[r], attempts[r]) /\ IsRetransmission(q, n)
     \/ /\ orrc' = Decrement(orrc, Window(r))
        /\ Window(r) \in Pushless =>
             IsRetransmission(place[r], attempts[r]) /\ ~IsRetransmission(q, n)
     \/ /\ orrc' = orrc
        /\ Window(r) \in Pushless =>
             (IsRetransmission(place[r], attempts[r]) <=> IsRetransmission(q, n))

LEMMA RequestMoves ==
  ASSUME CountersAssumption, CountersAgree, NEW r, NEW q, NEW n, Moves(r, q, n)
  PROVE  CountersAgree'
<1> DEFINE v == Window(r)
<1>1. r \in Requests /\ v \in Windows /\ Pushless \in SUBSET Windows /\ r \in RequestsOf(v)
      /\ \A w \in Windows \ {v} : r \notin RequestsOf(w)
  BY DEF Moves, Window, Windows, Pushless, RequestsOf
<1>2. /\ place \in [Requests -> Places] /\ attempts \in [Requests -> 0..MaxAttempts]
      /\ orc \in [Windows -> 0..(CounterModulus - 1)]
      /\ orrc \in [Windows -> 0..(CounterModulus - 1)]
  BY DEF CountersAgree, CountersTypeOK
<1>3. /\ place'[r] = q /\ attempts'[r] = n
      /\ \A s \in Requests \ {r} : place'[s] = place[s] /\ attempts'[s] = attempts[s]
  BY <1>2 DEF Moves
<1>4. \A w \in Windows : RequestsOf(w) \subseteq Requests
  BY DEF RequestsOf
<1>5. /\ Open \in [Windows -> SUBSET Requests] /\ Again \in [Windows -> SUBSET Requests]
  BY <1>4 DEF Open, Again
<1>6. /\ Open' = [w \in Windows |-> {s \in RequestsOf(w) : place'[s] \in OpenPlaces}]
      /\ Again' = [w \in Windows |->
                     {s \in RequestsOf(w) : IsRetransmission(place'[s], attempts'[s])}]
  BY DEF Open, Again, IsRetransmission, OpenPlaces, RequestsOf, Window, Requests, Windows
<1>7. Open' \in [Windows -> SUBSET Requests] /\ Again' \in [Windows -> SUBSET Requests]
  BY <1>4, <1>6
<1>8. \A w \in Windows \ {v} : Open'[w] = Open[w] /\ Again'[w] = Again[w]
  BY <1>1, <1>3, <1>4, <1>6 DEF Moves, Open, Again
<1>9. /\ r \in Open[v] <=> place[r] \in OpenPlaces
      /\ Open'[v] = IF q \in OpenPlaces THEN Open[v] \cup {r} ELSE Open[v] \ {r}
  BY <1>1, <1>3, <1>4, <1>6 DEF Moves, Open
<1>10. /\ r \in Again[v] <=> IsRetransmission(place[r], attempts[r])
       /\ Again'[v] = IF IsRetransmission(q, n) THEN Again[v] \cup {r} ELSE Again[v] \ {r}
  BY <1>1, <1>3, <1>4, <1>6 DEF Moves, Again
<1>11. /\ \A w \in Windows : Counted(orc[w], Open[w])
       /\ \A w \in Pushless : Counted(orrc[w], Again[w])
  BY CountsAreSizes DEF CountersAgree
<1> HIDE DEF v
<1>12. /\ orc' \in [Windows -> 0..(CounterModulus - 1)]
       /\ \A w \in Windows : Counted(orc'[w], Open'[w])
  <2>1. \/ orc' = Increment(orc, v) /\ r \notin Open[v] /\ Open'[v] = Open[v] \cup {r}
        \/ orc' = Decrement(orc, v) /\ r \in Open[v] /\ Open'[v] = Open[v] \ {r}
        \/ orc' = orc /\ Open'[v] = Open[v]
    BY <1>9 DEF Moves, v
  <2>2. CounterStep(Windows, v, r, Open, Open', orc, orc')
    BY <1>1, <1>2, <1>5, <1>7, <1>8, <1>11, <2>1 DEF CounterStep
  <2> QED
    BY <2>2, CounterMoves
<1>13. /\ orrc' \in [Windows -> 0..(CounterModulus - 1)]
       /\ \A w \in Pushless : Counted(orrc'[w], Again'[w])
  <2>1. \/ /\ orrc' = Increment(orrc, v)
           /\ v \in Pushless => r \notin Again[v] /\ Again'[v] = Again[v] \cup {r}
        \/ /\ orrc' = Decrement(orrc, v)
           /\ v \in Pushless => r \in Again[v] /\ Again'[v] = Again[v] \ {r}
        \/ orrc' = orrc /\ (v \in Pushless => Again'[v] = Again[v])
    BY <1>10 DEF Moves, v
  <2>2. CounterStep(Pushless, v, r, Again, Again', orrc, orrc')
    BY <1>1, <1>2, <1>5, <1>7, <1>8, <1>11, <2>1 DEF CounterStep
  <2> QED
    BY <2>2, CounterMoves
<1>14. CountersTypeOK'
  BY <1>2, <1>12, <1>13 DEF Moves, CountersTypeOK, Requests, Places, Windows
<1>15. AttemptsAgree'
  <2>1. AttemptsAgree
    BY DEF CountersAgree
  <2> QED
    BY <1>3, <2>1 DEF Moves, AttemptsAgree, Requests
<1> QED
  BY <1>12, <1>13, <1>14, <1>15, CountsAreSizesNext DEF CountersAgree

LEMMA CountersStart == ASSUME CountersAssumption, CountersInit PROVE CountersAgree
<1>1. CounterModulus \in Nat \ {0} /\ MaxAttempts \in Nat
  BY RequestsFit DEF CountersAssumption
<1>2. CountersTypeOK /\ AttemptsAgree
  BY <1>1 DEF CountersInit, CountersTypeOK, AttemptsAgree, Places, Windows
<1>3. ASSUME NEW w \in Windows PROVE Open[w] = {} /\ Again[w] = {}
  BY DEF CountersInit, Open, OpenPlaces, Again, IsRetransmission, RequestsOf
<1>4. Cardinality({}) = 0
  BY FS_EmptySet
<1> QED
  BY <1>2, <1>3, <1>4, CountsAreSizes DEF CountersInit, CountersAgree, Counted, Pushless

LEMMA CountersStep ==
  ASSUME CountersAssumption, CountersAgree, [CountersNext]_counterVars
  PROVE  CountersAgree'
<1> USE DEF OpenPlaces, IsRetransmission
<1>1. /\ place \in [Requests -> Places] /\ attempts \in [Requests -> 0..MaxAttempts]
      /\ MaxAttempts \in Nat \ {0} /\ AttemptsAgree
  BY DEF CountersAgree, CountersTypeOK, CountersAssumption
<1>2. \A r \in PushRequests : r \in Requests /\ Window(r) = "request" /\ Window(r) \notin Pushless
  BY DEF CountersAssumption, Requests, Window, Pushless, RequestsOf
<1>3. ASSUME NEW r \in Requests, TransmitNew(r) PROVE CountersAgree'
  <2>1. place[r] = "unsent" /\ attempts[r] = 0
    BY <1>1, <1>3 DEF TransmitNew, AttemptsAgree
  <2>2. /\ place' = [place EXCEPT ![r] = "outstanding"] /\ attempts' = [attempts EXCEPT ![r] = 1]
        /\ orc' = Increment(orc, Window(r)) /\ orrc' = orrc
    BY <1>3, <2>1 DEF TransmitNew, CountTransmission
  <2>3. "outstanding" \in Places /\ 1 \in 0..MaxAttempts
    BY <1>1 DEF Places
  <2>4. Moves(r, "outstanding", 1)
    BY <2>1, <2>2, <2>3 DEF Moves
  <2> QED
    BY <2>4, RequestMoves
<1>4. ASSUME NEW r \in Requests, Retransmit(r) PROVE CountersAgree'
  <2> DEFINE n == attempts[r] + 1
  <2>1. place[r] = "queued" /\ attempts[r] \in Nat \ {0} /\ attempts[r] < MaxAttempts
    BY <1>1, <1>4 DEF Retransmit, AttemptsAgree
  <2>2. /\ place' = [place EXCEPT ![r] = "outstanding"] /\ attempts' = [attempts EXCEPT ![r] = n]
        /\ orrc' = Increment(orrc, Window(r)) /\ orc' = orc
    BY <1>4, <2>1 DEF Retransmit, CountTransmission
  <2>3. "outstanding" \in Places /\ n \in 0..MaxAttempts /\ n > 1
    BY <1>1, <2>1 DEF Places
  <2> HIDE DEF n
  <2>4. Moves(r, "outstanding", n)
    BY <2>1, <2>2, <2>3 DEF Moves
  <2> QED
    BY <2>4, RequestMoves
<1>5. ASSUME NEW r \in Requests, InitiateRetransmission(r) PROVE CountersAgree'
  <2> DEFINE n == attempts[r]
  <2>1. place[r] = "outstanding" /\ n \in 0..MaxAttempts /\ n # 0 /\ n < MaxAttempts
    BY <1>1, <1>5 DEF InitiateRetransmission, AttemptsAgree
  <2>2. /\ place' = [place EXCEPT ![r] = "queued"] /\ attempts' = [attempts EXCEPT ![r] = n]
        /\ orrc' = (IF n > 1 THEN Decrement(orrc, Window(r)) ELSE orrc) /\ orc' = orc
    BY <1>1, <1>5 DEF InitiateRetransmission
  <2>3. "queued" \in Places /\ attempts[r] = n
    BY DEF Places
  <2> HIDE DEF n
  <2>4. Moves(r, "queued", n)
    BY <2>1, <2>2, <2>3 DEF Moves
  <2> QED
    BY <2>4, RequestMoves
<1>6. ASSUME NEW r \in Requests, EnqueueAckToUlp(r) PROVE CountersAgree'
  <2> DEFINE n == attempts[r]
  <2>1. place[r] \in {"outstanding", "queued"} /\ n \in 0..MaxAttempts /\ n # 0
    BY <1>1, <1>6 DEF EnqueueAckToUlp, AttemptsAgree
  <2>2. /\ place' = [place EXCEPT ![r] = "done"] /\ attempts' = [attempts EXCEPT ![r] = n]
        /\ orrc' = (IF place[r] = "outstanding" /\ n > 1 THEN Decrement(orrc, Window(r)) ELSE orrc)
        /\ orc' = Decrement(orc, Window(r))
    BY <1>1, <1>6 DEF EnqueueAckToUlp
  <2>3. "done" \in Places /\ attempts[r] = n
    BY DEF Places
  <2> HIDE DEF n
  <2>4. Moves(r, "done", n)
    BY <2>1, <2>2, <2>3 DEF Moves
  <2> QED
    BY <2>4, RequestMoves
<1>7. ASSUME NEW r \in Requests, EnqueueAckToUlpPushRequest(r) PROVE CountersAgree'
  <2> DEFINE n == attempts[r]
  <2>1. place[r] \in {"outstanding", "queued"} /\ n \in 0..MaxAttempts /\ n # 0
        /\ r \in PushRequests
    BY <1>1, <1>7 DEF EnqueueAckToUlpPushRequest, AttemptsAgree
  <2>2. /\ place' = [place EXCEPT ![r] = "granted"] /\ attempts' = [attempts EXCEPT ![r] = n]
        /\ orrc' = orrc /\ orc' = orc
    BY <1>1, <1>7 DEF EnqueueAckToUlpPushRequest
  <2>3. "granted" \in Places
    BY DEF Places
  <2> HIDE DEF n
  <2>4. Moves(r, "granted", n)
    BY <1>2, <2>1, <2>2, <2>3 DEF Moves
  <2> QED
    BY <2>4, RequestMoves
<1>8. ASSUME NEW r \in Requests, EnqueueAckToUlpPushSolicitedData(r) PROVE CountersAgree'
  <2> DEFINE n == attempts[r]
  <2>1. place[r] = "granted" /\ n \in 0..MaxAttempts /\ n # 0 /\ r \in PushRequests
    BY <1>1, <1>8 DEF EnqueueAckToUlpPushSolicitedData, AttemptsAgree
  <2>2. /\ place' = [place EXCEPT ![r] = "done"] /\ attempts' = [attempts EXCEPT ![r] = n]
        /\ orrc' = (IF n > 1 THEN Decrement(orrc, Window(r)) ELSE orrc)
        /\ orc' = Decrement(orc, Window(r))
    BY <1>1, <1>2, <1>8, <2>1 DEF EnqueueAckToUlpPushSolicitedData
  <2>3. "done" \in Places
    BY DEF Places
  <2> HIDE DEF n
  <2>4. Moves(r, "done", n)
    BY <1>2, <2>1, <2>2, <2>3 DEF Moves
  <2> QED
    BY <2>4, RequestMoves
<1>9. CASE UNCHANGED counterVars
  BY <1>9 DEF counterVars, CountersAgree, CountersTypeOK, RequestsCounted, RetransmissionsCounted, AttemptsAgree,
              Requests, RequestsOf, Window, Windows, Places
<1> QED
  BY <1>3, <1>4, <1>5, <1>6, <1>7, <1>8, <1>9 DEF CountersNext, Finished

\* ORC counts the requests sent and not complete and, where no push request
\* shares the window, ORRC the retransmissions outstanding, whatever is
\* retransmitted, probed, or acknowledged while it waits to be retransmitted;
\* so the unsigned registers never wrap and the gates see true counts.
THEOREM GatesSeeTrueCounts ==
  ASSUME CountersAssumption
  PROVE  CountersSpec => []CountersAgree
<1>1. CountersInit => CountersAgree
  BY CountersStart
<1>2. CountersAgree /\ [CountersNext]_counterVars => CountersAgree'
  BY CountersStep
<1> QED
  BY <1>1, <1>2, PTL DEF CountersSpec

-----------------------------------------------------------------------------
(* AckCoalescing.                                                          *)

\* A set of naturals that is not empty has a least element.
LEMMA LeastNatural ==
  ASSUME NEW T, T \subseteq Nat, T # {}
  PROVE  \E x \in T : \A y \in T : x <= y
<1>1. PICK x \in T : \A y \in T : ~(<<y, x>> \in OpToRel(<, Nat))
  BY NatLessThanWellFounded, WFMin
<1>2. \A y \in T : ~(y < x)
  BY <1>1 DEF OpToRel
<1> QED
  BY <1>2

\* UpdateReceiveAckBitmap stops at the first hole of a bitmap of RxSize bits,
\* and there always is one.
LEMMA ShiftedBaseHole ==
  ASSUME CoalescingAssumption, IInv, NEW p \in Psns, InWindow(p)
  PROVE  /\ ShiftedBase(p) \in base..(base + RxSize)
         /\ \A q \in base..(ShiftedBase(p) - 1) : q \in acked \cup {p}
<1> DEFINE bits == acked \cup {p}
           holes == {b \in base..(base + RxSize) : b \notin bits}
           Stop(b) == b \notin bits /\ \A q \in base..(b - 1) : q \in bits
<1>0. WindowTypeOK
  BY DEF IInv, TypeOK
<1>1. base + RxSize \in holes /\ holes \subseteq Nat
  BY <1>0 DEF CoalescingAssumption, WindowTypeOK, InWindow
<1>2. PICK b \in holes : \A c \in holes : b <= c
  <2> HIDE DEF holes
  <2> QED BY <1>1, LeastNatural
<1>3. b \in base..(base + RxSize) /\ Stop(b)
  BY <1>0, <1>2 DEF CoalescingAssumption, WindowTypeOK
<1>4. CASE p # base
  BY <1>0, <1>4 DEF ShiftedBase, WindowTypeOK, CoalescingAssumption
<1>5. CASE p = base
  <2>1. ShiftedBase(p) = CHOOSE c \in base..(base + RxSize) : Stop(c)
    BY <1>5 DEF ShiftedBase
  <2> QED
    BY <2>1, <1>3
<1> QED
  BY <1>4, <1>5

LEMMA InitIInv ==
  ASSUME CoalescingAssumption, Init
  PROVE  IInv
<1> USE DEF CoalescingAssumption, Init
<1>1. EntryTypeOK
  BY DEF EntryTypeOK
<1>2. WindowTypeOK
  BY DEF WindowTypeOK
<1>3. oow \in BOOLEAN
  OBVIOUS
<1>4. WindowBounded /\ TimerRuns /\ DropKeepsAckPending
  BY DEF WindowBounded, TimerRuns, DropKeepsAckPending
<1> QED
  BY <1>1, <1>2, <1>3, <1>4 DEF IInv, TypeOK

\* What the receive window does before the coalescing entry looks at a packet.
WindowMoves ==
  /\ base' \in base..MaxPsn
  /\ received' \subseteq base'..(base' + RxSize - 1) /\ acked' \subseteq received'
  /\ received' \subseteq Psns

\* Setting a bit moves the window past the run of ones at its base.
LEMMA UpdateReceiveAckBitmapMoves ==
  ASSUME CoalescingAssumption, IInv, NEW p \in Psns, InWindow(p),
         UpdateReceiveAckBitmap(p)
  PROVE  WindowMoves /\ base' = ShiftedBase(p)
<1> DEFINE b == ShiftedBase(p)
<1>0. WindowTypeOK /\ WindowBounded
  BY DEF IInv, TypeOK
<1>1. b \in base..(base + RxSize) /\ \A q \in base..(b - 1) : q \in acked \cup {p}
  BY ShiftedBaseHole
<1>2. base' = b /\ acked' = {q \in acked \cup {p} : q >= b}
      /\ received' = {q \in received \cup {p} : q >= b}
  BY DEF UpdateReceiveAckBitmap
<1> HIDE DEF b
<1>3. b <= MaxPsn
  <2>1. CASE b = base
    BY <1>0, <2>1 DEF WindowBounded
  <2>2. CASE b # base
    <3>1. b - 1 \in acked \cup {p}
      BY <1>0, <1>1, <2>2 DEF WindowTypeOK, CoalescingAssumption
    <3>2. b - 1 \in Psns
      BY <1>0, <3>1 DEF WindowTypeOK, WindowBounded
    <3> QED
      BY <1>0, <3>2, <1>1 DEF Psns, WindowTypeOK, CoalescingAssumption
  <2> QED
    BY <2>1, <2>2
<1>4. base' \in base..MaxPsn
  BY <1>0, <1>1, <1>2, <1>3 DEF WindowTypeOK, CoalescingAssumption
<1>5. acked' \subseteq received' /\ received' \subseteq Psns
  BY <1>0, <1>2 DEF WindowTypeOK, WindowBounded
<1>6. received' \subseteq base'..(base' + RxSize - 1)
  <2> SUFFICES ASSUME NEW q \in received' PROVE q \in base'..(base' + RxSize - 1)
    OBVIOUS
  <2>1. q \in base..(base + RxSize - 1) /\ q >= b
    BY <1>0, <1>2 DEF WindowTypeOK, InWindow
  <2> QED
    BY <1>0, <1>1, <1>2, <2>1 DEF WindowTypeOK, CoalescingAssumption
<1> QED
  BY <1>2, <1>4, <1>5, <1>6 DEF WindowMoves, b

\* A packet is counted or makes an ACK: whatever the window did, the entry has
\* a timer afterwards or nothing to report.
LEMMA GenerateStep ==
  ASSUME CoalescingAssumption, IInv, WindowMoves, UNCHANGED now,
         NEW n \in {1, 2}, NEW ar \in BOOLEAN, NEW drop \in BOOLEAN,
         NEW imp \in 0..base',
         GenerateAckOrUpdateCoalescingState(n, ar, drop, imp)
  PROVE  IInv'
<1> USE DEF CoalescingAssumption
<1>0. EntryTypeOK /\ WindowTypeOK /\ TimerRuns
  BY DEF IInv, TypeOK
<1>a. base' \in Nat /\ base <= base'
  BY <1>0 DEF WindowTypeOK, WindowMoves
<1>b. received' \subseteq base'..(base' + RxSize - 1) /\ acked' \subseteq received'
  BY DEF WindowMoves
<1>1. ASSUME TransmitACK, UNCHANGED events PROVE IInv'
  <2>1. counter' = 0 /\ trigger' = 0 /\ implicit' = 0 /\ told' = base' /\ since' = now
    BY <1>1 DEF TransmitACK, Tell
  <2>2. oow' = FALSE
    BY <1>1 DEF TransmitACK
  <2>3. WindowTypeOK'
    <3>1. told' \in 0..base'
      BY <1>a, <2>1
    <3> QED
      BY <1>a, <1>b, <3>1, Zenon DEF WindowTypeOK
  <2>4. EntryTypeOK'
    BY <1>0, <1>1, <2>1 DEF EntryTypeOK
  <2>5. WindowBounded' /\ TimerRuns'
    BY <1>0, <2>1 DEF WindowTypeOK, WindowMoves, WindowBounded, TimerRuns
  <2>6. oow' \in BOOLEAN /\ DropKeepsAckPending'
    BY <2>2 DEF DropKeepsAckPending
  <2> QED
    BY <2>3, <2>4, <2>5, <2>6 DEF IInv, TypeOK
<1>2. ASSUME counter + n < 2 * Threshold,
             counter' = counter + n, implicit' = imp, oow' = drop,
             IF trigger = 0 THEN SetupAckCoalescingTimer
             ELSE UNCHANGED <<trigger, events>>,
             Keep
      PROVE  IInv'
  <2>1. WindowTypeOK'
    <3>1. told' \in 0..base'
      BY <1>0, <1>a, <1>2 DEF Keep, WindowTypeOK
    <3> QED
      BY <1>a, <1>b, <3>1, Zenon DEF WindowTypeOK
  <2>2. EntryTypeOK'
    BY <1>0, <1>2 DEF SetupAckCoalescingTimer, Keep, EntryTypeOK, WindowTypeOK,
       WindowMoves
  <2>3. WindowBounded'
    BY <1>0, <1>2 DEF WindowTypeOK, WindowMoves, WindowBounded
  <2>4. counter' > 0
    BY <1>0, <1>2 DEF EntryTypeOK
  <2>5. TimerRuns'
    BY <1>0, <1>2 DEF SetupAckCoalescingTimer, Keep, EntryTypeOK, WindowTypeOK,
       TimerRuns
  <2>6. oow' \in BOOLEAN /\ DropKeepsAckPending'
    BY <1>2, <2>4 DEF DropKeepsAckPending
  <2> QED
    BY <2>1, <2>2, <2>3, <2>5, <2>6 DEF IInv, TypeOK
<1>3. CASE (ar /\ ~(IgnoreAr /\ drop)) \/ counter + n >= 2 * Threshold
  BY <1>1, <1>3 DEF GenerateAckOrUpdateCoalescingState
<1>4. CASE ~((ar /\ ~(IgnoreAr /\ drop)) \/ counter + n >= 2 * Threshold)
  <2>1. counter + n < 2 * Threshold
    BY <1>0, <1>4 DEF EntryTypeOK
  <2> QED
    BY <1>2, <1>4, <2>1 DEF GenerateAckOrUpdateCoalescingState
<1> QED
  BY <1>3, <1>4
-----------------------------------------------------------------------------
(* One lemma per event. *)

LEMMA ReceivePacketStep ==
  ASSUME CoalescingAssumption, IInv, NEW p \in Psns, NEW ar \in BOOLEAN,
         ReceivePacket(p, ar) \/ HandleAckFromUlp(p, ar)
  PROVE  IInv'
<1>0. EntryTypeOK /\ WindowTypeOK /\ WindowBounded /\ oow \in BOOLEAN
  BY DEF IInv, TypeOK
<1>1. InWindow(p) /\ UpdateReceiveAckBitmap(p) /\ UNCHANGED now
  BY <1>0 DEF ReceivePacket, HandleAckFromUlp, WindowTypeOK, InWindow
<1>2. WindowMoves /\ base' = ShiftedBase(p)
  BY <1>1, UpdateReceiveAckBitmapMoves
<1>3. implicit + ShiftedBase(p) - base \in 0..base'
  BY <1>0, <1>2 DEF WindowMoves, EntryTypeOK, WindowTypeOK, WindowBounded,
     CoalescingAssumption
<1>4. \E n \in {1, 2} :
        GenerateAckOrUpdateCoalescingState(n, ar, oow, implicit + ShiftedBase(p) - base)
  BY DEF ReceivePacket, HandleAckFromUlp
<1> QED
  BY <1>0, <1>1, <1>2, <1>3, <1>4, GenerateStep

LEMMA ReceivePushDataStep ==
  ASSUME CoalescingAssumption, IInv, NEW p \in Psns, ReceivePushData(p)
  PROVE  IInv'
<1>0. EntryTypeOK /\ WindowTypeOK /\ WindowBounded /\ oow \in BOOLEAN
  BY DEF IInv, TypeOK
<1>1. WindowMoves /\ UNCHANGED now
  BY <1>0 DEF ReceivePushData, WindowMoves, WindowTypeOK, WindowBounded, InWindow,
     CoalescingAssumption
<1>2. implicit \in 0..base'
  BY <1>0 DEF ReceivePushData, EntryTypeOK, WindowTypeOK, WindowBounded,
     CoalescingAssumption
<1>3. GenerateAckOrUpdateCoalescingState(1, FALSE, oow, implicit)
  BY DEF ReceivePushData
<1> QED
  BY <1>0, <1>1, <1>2, <1>3, GenerateStep

LEMMA UselessPacketStep ==
  ASSUME CoalescingAssumption, IInv, NEW p \in Psns, NEW ar \in BOOLEAN,
         ReceiveDuplicate(p, ar) \/ ReceiveOutOfWindow(p, ar)
  PROVE  IInv'
<1>0. EntryTypeOK /\ WindowTypeOK /\ WindowBounded /\ oow \in BOOLEAN
  BY DEF IInv, TypeOK
<1>1. UNCHANGED <<now, base, received, acked>>
  BY DEF ReceiveDuplicate, ReceiveOutOfWindow, windowVars
<1>2. WindowMoves
  BY <1>0, <1>1 DEF WindowMoves, WindowTypeOK, WindowBounded, CoalescingAssumption
<1>3. implicit \in 0..base'
  BY <1>0, <1>1 DEF EntryTypeOK, WindowTypeOK, WindowBounded, CoalescingAssumption
<1>4. \E drop \in BOOLEAN : GenerateAckOrUpdateCoalescingState(2, ar, drop, implicit)
  BY <1>0 DEF ReceiveDuplicate, ReceiveOutOfWindow
<1> QED
  BY <1>1, <1>2, <1>3, <1>4, GenerateStep

\* A piggybacked ACK stops the timer only when nothing is left to report.
LEMMA PiggybackStep ==
  ASSUME CoalescingAssumption, IInv, TransmitPacket \/ TransmitNACK
  PROVE  IInv'
<1>0. EntryTypeOK /\ WindowTypeOK /\ WindowBounded /\ TimerRuns /\ oow \in BOOLEAN
      /\ DropKeepsAckPending
  BY DEF IInv, TypeOK
<1>1. UNCHANGED <<now, events, base, received, acked>> /\ PiggybackAck
  BY DEF TransmitPacket, TransmitNACK, windowVars
<1>2. oow' = FALSE \/ oow' = oow
  BY DEF TransmitPacket, TransmitNACK
<1>3. /\ counter' \in 0..counter /\ implicit' \in 0..implicit
      /\ trigger' = IF counter' = 0 THEN 0 ELSE trigger
      /\ told' = base' /\ since' = now
  BY <1>0, <1>1 DEF PiggybackAck, Tell, EntryTypeOK, CoalescingAssumption
<1>4. oow => counter' = counter
  BY <1>1 DEF PiggybackAck
<1>5. EntryTypeOK' /\ WindowTypeOK'
  BY <1>0, <1>1, <1>3 DEF EntryTypeOK, WindowTypeOK, CoalescingAssumption
<1>6. WindowBounded' /\ TimerRuns'
  BY <1>0, <1>1, <1>3 DEF EntryTypeOK, WindowTypeOK, WindowBounded, TimerRuns,
     CoalescingAssumption
<1>7. oow' \in BOOLEAN /\ DropKeepsAckPending'
  <2>1. CASE oow' = FALSE
    BY <2>1 DEF DropKeepsAckPending
  <2>2. CASE oow' = oow
    BY <1>0, <1>4, <2>2, Zenon DEF DropKeepsAckPending
  <2> QED
    BY <1>2, <2>1, <2>2
<1> QED
  BY <1>5, <1>6, <1>7 DEF IInv, TypeOK

\* The event that fires is either the timer's, and the ACK goes, or a stale one
\* whose loss leaves the timer's in the queue.
LEMMA TimeoutStep ==
  ASSUME CoalescingAssumption, IInv, HandleAckCoalescingTimeout
  PROVE  IInv'
<1>0. EntryTypeOK /\ WindowTypeOK /\ WindowBounded /\ TimerRuns /\ oow \in BOOLEAN
      /\ DropKeepsAckPending
  BY DEF IInv, TypeOK
<1>1. events' = events \ {now} /\ UNCHANGED <<now, base, received, acked>>
  BY DEF HandleAckCoalescingTimeout, windowVars
<1>2. CASE now - trigger = Timeout /\ counter > 0
  <2>1. TransmitACK
    BY <1>2 DEF HandleAckCoalescingTimeout
  <2>2. counter' = 0 /\ trigger' = 0 /\ implicit' = 0 /\ told' = base' /\ since' = now
    BY <2>1 DEF TransmitACK, Tell
  <2>3. oow' = FALSE
    BY <2>1 DEF TransmitACK
  <2>4. EntryTypeOK' /\ WindowTypeOK'
    BY <1>0, <1>1, <2>2 DEF EntryTypeOK, WindowTypeOK, CoalescingAssumption
  <2>5. WindowBounded' /\ TimerRuns'
    BY <1>0, <1>1, <2>2 DEF WindowTypeOK, WindowBounded, TimerRuns
  <2>6. oow' \in BOOLEAN /\ DropKeepsAckPending'
    BY <2>3 DEF DropKeepsAckPending
  <2> QED
    BY <2>4, <2>5, <2>6 DEF IInv, TypeOK
<1>3. CASE ~(now - trigger = Timeout /\ counter > 0)
  <2>1. UNCHANGED <<counter, trigger, implicit, told, since>> /\ UNCHANGED oow
    BY <1>3 DEF HandleAckCoalescingTimeout
  <2>2. EntryTypeOK' /\ WindowTypeOK' /\ WindowBounded'
    BY <1>0, <1>1, <2>1 DEF EntryTypeOK, WindowTypeOK, WindowBounded
  <2>3. TimerRuns'
    BY <1>0, <1>1, <1>3, <2>1 DEF EntryTypeOK, TimerRuns, CoalescingAssumption
  <2>4. oow' \in BOOLEAN /\ DropKeepsAckPending'
    BY <1>0, <2>1 DEF DropKeepsAckPending
  <2> QED
    BY <2>2, <2>3, <2>4 DEF IInv, TypeOK
<1> QED
  BY <1>2, <1>3

LEMMA TickStep ==
  ASSUME CoalescingAssumption, IInv, Tick
  PROVE  IInv'
<1>0. EntryTypeOK /\ WindowTypeOK /\ WindowBounded /\ TimerRuns /\ oow \in BOOLEAN
      /\ DropKeepsAckPending
  BY DEF IInv, TypeOK
<1>1. /\ now < MaxTime /\ now \notin events /\ now' = now + 1
      /\ UNCHANGED <<counter, trigger, implicit, events, base, received, acked, told,
                     since>>
  BY DEF Tick, entryVars, windowVars
<1>2. EntryTypeOK'
  BY <1>0, <1>1 DEF EntryTypeOK, CoalescingAssumption
<1>3. WindowTypeOK' /\ WindowBounded' /\ TimerRuns'
  BY <1>0, <1>1 DEF WindowTypeOK, WindowBounded, TimerRuns
<1>4. oow' \in BOOLEAN /\ DropKeepsAckPending'
  BY <1>0, <1>1 DEF Tick, DropKeepsAckPending
<1> QED
  BY <1>2, <1>3, <1>4 DEF IInv, TypeOK

LEMMA NextIInv ==
  ASSUME CoalescingAssumption, IInv, [Next]_vars
  PROVE  IInv'
<1>1. CASE UNCHANGED vars
  <2>1. EntryTypeOK' /\ WindowTypeOK' /\ WindowBounded' /\ TimerRuns'
    BY <1>1 DEF vars, entryVars, windowVars, IInv, TypeOK, EntryTypeOK, WindowTypeOK,
       WindowBounded, TimerRuns
  <2>2. oow' \in BOOLEAN /\ DropKeepsAckPending'
    BY <1>1 DEF vars, entryVars, IInv, TypeOK, DropKeepsAckPending
  <2> QED
    BY <2>1, <2>2 DEF IInv, TypeOK
<1>2. CASE Next
  BY <1>2, ReceivePacketStep, ReceivePushDataStep, UselessPacketStep, PiggybackStep,
     TimeoutStep, TickStep DEF Next
<1> QED
  BY <1>1, <1>2

\* The clock never passes the event of the timer, and a base advance is no
\* older than the timer: so it is told in time.
LEMMA IInvSuffices ==
  ASSUME CoalescingAssumption, IInv
  PROVE  AcksNotForgotten
<1>0. EntryTypeOK /\ WindowTypeOK /\ TimerRuns /\ DropKeepsAckPending
  BY DEF IInv, TypeOK
<1>1. PendingAckHasTimer
  BY <1>0 DEF EntryTypeOK, TimerRuns, PendingAckHasTimer
<1>2. AckDelayBounded
  BY <1>0 DEF EntryTypeOK, WindowTypeOK, TimerRuns, AckDelayBounded, CoalescingAssumption
<1> QED
  BY <1>0, <1>1, <1>2 DEF AcksNotForgotten
-----------------------------------------------------------------------------
(* The theorems. *)

\* The inductive invariant of the coalescing entry holds for every threshold,
\* timeout, window width and number of packets.
THEOREM CoalescingInvariance ==
  ASSUME CoalescingAssumption
  PROVE  Spec => []IInv
<1>1. Init => IInv
  BY InitIInv
<1>2. IInv /\ [Next]_vars => IInv'
  BY NextIInv
<1> QED
  BY <1>1, <1>2, PTL DEF Spec

\* No interleaving of packets, ULP ACKs, piggybacked ACKs, NACKs and stale timer
\* events makes the entry forget an ACK it owes: its timer is queued, the
\* base is told within a timeout, and drops keep an ACK pending.
THEOREM OwedAcksAreSent ==
  ASSUME CoalescingAssumption
  PROVE  Spec => []AcksNotForgotten
<1>1. IInv => AcksNotForgotten
  BY IInvSuffices
<1> QED
  BY <1>1, CoalescingInvariance, PTL

=============================================================================
