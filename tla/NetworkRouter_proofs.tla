------------------------- MODULE NetworkRouter_proofs -------------------------
(* Proofs about NetworkRouter, for every set of ports, buffer sizes, alphas   *)
(* and packet sizes: the counters account for every cell, only an X-on frame  *)
(* lets a port sleep on work, and a pause has something inside to end it.     *)
EXTENDS NetworkRouter, FiniteSetTheorems, FunctionTheorems, TLAPS
-----------------------------------------------------------------------------
(* Sums over finite sets, counted one by one. *)

LEMMA OneToN ==
  ASSUME NEW n \in Nat
  PROVE  IsFiniteSet(1..n) /\ Cardinality(1..n) = n
<1>1. 1 \in Int /\ n \in Int
  OBVIOUS
<1> QED
  BY <1>1, FS_Interval

LEMMA TokensFinite ==
  ASSUME NEW f, NEW S, IsFiniteSet(S), \A x \in S : f[x] \in Nat
  PROVE  IsFiniteSet(Tokens(f, S)) /\ Tally(f, S) \in Nat
<1> DEFINE parts == {{x} \X (1..f[x]) : x \in S}
           g == [x \in S |-> {x} \X (1..f[x])]
<1>1. g \in Surjection(S, parts)
  BY DEF Surjection
<1>2. IsFiniteSet(parts)
  BY <1>1, FS_Surjection
<1>3. ASSUME NEW x \in S PROVE IsFiniteSet({x} \X (1..f[x]))
  <2>1. IsFiniteSet({x}) /\ IsFiniteSet(1..f[x])
    BY FS_Singleton, OneToN
  <2> QED
    BY <2>1, FS_Product
<1>4. \A T \in parts : IsFiniteSet(T)
  BY <1>3
<1>5. IsFiniteSet(UNION parts)
  BY <1>2, <1>4, FS_UNION
<1> QED
  BY <1>5, FS_CardinalityType DEF Tokens, Tally

LEMMA TallyRemove ==
  ASSUME NEW f, NEW S, IsFiniteSet(S), \A x \in S : f[x] \in Nat, NEW r \in S
  PROVE  Tally(f, S) = Tally(f, S \ {r}) + f[r] /\ Tally(f, S \ {r}) \in Nat
<1> DEFINE A == Tokens(f, S \ {r})
           B == {r} \X (1..f[r])
<1>1. Tokens(f, S) = A \cup B
  BY DEF Tokens
<1>2. A \cap B = {}
  BY DEF Tokens
<1>3. IsFiniteSet(S \ {r})
  BY FS_RemoveElement
<1>4. IsFiniteSet(A) /\ Cardinality(A) \in Nat
  BY <1>3, TokensFinite DEF Tally
<1>5. IsFiniteSet(B) /\ Cardinality(B) = f[r]
  <2>1. IsFiniteSet({r}) /\ IsFiniteSet(1..f[r]) /\ Cardinality({r}) = 1
        /\ Cardinality(1..f[r]) = f[r]
    BY FS_Singleton, OneToN
  <2> QED
    BY <2>1, FS_Product
<1>6. Cardinality(A \cup B) = Cardinality(A) + Cardinality(B) - 0
  <2> HIDE DEF A, B
  <2>1. Cardinality(A \cap B) = 0
    BY <1>2, FS_EmptySet
  <2> QED
    BY <1>4, <1>5, <2>1, FS_Union
<1> QED
  BY <1>1, <1>4, <1>5, <1>6 DEF Tally

LEMMA TallySame ==
  ASSUME NEW f, NEW g, NEW S, \A x \in S : f[x] = g[x]
  PROVE  Tally(f, S) = Tally(g, S)
<1>1. Tokens(f, S) = Tokens(g, S)
  BY DEF Tokens
<1> QED
  BY <1>1 DEF Tally

\* One element of the sum changes.
LEMMA TallyChange ==
  ASSUME NEW f, NEW g, NEW S, IsFiniteSet(S),
         \A x \in S : f[x] \in Nat /\ g[x] \in Nat,
         NEW r \in S, \A x \in S : x # r => g[x] = f[x]
  PROVE  Tally(g, S) + f[r] = Tally(f, S) + g[r]
<1>1. Tally(f, S) = Tally(f, S \ {r}) + f[r] /\ Tally(f, S \ {r}) \in Nat
  BY TallyRemove
<1>2. Tally(g, S) = Tally(g, S \ {r}) + g[r] /\ Tally(g, S \ {r}) \in Nat
  BY TallyRemove
<1>3. Tally(f, S \ {r}) = Tally(g, S \ {r})
  BY TallySame
<1> QED
  BY <1>1, <1>2, <1>3

LEMMA TallyZero ==
  ASSUME NEW f, NEW S, \A x \in S : f[x] = 0
  PROVE  Tally(f, S) = 0
<1>1. Tokens(f, S) = {}
  BY DEF Tokens
<1> QED
  BY <1>1, FS_EmptySet DEF Tally

\* The sum does not depend on how its elements are numbered.
LEMMA TallyShift ==
  ASSUME NEW n \in Nat, NEW f, NEW g, \A i \in 1..n : g[i] \in Nat /\ f[i + 1] = g[i]
  PROVE  Tally(f, 2..(n + 1)) = Tally(g, 1..n)
<1> DEFINE A == Tokens(g, 1..n)
           B == Tokens(f, 2..(n + 1))
           shift == [x \in A |-> <<x[1] + 1, x[2]>>]
<1>1. \A x : x \in A <=> \E i \in 1..n : \E c \in 1..g[i] : x = <<i, c>>
  BY DEF Tokens
<1>2. \A x : x \in B <=> \E i \in 1..n : \E c \in 1..g[i] : x = <<i + 1, c>>
  <2>1. \A x : x \in B <=> \E i \in 2..(n + 1) : \E c \in 1..f[i] : x = <<i, c>>
    BY DEF Tokens
  <2>2. \A i \in 2..(n + 1) : i - 1 \in 1..n /\ (i - 1) + 1 = i
    OBVIOUS
  <2>3. \A i \in 1..n : i + 1 \in 2..(n + 1)
    OBVIOUS
  <2>4. ASSUME NEW x, x \in B PROVE \E i \in 1..n : \E c \in 1..g[i] : x = <<i + 1, c>>
    <3>1. PICK i \in 2..(n + 1) : \E c \in 1..f[i] : x = <<i, c>>
      BY <2>1, <2>4
    <3>2. f[i] = g[i - 1]
      BY <2>2
    <3> QED
      BY <2>2, <3>1, <3>2
  <2>5. ASSUME NEW x, \E i \in 1..n : \E c \in 1..g[i] : x = <<i + 1, c>> PROVE x \in B
    <3> HIDE DEF B
    <3> QED
      BY <2>1, <2>3, <2>5
  <2> HIDE DEF B
  <2> QED
    BY <2>4, <2>5
<1> HIDE DEF A, B
<1>3. shift \in [A -> B]
  BY <1>1, <1>2
<1>4. \A x, y \in A : shift[x] = shift[y] => x = y
  <2> SUFFICES ASSUME NEW x \in A, NEW y \in A, shift[x] = shift[y] PROVE x = y
    OBVIOUS
  <2>1. PICK i \in 1..n : \E c \in 1..g[i] : x = <<i, c>>
    BY <1>1
  <2>2. PICK j \in 1..n : \E c \in 1..g[j] : y = <<j, c>>
    BY <1>1
  <2>3. i + 1 = j + 1 /\ x[2] = y[2]
    BY <2>1, <2>2
  <2> QED
    BY <2>1, <2>2, <2>3
<1>5. \A y \in B : \E x \in A : shift[x] = y
  <2> SUFFICES ASSUME NEW y \in B PROVE \E x \in A : shift[x] = y
    OBVIOUS
  <2>1. PICK i \in 1..n : \E c \in 1..g[i] : y = <<i + 1, c>>
    BY <1>2
  <2>2. PICK c \in 1..g[i] : y = <<i + 1, c>>
    BY <2>1
  <2>3. <<i, c>> \in A
    BY <1>1
  <2> QED
    BY <2>2, <2>3
<1>6. shift \in Bijection(A, B)
  BY <1>3, <1>4, <1>5 DEF Bijection, Injection, Surjection, IsInjective
<1>7. IsFiniteSet(A)
  <2>1. IsFiniteSet(1..n)
    BY OneToN
  <2> QED
    BY <2>1, TokensFinite DEF A
<1>8. Cardinality(A) = Cardinality(B)
  <2>1. ExistsBijection(A, B)
    BY <1>6 DEF ExistsBijection
  <2> QED
    BY <1>7, <2>1, FS_Bijection
<1> QED
  BY <1>8 DEF A, B, Tally
-----------------------------------------------------------------------------
(* What the tags say. *)

Fields == {"size", "min", "shared", "headroom"}
Amount(k, P, field) == IF k.in \in P THEN k[field] ELSE 0

LEMMA AmountNat ==
  ASSUME RouterAssumption, NEW k \in RoutedPackets, NEW P, NEW field \in Fields
  PROVE  Amount(k, P, field) \in Nat
<1>1. CellSizes \subseteq Nat
  BY DEF RouterAssumption
<1>2. k.size \in CellSizes /\ k.min \in Nat /\ k.shared \in Nat /\ k.headroom \in Nat
  BY DEF RoutedPackets
<1> QED
  BY <1>1, <1>2 DEF Amount, Fields

LEMMA AmountsAre ==
  ASSUME RouterAssumption, NEW s \in Seq(RoutedPackets), NEW P, NEW field \in Fields
  PROVE  /\ Len(s) \in Nat /\ IsFiniteSet(1..Len(s))
         /\ \A n \in 1..Len(s) : /\ Amounts(s, P, field)[n] = Amount(s[n], P, field)
                                /\ Amounts(s, P, field)[n] \in Nat
<1>1. Len(s) \in Nat /\ IsFiniteSet(1..Len(s))
  BY OneToN
<1>2. \A n \in 1..Len(s) : s[n] \in RoutedPackets
  OBVIOUS
<1>3. \A n \in 1..Len(s) : Amounts(s, P, field)[n] = Amount(s[n], P, field)
  BY DEF Amounts, Amount
<1> QED
  BY <1>1, <1>2, <1>3, AmountNat

LEMMA CellsNat ==
  ASSUME RouterAssumption, NEW s \in Seq(RoutedPackets), NEW P, NEW field \in Fields
  PROVE  Cells(s, P, field) \in Nat
BY AmountsAre, TokensFinite DEF Cells

LEMMA CellsEmpty ==
  ASSUME NEW P, NEW field
  PROVE  Cells(<<>>, P, field) = 0
<1>1. 1..Len(<<>>) = {}
  OBVIOUS
<1> QED
  BY <1>1, TallyZero DEF Cells

LEMMA CellsAppend ==
  ASSUME RouterAssumption, NEW s \in Seq(RoutedPackets), NEW k \in RoutedPackets,
         NEW P, NEW field \in Fields
  PROVE  Cells(Append(s, k), P, field) = Cells(s, P, field) + Amount(k, P, field)
<1> DEFINE t == Append(s, k)
           f == Amounts(t, P, field)
           g == Amounts(s, P, field)
           n == Len(s)
<1>1. /\ t \in Seq(RoutedPackets) /\ n \in Nat /\ Len(t) = n + 1 /\ t[n + 1] = k
      /\ \A i \in 1..n : t[i] = s[i]
  OBVIOUS
<1> HIDE DEF t
<1>2. /\ IsFiniteSet(1..Len(t)) /\ \A i \in 1..Len(t) : f[i] = Amount(t[i], P, field) /\ f[i] \in Nat
  BY <1>1, AmountsAre
<1>3. \A i \in 1..n : g[i] = Amount(s[i], P, field)
  BY AmountsAre
<1> HIDE DEF f, g, n
<1>4. n + 1 \in 1..Len(t) /\ (1..Len(t)) \ {n + 1} = 1..n /\ \A i \in 1..n : i \in 1..Len(t)
  BY <1>1
<1>5. Tally(f, 1..Len(t)) = Tally(f, 1..n) + f[n + 1]
  BY <1>2, <1>4, TallyRemove
<1>6. Tally(f, 1..n) = Tally(g, 1..n)
  BY <1>1, <1>2, <1>3, <1>4, TallySame
<1>7. f[n + 1] = Amount(k, P, field)
  BY <1>1, <1>2, <1>4
<1> QED
  BY <1>5, <1>6, <1>7 DEF Cells, f, g, n, t

LEMMA CellsTail ==
  ASSUME RouterAssumption, NEW s \in Seq(RoutedPackets), s # <<>>,
         NEW P, NEW field \in Fields
  PROVE  /\ Head(s) \in RoutedPackets /\ Tail(s) \in Seq(RoutedPackets)
         /\ Cells(s, P, field) = Cells(Tail(s), P, field) + Amount(Head(s), P, field)
<1> DEFINE t == Tail(s)
           f == Amounts(s, P, field)
           g == Amounts(t, P, field)
           n == Len(t)
<1>1. /\ t \in Seq(RoutedPackets) /\ n \in Nat /\ Len(s) = n + 1 /\ s[1] = Head(s)
      /\ Head(s) \in RoutedPackets /\ \A i \in 1..n : t[i] = s[i + 1]
  OBVIOUS
<1> HIDE DEF t
<1>2. /\ IsFiniteSet(1..Len(s)) /\ \A i \in 1..Len(s) : f[i] = Amount(s[i], P, field) /\ f[i] \in Nat
  BY AmountsAre
<1>3. \A i \in 1..n : g[i] = Amount(t[i], P, field) /\ g[i] \in Nat
  BY <1>1, AmountsAre
<1> HIDE DEF f, g, n
<1>4. 1 \in 1..Len(s) /\ (1..Len(s)) \ {1} = 2..(n + 1) /\ \A i \in 1..n : i + 1 \in 1..Len(s)
  BY <1>1
<1>5. Tally(f, 1..Len(s)) = Tally(f, 2..(n + 1)) + f[1]
  <2>1. Tally(f, 1..Len(s)) = Tally(f, (1..Len(s)) \ {1}) + f[1]
    <3> DEFINE S == 1..Len(s)
    <3>1. IsFiniteSet(S) /\ (\A i \in S : f[i] \in Nat) /\ 1 \in S
      BY <1>2, <1>4
    <3> HIDE DEF S
    <3>2. Tally(f, S) = Tally(f, S \ {1}) + f[1]
      BY <3>1, TallyRemove
    <3> QED
      BY <3>2 DEF S
  <2> QED
    BY <1>4, <2>1
<1>6. Tally(f, 2..(n + 1)) = Tally(g, 1..n)
  <2>1. \A i \in 1..n : f[i + 1] = g[i] /\ g[i] \in Nat
    BY <1>1, <1>2, <1>3, <1>4
  <2> QED
    BY <1>1, <2>1, TallyShift
<1>7. f[1] = Amount(Head(s), P, field)
  BY <1>1, <1>2, <1>4
<1>8. Cells(s, P, field) = Cells(t, P, field) + Amount(Head(s), P, field)
  BY <1>5, <1>6, <1>7 DEF Cells, f, g, n
<1> QED
  BY <1>1, <1>8 DEF t

ByPort(queue, P, field) == [q \in Ports |-> Cells(queue[q], P, field)]

LEMMA ByPortChange ==
  ASSUME NEW a, NEW b, NEW P, NEW field, IsFiniteSet(Ports), NEW p \in Ports,
         \A q \in Ports : q # p => ByPort(b, P, field)[q] = ByPort(a, P, field)[q],
         \A q \in Ports : ByPort(a, P, field)[q] \in Nat /\ ByPort(b, P, field)[q] \in Nat
  PROVE  Tally(ByPort(b, P, field), Ports) + ByPort(a, P, field)[p]
           = Tally(ByPort(a, P, field), Ports) + ByPort(b, P, field)[p]
BY TallyChange

\* One queue changes.
OneQueue(a, b, p) ==
  /\ \A q \in Ports : a[q] \in Seq(RoutedPackets) /\ b[q] \in Seq(RoutedPackets)
  /\ \A q \in Ports : q # p => b[q] = a[q]

LEMMA InQueuesChange ==
  ASSUME RouterAssumption, NEW a, NEW b, NEW p \in Ports, OneQueue(a, b, p),
         NEW P, NEW field \in Fields
  PROVE  /\ InQueues(a, P, field) \in Nat /\ InQueues(b, P, field) \in Nat
         /\ InQueues(b, P, field) + Cells(a[p], P, field)
              = InQueues(a, P, field) + Cells(b[p], P, field)
<1>1. IsFiniteSet(Ports)
  BY DEF RouterAssumption
<1>2. \A q \in Ports : Cells(a[q], P, field) \in Nat /\ Cells(b[q], P, field) \in Nat
  BY CellsNat DEF OneQueue
<1>3. \A q \in Ports : /\ ByPort(a, P, field)[q] = Cells(a[q], P, field)
                       /\ ByPort(b, P, field)[q] = Cells(b[q], P, field)
  BY DEF ByPort
<1>4. \A q \in Ports : q # p => ByPort(b, P, field)[q] = ByPort(a, P, field)[q]
  BY <1>3 DEF OneQueue
<1>5. \A q \in Ports : ByPort(a, P, field)[q] \in Nat /\ ByPort(b, P, field)[q] \in Nat
  BY <1>2, <1>3
<1>6. Tally(ByPort(b, P, field), Ports) + ByPort(a, P, field)[p]
        = Tally(ByPort(a, P, field), Ports) + ByPort(b, P, field)[p]
  BY <1>1, <1>4, <1>5, ByPortChange
<1>7. Tally(ByPort(a, P, field), Ports) \in Nat /\ Tally(ByPort(b, P, field), Ports) \in Nat
  BY <1>1, <1>5, TokensFinite
<1>8. /\ InQueues(a, P, field) = Tally(ByPort(a, P, field), Ports)
      /\ InQueues(b, P, field) = Tally(ByPort(b, P, field), Ports)
  BY DEF InQueues, ByPort
<1> QED
  BY <1>3, <1>6, <1>7, <1>8
-----------------------------------------------------------------------------
(* What is booked when a packet comes in, is routed and goes out. *)

DataTypeOK ==
  /\ routing \in Seq(RoutedPackets) /\ discarded \in Seq(RoutedPackets)
  /\ queues \in [Ports -> Seq(RoutedPackets)]
  /\ ingressFree \in Int /\ egressFree \in Int
  /\ ingressOcc \in [Ports -> Int] /\ minOcc \in [Ports -> Int]
  /\ headroomOcc \in [Ports -> Int] /\ egressOcc \in [Ports -> Int]

FlagsTypeOK ==
  /\ triggered \in [Ports -> BOOLEAN] /\ sendPause \in [Ports -> BOOLEAN]
  /\ paused \in [Ports -> BOOLEAN] /\ refreshment \in [Ports -> BOOLEAN]
  /\ portActive \in [Ports -> BOOLEAN] /\ output \in [Ports -> BOOLEAN]
  /\ setPaused \in [Ports -> {"pause", "xon", None}]
  /\ pfcQueue \in [Ports -> {"pause", "xon", None}]
  /\ entered \in 0..MaxEntered /\ frames \in 0..MaxFrames /\ stopped \in BOOLEAN

LEMMA TypeParts == RouterTypeOK <=> DataTypeOK /\ FlagsTypeOK
BY DEF RouterTypeOK, DataTypeOK, FlagsTypeOK

LEMMA TypePartsNext == RouterTypeOK' <=> DataTypeOK' /\ FlagsTypeOK'
BY DEF RouterTypeOK, DataTypeOK, FlagsTypeOK

LEMMA BookedNat ==
  ASSUME RouterAssumption, DataTypeOK, NEW P, NEW field \in Fields
  PROVE  /\ Booked(P, field) \in Nat
         /\ Cells(routing, P, field) \in Nat /\ InQueues(queues, P, field) \in Nat
         /\ Cells(discarded, P, field) \in Nat
         /\ \A q \in Ports : Cells(queues[q], P, field) \in Nat
<1>1. Cells(routing, P, field) \in Nat /\ Cells(discarded, P, field) \in Nat
  BY CellsNat DEF DataTypeOK
<1>2. \A q \in Ports : Cells(queues[q], P, field) \in Nat
  BY CellsNat DEF DataTypeOK
<1>3. InQueues(queues, P, field) \in Nat
  <2> DEFINE f == [q \in Ports |-> Cells(queues[q], P, field)]
  <2>1. IsFiniteSet(Ports) /\ \A q \in Ports : f[q] \in Nat
    BY <1>2 DEF RouterAssumption
  <2> HIDE DEF f
  <2>2. Tally(f, Ports) \in Nat
    BY <2>1, TokensFinite
  <2> QED
    BY <2>2 DEF InQueues, f
<1> QED
  BY <1>1, <1>2, <1>3 DEF Booked, Inside

\* One queue grows by n.
LEMMA InQueuesGrow ==
  ASSUME RouterAssumption, NEW a, NEW b, NEW p \in Ports, OneQueue(a, b, p),
         NEW P, NEW field \in Fields,
         NEW n \in Nat, Cells(b[p], P, field) = Cells(a[p], P, field) + n
  PROVE  /\ InQueues(a, P, field) \in Nat
         /\ InQueues(b, P, field) = InQueues(a, P, field) + n
<1>1. /\ InQueues(a, P, field) \in Nat /\ InQueues(b, P, field) \in Nat
      /\ InQueues(b, P, field) + Cells(a[p], P, field)
           = InQueues(a, P, field) + Cells(b[p], P, field)
  BY InQueuesChange
<1>2. Cells(a[p], P, field) \in Nat
  BY CellsNat DEF OneQueue
<1> QED
  BY <1>1, <1>2

\* A packet is appended to the routing pipeline.
Enters(k) == routing' = Append(routing, k) /\ UNCHANGED <<queues, discarded>>

LEMMA BookedEnters ==
  ASSUME RouterAssumption, DataTypeOK, NEW k \in RoutedPackets, Enters(k),
         NEW CONSTANT P, NEW CONSTANT field \in Fields
  PROVE  Booked(P, field)' = Booked(P, field) + Amount(k, P, field)
<1>1. routing' = Append(routing, k) /\ queues' = queues /\ discarded' = discarded
  BY DEF Enters
<1>2. Cells(routing', P, field) = Cells(routing, P, field) + Amount(k, P, field)
  BY <1>1, CellsAppend DEF DataTypeOK
<1>3. /\ Cells(routing, P, field) \in Nat /\ InQueues(queues, P, field) \in Nat
      /\ Cells(discarded, P, field) \in Nat
  BY BookedNat
<1>4. Amount(k, P, field) \in Nat
  BY AmountNat
<1> QED
  BY <1>1, <1>2, <1>3, <1>4 DEF Booked, Inside

\* The head of the pipeline is queued, or deleted with its cells still counted.
HeadQueued ==
  /\ routing # <<>> /\ routing' = Tail(routing) /\ discarded' = discarded
  /\ Head(routing).to \in Ports
  /\ queues' = [queues EXCEPT ![Head(routing).to] = Append(@, Head(routing))]

HeadDeleted ==
  /\ routing # <<>> /\ routing' = Tail(routing) /\ queues' = queues
  /\ discarded' = Append(discarded, Head(routing))

LEMMA PipelineShorter ==
  ASSUME RouterAssumption, DataTypeOK, HeadQueued \/ HeadDeleted,
         NEW CONSTANT P, NEW CONSTANT field \in Fields
  PROVE  /\ Head(routing) \in RoutedPackets /\ routing' \in Seq(RoutedPackets)
         /\ Cells(routing', P, field) \in Nat /\ Amount(Head(routing), P, field) \in Nat
         /\ Cells(routing, P, field)
              = Cells(routing', P, field) + Amount(Head(routing), P, field)
<1>1. routing # <<>> /\ routing' = Tail(routing) /\ routing \in Seq(RoutedPackets)
  BY DEF HeadQueued, HeadDeleted, DataTypeOK
<1>2. /\ Head(routing) \in RoutedPackets /\ routing' \in Seq(RoutedPackets)
      /\ Cells(routing, P, field)
           = Cells(routing', P, field) + Amount(Head(routing), P, field)
  BY <1>1, CellsTail
<1> QED
  BY <1>2, AmountNat, CellsNat

LEMMA BookedQueued ==
  ASSUME RouterAssumption, DataTypeOK, HeadQueued,
         NEW CONSTANT P, NEW CONSTANT field \in Fields
  PROVE  Booked(P, field)' = Booked(P, field)
<1> DEFINE k == Head(routing)
           n == Amount(k, P, field)
<1>1. /\ k \in RoutedPackets /\ Cells(routing', P, field) \in Nat /\ n \in Nat
      /\ Cells(routing, P, field) = Cells(routing', P, field) + n
  BY PipelineShorter
<1>2. k.to \in Ports /\ discarded' = discarded
  BY DEF HeadQueued
<1>3. \A q \in Ports : queues[q] \in Seq(RoutedPackets)
  BY DEF DataTypeOK
<1>4. /\ queues'[k.to] = Append(queues[k.to], k)
      /\ \A q \in Ports : q # k.to => queues'[q] = queues[q]
  BY <1>2 DEF HeadQueued, DataTypeOK
<1>5. Append(queues[k.to], k) \in Seq(RoutedPackets)
  BY <1>1, <1>2, <1>3
<1>6. OneQueue(queues, queues', k.to)
  BY <1>3, <1>4, <1>5 DEF OneQueue
<1>7. Cells(queues'[k.to], P, field) = Cells(queues[k.to], P, field) + n
  BY <1>1, <1>2, <1>3, <1>4, CellsAppend
<1> HIDE DEF n, k
<1>8. /\ InQueues(queues, P, field) \in Nat
      /\ InQueues(queues', P, field) = InQueues(queues, P, field) + n
  BY <1>1, <1>2, <1>6, <1>7, InQueuesGrow
<1>9. Cells(discarded, P, field) \in Nat
  BY BookedNat
<1> QED
  BY <1>1, <1>2, <1>8, <1>9 DEF Booked, Inside

LEMMA BookedDeleted ==
  ASSUME RouterAssumption, DataTypeOK, HeadDeleted,
         NEW CONSTANT P, NEW CONSTANT field \in Fields
  PROVE  Booked(P, field)' = Booked(P, field)
<1> DEFINE n == Amount(Head(routing), P, field)
<1>1. /\ Head(routing) \in RoutedPackets /\ Cells(routing', P, field) \in Nat /\ n \in Nat
      /\ Cells(routing, P, field) = Cells(routing', P, field) + n
  BY PipelineShorter
<1>2. discarded' = Append(discarded, Head(routing)) /\ queues' = queues
  BY DEF HeadDeleted
<1>3. Cells(discarded', P, field) = Cells(discarded, P, field) + n
  BY <1>1, <1>2, CellsAppend DEF DataTypeOK
<1>4. Cells(discarded, P, field) \in Nat /\ InQueues(queues, P, field) \in Nat
  BY BookedNat
<1> HIDE DEF n
<1> QED
  BY <1>1, <1>2, <1>3, <1>4 DEF Booked, Inside

\* The head of a queue goes out.
HeadLeaves(p) ==
  /\ queues[p] # <<>> /\ queues' = [queues EXCEPT ![p] = Tail(@)]
  /\ UNCHANGED <<routing, discarded>>

LEMMA BookedLeaves ==
  ASSUME RouterAssumption, DataTypeOK, NEW p \in Ports, HeadLeaves(p),
         NEW CONSTANT P, NEW CONSTANT field \in Fields
  PROVE  /\ Booked(P, field) = Booked(P, field)' + Amount(Head(queues[p]), P, field)
         /\ Booked(P, field)' \in Nat /\ Amount(Head(queues[p]), P, field) \in Nat
         /\ Cells(queues[p], P, field)
              = Cells(queues'[p], P, field) + Amount(Head(queues[p]), P, field)
         /\ Head(queues[p]) \in RoutedPackets /\ queues'[p] \in Seq(RoutedPackets)
<1> DEFINE n == Amount(Head(queues[p]), P, field)
<1>1. \A q \in Ports : queues[q] \in Seq(RoutedPackets)
  BY DEF DataTypeOK
<1>2. /\ queues[p] # <<>> /\ queues'[p] = Tail(queues[p])
      /\ \A q \in Ports : q # p => queues'[q] = queues[q]
      /\ routing' = routing /\ discarded' = discarded
  BY DEF HeadLeaves, DataTypeOK
<1>3. /\ Head(queues[p]) \in RoutedPackets /\ queues'[p] \in Seq(RoutedPackets)
      /\ Cells(queues[p], P, field) = Cells(queues'[p], P, field) + n
  BY <1>1, <1>2, CellsTail
<1>4. n \in Nat
  BY <1>3, AmountNat
<1>5. OneQueue(queues', queues, p)
  BY <1>1, <1>2, <1>3 DEF OneQueue
<1> HIDE DEF n
<1>6. /\ InQueues(queues', P, field) \in Nat
      /\ InQueues(queues, P, field) = InQueues(queues', P, field) + n
  BY <1>3, <1>4, <1>5, InQueuesGrow
<1>7. Cells(routing, P, field) \in Nat /\ Cells(discarded, P, field) \in Nat
  BY BookedNat
<1>8. Booked(P, field) = Booked(P, field)' + n /\ Booked(P, field)' \in Nat
  BY <1>2, <1>4, <1>6, <1>7 DEF Booked, Inside
<1> QED
  BY <1>3, <1>4, <1>8 DEF n
-----------------------------------------------------------------------------
(* The counters follow what is booked. *)

LEMMA FieldsAre ==
  ASSUME RouterAssumption, NEW k \in RoutedPackets
  PROVE  /\ k.in \in Ports /\ k.size \in Nat \ {0} /\ k.size <= Headroom
         /\ k.min \in Nat /\ k.shared \in Nat /\ k.headroom \in Nat
<1>1. CellSizes \subseteq 1..Headroom /\ Headroom \in Nat
  BY DEF RouterAssumption
<1>2. /\ k.in \in Ports /\ k.size \in CellSizes
      /\ k.min \in Nat /\ k.shared \in Nat /\ k.headroom \in Nat
  BY DEF RoutedPackets
<1>3. k.size \in 1..Headroom
  BY <1>1, <1>2
<1> QED
  BY <1>1, <1>2, <1>3

\* The ingress counters go up by what the tag says; the guarantee takes the rest.
CountedIn(k) ==
  /\ ingressFree' = ingressFree - k.shared
  /\ ingressOcc' = [ingressOcc EXCEPT ![k.in] = @ + k.size]
  /\ minOcc' = [minOcc EXCEPT ![k.in] = @ + k.size - k.shared - k.headroom]
  /\ headroomOcc' = [headroomOcc EXCEPT ![k.in] = @ + k.headroom]

LEMMA IngressEnters ==
  ASSUME RouterAssumption, DataTypeOK, IngressConserved, NEW k \in RoutedPackets,
         Enters(k), CountedIn(k)
  PROVE  IngressConserved'
<1> DEFINE B(p, field) == Booked({p}, field)
<1>1. \A field \in Fields : \A P : Booked(P, field)' = Booked(P, field) + Amount(k, P, field)
  BY BookedEnters
<1>2. k.in \in Ports /\ k.size \in Nat /\ k.shared \in Nat /\ k.headroom \in Nat
  BY FieldsAre
<1>3. \A field \in Fields : \A P : Booked(P, field) \in Nat
  BY BookedNat
<1>4. ingressFree' = IngressPool - Booked(Ports, "shared")'
  <2>1. Booked(Ports, "shared")' = Booked(Ports, "shared") + k.shared
    BY <1>1, <1>2 DEF Amount, Fields
  <2>2. ingressFree = IngressPool - Booked(Ports, "shared") /\ IngressPool \in Nat
    BY DEF IngressConserved, RouterAssumption
  <2>3. Booked(Ports, "shared") \in Nat
    BY <1>3 DEF Fields
  <2>4. ingressFree' = ingressFree - k.shared
    BY DEF CountedIn
  <2> QED
    BY <1>2, <2>1, <2>2, <2>3, <2>4
<1>5. ASSUME NEW p \in Ports
      PROVE  /\ ingressOcc'[p] = Booked({p}, "size")'
             /\ headroomOcc'[p] = Booked({p}, "headroom")'
             /\ minOcc'[p] = Booked({p}, "size")' - Booked({p}, "shared")'
                               - Booked({p}, "headroom")'
  <2>1. /\ ingressOcc[p] = Booked({p}, "size") /\ headroomOcc[p] = Booked({p}, "headroom")
        /\ minOcc[p] = Booked({p}, "size") - Booked({p}, "shared") - Booked({p}, "headroom")
    BY DEF IngressConserved
  <2>2. /\ Booked({p}, "size") \in Nat /\ Booked({p}, "shared") \in Nat
        /\ Booked({p}, "headroom") \in Nat
    BY <1>3 DEF Fields
  <2>3. CASE k.in = p
    <3>1. /\ Booked({p}, "size")' = Booked({p}, "size") + k.size
          /\ Booked({p}, "shared")' = Booked({p}, "shared") + k.shared
          /\ Booked({p}, "headroom")' = Booked({p}, "headroom") + k.headroom
      BY <1>1, <2>3 DEF Amount, Fields
    <3>2. /\ ingressOcc'[p] = ingressOcc[p] + k.size /\ headroomOcc'[p] = headroomOcc[p] + k.headroom
          /\ minOcc'[p] = minOcc[p] + k.size - k.shared - k.headroom
      BY <2>3 DEF CountedIn, DataTypeOK
    <3> QED
      BY <1>2, <2>1, <2>2, <3>1, <3>2
  <2>4. CASE k.in # p
    <3>1. /\ Booked({p}, "size")' = Booked({p}, "size") + 0
          /\ Booked({p}, "shared")' = Booked({p}, "shared") + 0
          /\ Booked({p}, "headroom")' = Booked({p}, "headroom") + 0
      BY <1>1, <2>4 DEF Amount, Fields
    <3>2. ingressOcc'[p] = ingressOcc[p] /\ headroomOcc'[p] = headroomOcc[p] /\ minOcc'[p] = minOcc[p]
      BY <2>4 DEF CountedIn, DataTypeOK
    <3> QED
      BY <2>1, <2>2, <3>1, <3>2
  <2> QED
    BY <2>3, <2>4
<1> QED
  BY <1>4, <1>5 DEF IngressConserved

\* The ingress counters go down by what the tag says, all of the packet.
CountedOut(k) ==
  /\ k.size = k.min + k.shared + k.headroom
  /\ ingressFree' = ingressFree + k.shared
  /\ ingressOcc' = [ingressOcc EXCEPT ![k.in] = @ - k.size]
  /\ minOcc' = [minOcc EXCEPT ![k.in] = @ - k.min]
  /\ headroomOcc' = [headroomOcc EXCEPT ![k.in] = @ - k.headroom]

LEMMA IngressLeaves ==
  ASSUME RouterAssumption, DataTypeOK, IngressConserved, NEW q \in Ports,
         HeadLeaves(q), CountedOut(Head(queues[q]))
  PROVE  IngressConserved'
<1> DEFINE k == Head(queues[q])
<1>1. /\ \A field \in Fields : \A P : /\ Booked(P, field) = Booked(P, field)' + Amount(k, P, field)
                                    /\ Booked(P, field)' \in Nat
      /\ k \in RoutedPackets
  <2>1. \A field \in Fields : \A P : /\ Booked(P, field) = Booked(P, field)' + Amount(k, P, field)
                                    /\ Booked(P, field)' \in Nat
    BY BookedLeaves
  <2>2. k \in RoutedPackets
    BY BookedLeaves DEF Fields
  <2> QED
    BY <2>1, <2>2
<1>2. CountedOut(k)
  OBVIOUS
<1> HIDE DEF k
<1>3. /\ k.in \in Ports /\ k.size \in Nat /\ k.shared \in Nat /\ k.headroom \in Nat /\ k.min \in Nat
      /\ k.size = k.min + k.shared + k.headroom
  BY <1>1, <1>2, FieldsAre DEF CountedOut
<1>4. ingressFree' = IngressPool - Booked(Ports, "shared")'
  <2>1. /\ Booked(Ports, "shared") = Booked(Ports, "shared")' + k.shared
        /\ Booked(Ports, "shared")' \in Nat
    BY <1>1, <1>3 DEF Amount, Fields
  <2>2. ingressFree = IngressPool - Booked(Ports, "shared") /\ IngressPool \in Nat
    BY DEF IngressConserved, RouterAssumption
  <2>3. ingressFree' = ingressFree + k.shared
    BY <1>2 DEF CountedOut
  <2> QED
    BY <1>3, <2>1, <2>2, <2>3
<1>5. ASSUME NEW p \in Ports
      PROVE  /\ ingressOcc'[p] = Booked({p}, "size")'
             /\ headroomOcc'[p] = Booked({p}, "headroom")'
             /\ minOcc'[p] = Booked({p}, "size")' - Booked({p}, "shared")'
                               - Booked({p}, "headroom")'
  <2>1. /\ ingressOcc[p] = Booked({p}, "size") /\ headroomOcc[p] = Booked({p}, "headroom")
        /\ minOcc[p] = Booked({p}, "size") - Booked({p}, "shared") - Booked({p}, "headroom")
    BY DEF IngressConserved
  <2>2. /\ Booked({p}, "size")' \in Nat /\ Booked({p}, "shared")' \in Nat
        /\ Booked({p}, "headroom")' \in Nat
    BY <1>1 DEF Fields
  <2>3. CASE k.in = p
    <3>1. /\ Booked({p}, "size") = Booked({p}, "size")' + k.size
          /\ Booked({p}, "shared") = Booked({p}, "shared")' + k.shared
          /\ Booked({p}, "headroom") = Booked({p}, "headroom")' + k.headroom
      BY <1>1, <2>3 DEF Amount, Fields
    <3>2. /\ ingressOcc'[p] = ingressOcc[p] - k.size /\ headroomOcc'[p] = headroomOcc[p] - k.headroom
          /\ minOcc'[p] = minOcc[p] - k.min
      BY <1>2, <2>3 DEF CountedOut, DataTypeOK
    <3> QED
      BY <1>3, <2>1, <2>2, <3>1, <3>2
  <2>4. CASE k.in # p
    <3>1. /\ Booked({p}, "size") = Booked({p}, "size")' + 0
          /\ Booked({p}, "shared") = Booked({p}, "shared")' + 0
          /\ Booked({p}, "headroom") = Booked({p}, "headroom")' + 0
      BY <1>1, <2>4 DEF Amount, Fields
    <3>2. ingressOcc'[p] = ingressOcc[p] /\ headroomOcc'[p] = headroomOcc[p] /\ minOcc'[p] = minOcc[p]
      BY <1>2, <2>4 DEF CountedOut, DataTypeOK
    <3> QED
      BY <2>1, <2>2, <3>1, <3>2
  <2> QED
    BY <2>3, <2>4
<1> QED
  BY <1>4, <1>5 DEF IngressConserved

\* What is booked stays, and so do the counters.
LEMMA IngressStays ==
  ASSUME IngressConserved, UNCHANGED mmu,
         \A field \in Fields : \A P : Booked(P, field)' = Booked(P, field)
  PROVE  IngressConserved'
<1>1. /\ ingressFree' = ingressFree /\ ingressOcc' = ingressOcc /\ minOcc' = minOcc
      /\ headroomOcc' = headroomOcc
  BY DEF mmu
<1>2. \A P : /\ Booked(P, "size")' = Booked(P, "size") /\ Booked(P, "shared")' = Booked(P, "shared")
            /\ Booked(P, "headroom")' = Booked(P, "headroom")
  BY DEF Fields
<1> QED
  BY <1>1, <1>2 DEF IngressConserved

EgressMoves(p, n) ==
  egressOcc' = [egressOcc EXCEPT ![p] = @ + n] /\ egressFree' = egressFree - n

\* The egress counters follow one queue.
LEMMA EgressFollows ==
  ASSUME RouterAssumption, DataTypeOK, EgressConserved, NEW p \in Ports,
         OneQueue(queues, queues', p), NEW n \in Int,
         Cells(queues'[p], Ports, "size") = Cells(queues[p], Ports, "size") + n,
         EgressMoves(p, n)
  PROVE  EgressConserved' /\ egressOcc' \in [Ports -> Int] /\ egressFree' \in Int
<1>1. /\ \A q \in Ports : queues[q] \in Seq(RoutedPackets) /\ queues'[q] \in Seq(RoutedPackets)
      /\ \A q \in Ports : q # p => queues'[q] = queues[q]
  BY DEF OneQueue
<1>2. \A q \in Ports : /\ Cells(queues[q], Ports, "size") \in Nat
                       /\ Cells(queues'[q], Ports, "size") \in Nat
  BY <1>1, CellsNat DEF Fields
<1>3. /\ egressOcc'[p] = egressOcc[p] + n /\ \A q \in Ports : q # p => egressOcc'[q] = egressOcc[q]
      /\ egressOcc' \in [Ports -> Int] /\ egressFree' = egressFree - n
      /\ egressFree' \in Int
  BY DEF DataTypeOK, EgressMoves
<1>4. \A q \in Ports : egressOcc[q] = Cells(queues[q], Ports, "size")
  BY DEF EgressConserved
<1>5. \A q \in Ports : egressOcc'[q] = Cells(queues'[q], Ports, "size")
  BY <1>1, <1>3, <1>4
<1>6. \A q \in Ports : egressOcc[q] \in Nat /\ egressOcc'[q] \in Nat
  BY <1>2, <1>4, <1>5
<1>7. IsFiniteSet(Ports) /\ EgressPool \in Nat
  BY DEF RouterAssumption
<1>8. Tally(egressOcc', Ports) + egressOcc[p] = Tally(egressOcc, Ports) + egressOcc'[p]
  <2>1. \A q \in Ports : q # p => egressOcc'[q] = egressOcc[q]
    BY <1>3
  <2> QED
    BY <1>6, <1>7, <2>1, TallyChange
<1>9. Tally(egressOcc', Ports) \in Nat /\ Tally(egressOcc, Ports) \in Nat
  BY <1>6, <1>7, TokensFinite
<1>10. egressFree = EgressPool - Tally(egressOcc, Ports)
  BY DEF EgressConserved
<1>11. egressFree' = EgressPool - Tally(egressOcc', Ports)
  BY <1>3, <1>6, <1>7, <1>8, <1>9, <1>10
<1> QED
  BY <1>3, <1>5, <1>11 DEF EgressConserved
-----------------------------------------------------------------------------
(* The flags keep their types. *)

LEMMA TransmitFlags ==
  ASSUME FlagsTypeOK, NEW p \in Ports, Transmit(p), UNCHANGED <<setPaused, paused, inputs>>,
         refreshment' \in [Ports -> BOOLEAN]
  PROVE  FlagsTypeOK'
<1> USE DEF FlagsTypeOK, inputs, None
<1>1. CASE pfcQueue[p] # None
  BY <1>1 DEF Transmit
<1>2. CASE pfcQueue[p] = None /\ CanTransmit(p)
  <2> DEFINE k == Head(queues[p])
             woken == IF Pfc /\ PauseOver(k) /\ Xon THEN {p, k.in} ELSE {p}
  <2>1. /\ DequeuedPacket(p, k)
        /\ portActive' = [q \in Ports |-> portActive[q] \/ q \in woken]
        /\ output' = [q \in Ports |-> output[q] \/ q = p \/ (q \in woken /\ ~portActive[q])]
    BY <1>2 DEF Transmit
  <2>2. stopped' \in BOOLEAN
    BY <2>1 DEF DequeuedPacket, IngressAccountingRelease
  <2>3. /\ triggered' \in [Ports -> BOOLEAN] /\ sendPause' \in [Ports -> BOOLEAN]
        /\ pfcQueue' \in [Ports -> {"pause", "xon", None}]
    BY <2>1 DEF DequeuedPacket, DisablePfcSending, sending
  <2>4. portActive' \in [Ports -> BOOLEAN] /\ output' \in [Ports -> BOOLEAN]
    <3> HIDE DEF woken
    <3> QED
      BY <2>1
  <2> QED
    BY <2>2, <2>3, <2>4
<1>3. CASE pfcQueue[p] = None /\ ~CanTransmit(p)
  BY <1>3 DEF Transmit, sending
<1> QED
  BY <1>1, <1>2, <1>3

LEMMA FlagsStep ==
  ASSUME RouterAssumption, FlagsTypeOK, RouterNext
  PROVE  FlagsTypeOK'
<1> USE DEF FlagsTypeOK, None
<1>1. CASE RoutePacket
  <2>0. UNCHANGED <<pfcPauses, sending, inputs>>
    BY <1>1 DEF RoutePacket
  <2>1. stopped' \in BOOLEAN
    <3>1. Pfc \in BOOLEAN
      BY DEF RouterAssumption
    <3>2. \/ stopped' = stopped \/ stopped' = Pfc
          \/ stopped' = (egressFree < Head(routing).size)
      BY <1>1 DEF RoutePacket
    <3>3. CASE stopped' = stopped
      BY <3>3
    <3>4. CASE stopped' = Pfc
      BY <3>1, <3>4
    <3>5. CASE stopped' = (egressFree < Head(routing).size)
      BY <3>5
    <3> QED
      BY <3>2, <3>3, <3>4, <3>5
  <2>2. portActive' \in [Ports -> BOOLEAN] /\ output' \in [Ports -> BOOLEAN]
    BY <1>1 DEF RoutePacket, lines, Wake
  <2> QED
    BY <2>0, <2>1, <2>2 DEF pfcPauses, sending, inputs
<1>2. ASSUME NEW p \in Ports, ScheduleOutput(p) PROVE FlagsTypeOK'
  BY <1>2, TransmitFlags DEF ScheduleOutput, pfcPauses
<1>3. ASSUME NEW p \in Ports, SetPfcPaused(p) PROVE FlagsTypeOK'
  BY <1>3 DEF SetPfcPaused, sending, lines, inputs
<1>4. ASSUME NEW p \in Ports, PauseEnds(p) PROVE FlagsTypeOK'
  BY <1>4 DEF PauseEnds, sending, lines, inputs
<1>5. ASSUME NEW p \in Ports, ResumeOutput(p) PROVE FlagsTypeOK'
  <2>1. /\ refreshment' \in [Ports -> BOOLEAN] /\ UNCHANGED <<setPaused, paused, inputs>>
        /\ IF portActive[p] THEN UNCHANGED <<queues, mmu, egress, sending, lines, stopped>>
           ELSE Transmit(p)
    BY <1>5 DEF ResumeOutput
  <2>2. CASE portActive[p]
    BY <2>1, <2>2 DEF inputs, sending, lines
  <2>3. CASE ~portActive[p]
    BY <2>1, <2>3, TransmitFlags
  <2> QED
    BY <2>2, <2>3
<1>6. ASSUME NEW p \in Ports, PfcPauseSend(p) PROVE FlagsTypeOK'
  BY <1>6 DEF PfcPauseSend, SendPfc, GeneratePfc, Wake, pfcPauses, lines, inputs
<1>7. ASSUME NEW p \in Ports, ReceivePacket(p) PROVE FlagsTypeOK'
  <2>1. PICK size \in CellSizes, to \in Ports \cup {NoRoute} : ReceivedData(p, size, to)
    BY <1>7 DEF ReceivePacket
  <2>2. UNCHANGED <<pfcPauses, frames>> /\ entered' = entered + 1 /\ entered < MaxEntered
    BY <1>7 DEF ReceivePacket
  <2>3. entered' \in 0..MaxEntered
    BY <2>2 DEF RouterAssumption
  <2>4. stopped' \in BOOLEAN
    BY <2>1 DEF ReceivedData
  <2>5. /\ triggered' \in [Ports -> BOOLEAN] /\ sendPause' \in [Ports -> BOOLEAN]
        /\ pfcQueue' \in [Ports -> {"pause", "xon", None}]
        /\ portActive' \in [Ports -> BOOLEAN] /\ output' \in [Ports -> BOOLEAN]
    <3>1. EnablePfcSending(p) \/ UNCHANGED <<sending, lines>>
      BY <2>1 DEF ReceivedData
    <3>2. CASE EnablePfcSending(p)
      BY <3>2 DEF EnablePfcSending, SendPfc, GeneratePfc, Wake
    <3>3. CASE UNCHANGED <<sending, lines>>
      BY <3>3 DEF sending, lines
    <3> QED
      BY <3>1, <3>2, <3>3
  <2> QED
    BY <2>2, <2>3, <2>4, <2>5 DEF pfcPauses
<1>8. ASSUME NEW p \in Ports, ReceivedPfc(p) PROVE FlagsTypeOK'
  <2>1. setPaused' \in [Ports -> {"pause", "xon", None}]
    BY <1>8 DEF ReceivedPfc, RouterAssumption
  <2>2. frames' \in 0..MaxFrames /\ stopped' \in BOOLEAN
    BY <1>8 DEF ReceivedPfc, RouterAssumption
  <2> QED
    BY <1>8, <2>1, <2>2 DEF ReceivedPfc, sending, lines
<1> QED
  BY <1>1, <1>2, <1>3, <1>4, <1>5, <1>6, <1>7, <1>8 DEF RouterNext, Events
-----------------------------------------------------------------------------
(* Every step keeps the counters. *)

LEMMA PairMin ==
  ASSUME NEW a \in Int, NEW b \in Int
  PROVE  Min({a, b}) = IF a <= b THEN a ELSE b
<1> DEFINE m == IF a <= b THEN a ELSE b
<1>1. m \in {a, b} /\ \A y \in {a, b} : m <= y
  OBVIOUS
<1>2. \A x \in {a, b} : (\A y \in {a, b} : x <= y) => x = m
  OBVIOUS
<1> HIDE DEF m
<1>3. Min({a, b}) = m
  BY <1>1, <1>2 DEF Min
<1> QED
  BY <1>3 DEF m

\* Whatever its tag says, a packet raises the guarantee's occupancy by what the
\* tag books neither in the pool nor in the headroom.
LEMMA CarveIs ==
  ASSUME RouterAssumption, DataTypeOK, NEW p \in Ports, NEW size \in CellSizes
  PROVE  LET carve == Carve(p, size) IN
         /\ carve.min \in Nat /\ carve.shared \in Nat /\ carve.headroom \in Nat
         /\ GuaranteeAfter(p, size, carve) = minOcc[p] + size - carve.shared - carve.headroom
<1> DEFINE carve == Carve(p, size)
<1>1. size \in Nat /\ size > 0 /\ Guarantee \in Nat
  BY DEF RouterAssumption
<1>2. ingressOcc[p] \in Int /\ minOcc[p] \in Int
  BY DEF DataTypeOK
<1>3. CASE triggered[p] \/ Triggers(p, size)
  <2>1. carve = [min |-> 0, shared |-> 0, headroom |-> size]
    BY <1>3 DEF Carve
  <2> HIDE DEF carve
  <2>2. GuaranteeAfter(p, size, carve) = minOcc[p]
    BY <1>1, <2>1 DEF GuaranteeAfter
  <2> QED
    BY <1>1, <1>2, <2>1, <2>2 DEF carve
<1>4. CASE ~(triggered[p] \/ Triggers(p, size)) /\ ingressOcc[p] >= Guarantee
  <2>1. carve = [min |-> 0, shared |-> size, headroom |-> 0]
    BY <1>4 DEF Carve
  <2> HIDE DEF carve
  <2>2. GuaranteeAfter(p, size, carve) = minOcc[p]
    BY <1>4 DEF GuaranteeAfter
  <2> QED
    BY <1>1, <1>2, <2>1, <2>2 DEF carve
<1>5. CASE /\ ~(triggered[p] \/ Triggers(p, size)) /\ ~(ingressOcc[p] >= Guarantee)
           /\ minOcc[p] + size <= Guarantee
  <2>1. carve = [min |-> size, shared |-> 0, headroom |-> 0]
    BY <1>5 DEF Carve
  <2> HIDE DEF carve
  <2>2. GuaranteeAfter(p, size, carve) = Min({minOcc[p] + size, Guarantee})
    BY <1>5, <2>1 DEF GuaranteeAfter
  <2>3. Min({minOcc[p] + size, Guarantee}) = minOcc[p] + size
    BY <1>1, <1>2, <1>5, PairMin
  <2> QED
    BY <1>1, <1>2, <2>1, <2>2, <2>3 DEF carve
<1>6. CASE /\ ~(triggered[p] \/ Triggers(p, size)) /\ ~(ingressOcc[p] >= Guarantee)
           /\ ~(minOcc[p] + size <= Guarantee)
  <2>1. carve = [min |-> 0, shared |-> minOcc[p] + size - Guarantee, headroom |-> 0]
    BY <1>6 DEF Carve
  <2> HIDE DEF carve
  <2>2. GuaranteeAfter(p, size, carve) = Min({minOcc[p] + size, Guarantee})
    BY <1>6, <2>1 DEF GuaranteeAfter
  <2>3. Min({minOcc[p] + size, Guarantee}) = Guarantee
    BY <1>1, <1>2, <1>6, PairMin
  <2>4. minOcc[p] + size - Guarantee \in Nat
    BY <1>1, <1>2, <1>6
  <2> QED
    BY <1>1, <1>2, <2>1, <2>2, <2>3, <2>4 DEF carve
<1> QED
  BY <1>3, <1>4, <1>5, <1>6

LEMMA CountersStayInt ==
  ASSUME NEW f \in [Ports -> Int], NEW p \in Ports, NEW n \in Int
  PROVE  [f EXCEPT ![p] = @ + n] \in [Ports -> Int] /\ [f EXCEPT ![p] = @ - n] \in [Ports -> Int]
<1>1. f[p] \in Int
  OBVIOUS
<1>2. f[p] + n \in Int /\ f[p] - n \in Int
  BY <1>1
<1> QED
  BY <1>2

\* Nothing moves.
LEMMA NothingMoves ==
  ASSUME CellsConserved, ~stopped, FlagsTypeOK',
         UNCHANGED <<routing, queues, mmu, egress, discarded>>
  PROVE  CellsConserved'
<1>1. DataTypeOK /\ EgressConserved /\ (Pfc => IngressConserved)
  BY TypeParts DEF CellsConserved
<1>2. /\ routing' = routing /\ queues' = queues /\ discarded' = discarded
      /\ ingressFree' = ingressFree /\ ingressOcc' = ingressOcc /\ minOcc' = minOcc
      /\ headroomOcc' = headroomOcc /\ egressFree' = egressFree /\ egressOcc' = egressOcc
  BY DEF mmu, egress
<1>3. DataTypeOK'
  BY <1>1, <1>2 DEF DataTypeOK
<1>4. EgressConserved'
  BY <1>1, <1>2 DEF EgressConserved
<1>5. Pfc => IngressConserved'
  <2>1. \A field \in Fields : \A P : Booked(P, field)' = Booked(P, field)
    BY <1>2 DEF Booked, Inside
  <2> QED
    BY <1>1, <2>1, IngressStays
<1> QED
  BY <1>3, <1>4, <1>5, TypePartsNext DEF CellsConserved

LEMMA ReceiveStep ==
  ASSUME RouterAssumption, CellsConserved, FlagsTypeOK', NEW p \in Ports, ReceivePacket(p)
  PROVE  CellsConserved'
<1>1. /\ DataTypeOK /\ FlagsTypeOK /\ ~stopped /\ EgressConserved /\ (Pfc => IngressConserved)
  BY TypeParts DEF CellsConserved, ReceivePacket
<1>2. PICK size \in CellSizes, to \in Ports \cup {NoRoute} : ReceivedData(p, size, to)
  BY DEF ReceivePacket
<1>3. UNCHANGED <<queues, egress, discarded>>
  BY DEF ReceivePacket
<1> DEFINE carve == IF Pfc THEN Carve(p, size) ELSE Unchecked
           drop == headroomOcc[p] + carve.headroom > Headroom
           k == [in |-> p, to |-> to, size |-> size, min |-> carve.min,
                 shared |-> carve.shared, headroom |-> carve.headroom]
<1>4. /\ carve.min \in Nat /\ carve.shared \in Nat /\ carve.headroom \in Nat
      /\ Pfc => GuaranteeAfter(p, size, carve) = minOcc[p] + size - carve.shared - carve.headroom
  BY <1>1, CarveIs DEF Unchecked
<1>5. k \in RoutedPackets /\ k.in = p /\ k.size = size /\ k.shared = carve.shared
      /\ k.headroom = carve.headroom
  BY <1>4 DEF RoutedPackets
<1>6. /\ IF drop \/ ~Pfc THEN UNCHANGED mmu
         ELSE /\ ingressFree' = ingressFree - carve.shared
              /\ ingressOcc' = [ingressOcc EXCEPT ![p] = @ + size]
              /\ minOcc' = [minOcc EXCEPT ![p] = GuaranteeAfter(p, size, carve)]
              /\ headroomOcc' = [headroomOcc EXCEPT ![p] = @ + carve.headroom]
      /\ routing' = IF drop THEN routing ELSE Append(routing, k)
  BY <1>2 DEF ReceivedData
<1> HIDE DEF carve, drop, k
<1>7. routing' \in Seq(RoutedPackets)
  BY <1>1, <1>5, <1>6 DEF DataTypeOK
<1>8. EgressConserved'
  BY <1>1, <1>3 DEF EgressConserved, egress
<1>9. CASE drop
  BY <1>3, <1>6, <1>9, <1>1, NothingMoves DEF CellsConserved
<1>10. CASE ~drop /\ ~Pfc
  <2>1. DataTypeOK'
    BY <1>1, <1>3, <1>6, <1>7, <1>10 DEF DataTypeOK, mmu, egress
  <2> QED
    BY <1>8, <1>10, <2>1, TypePartsNext DEF CellsConserved
<1>11. CASE ~drop /\ Pfc
  <2>1. CountedIn(k)
    BY <1>4, <1>5, <1>6, <1>11 DEF CountedIn
  <2>2. Enters(k)
    BY <1>3, <1>6, <1>11 DEF Enters
  <2>3. IngressConserved'
    BY <1>1, <1>5, <1>11, <2>1, <2>2, IngressEnters
  <2>4. /\ ingressFree' \in Int /\ ingressOcc' \in [Ports -> Int]
        /\ minOcc' \in [Ports -> Int] /\ headroomOcc' \in [Ports -> Int]
    <3>0. k.in \in Ports
      BY <1>5
    <3>1. k.size \in Int /\ k.shared \in Int /\ k.headroom \in Int
      BY <1>5, FieldsAre
    <3>6. GuaranteeAfter(p, size, carve) \in Int
      BY <1>1, <1>4, <1>5, <1>11, <3>1 DEF DataTypeOK
    <3>2. ingressFree' \in Int
      BY <1>1, <2>1, <3>1 DEF CountedIn, DataTypeOK
    <3>3. ingressOcc' \in [Ports -> Int]
      BY <1>1, <2>1, <3>0, <3>1, CountersStayInt DEF CountedIn, DataTypeOK
    <3>4. minOcc' \in [Ports -> Int]
      BY <1>1, <1>6, <1>11, <3>6 DEF DataTypeOK
    <3>5. headroomOcc' \in [Ports -> Int]
      BY <1>1, <2>1, <3>0, <3>1, CountersStayInt DEF CountedIn, DataTypeOK
    <3> QED
      BY <3>2, <3>3, <3>4, <3>5
  <2>5. DataTypeOK'
    BY <1>1, <1>3, <1>7, <2>4 DEF DataTypeOK, egress
  <2> QED
    BY <1>8, <2>3, <2>5, TypePartsNext DEF CellsConserved
<1> QED
  BY <1>9, <1>10, <1>11

LEMMA RouteStep ==
  ASSUME RouterAssumption, CellsConserved, FlagsTypeOK', RoutePacket
  PROVE  CellsConserved'
<1>1. /\ DataTypeOK /\ ~stopped /\ EgressConserved /\ (Pfc => IngressConserved)
  BY TypeParts DEF CellsConserved, RoutePacket
<1> DEFINE k == Head(routing)
<1>2. routing # <<>> /\ routing' = Tail(routing) /\ UNCHANGED mmu
  BY DEF RoutePacket
<1>3. k \in RoutedPackets /\ routing' \in Seq(RoutedPackets)
  BY <1>1, <1>2 DEF DataTypeOK
<1>4. CASE k.to = NoRoute
  <2>1. HeadDeleted /\ UNCHANGED egress
    BY <1>2, <1>4 DEF RoutePacket, HeadDeleted
  <2>2. \A field \in Fields : \A P : Booked(P, field)' = Booked(P, field)
    BY <1>1, <2>1, BookedDeleted
  <2>3. Pfc => IngressConserved'
    BY <1>1, <1>2, <2>2, IngressStays
  <2>4. EgressConserved'
    BY <1>1, <2>1 DEF EgressConserved, egress, HeadDeleted
  <2>5. DataTypeOK'
    BY <1>1, <1>2, <1>3, <2>1 DEF DataTypeOK, egress, mmu, HeadDeleted
  <2> QED
    BY <2>3, <2>4, <2>5, TypePartsNext DEF CellsConserved
<1>5. CASE k.to # NoRoute /\ OverLimit(k.to, k.size)
  <2>1. stopped' = Pfc /\ UNCHANGED <<queues, egress, discarded>>
    BY <1>5 DEF RoutePacket
  <2>2. EgressConserved'
    BY <1>1, <2>1 DEF EgressConserved, egress
  <2>3. DataTypeOK'
    BY <1>1, <1>2, <1>3, <2>1 DEF DataTypeOK, egress, mmu
  <2>4. ~(Pfc /\ ~stopped')
    BY <2>1
  <2> QED
    BY <2>2, <2>3, <2>4, TypePartsNext DEF CellsConserved
<1>6. CASE k.to # NoRoute /\ ~OverLimit(k.to, k.size)
  <2>0. k.to \in Ports
    BY <1>3, <1>6 DEF RoutedPackets
  <2>1. HeadQueued
    BY <1>2, <1>6, <2>0 DEF RoutePacket, HeadQueued
  <2>2. EgressMoves(k.to, k.size)
    BY <1>6 DEF RoutePacket, EgressMoves
  <2>3. \A field \in Fields : \A P : Booked(P, field)' = Booked(P, field)
    BY <1>1, <2>1, BookedQueued
  <2>4. Pfc => IngressConserved'
    BY <1>1, <1>2, <2>3, IngressStays
  <2>5. queues' = [queues EXCEPT ![k.to] = Append(@, k)] /\ discarded' = discarded
    BY <2>1 DEF HeadQueued
  <2>6. /\ \A q \in Ports : queues[q] \in Seq(RoutedPackets)
        /\ queues'[k.to] = Append(queues[k.to], k)
        /\ \A q \in Ports : q # k.to => queues'[q] = queues[q]
    BY <1>1, <2>0, <2>5 DEF DataTypeOK
  <2>7. Append(queues[k.to], k) \in Seq(RoutedPackets)
    BY <1>3, <2>0, <2>6
  <2>8. OneQueue(queues, queues', k.to)
    BY <2>6, <2>7 DEF OneQueue
  <2>9. Cells(queues'[k.to], Ports, "size") = Cells(queues[k.to], Ports, "size") + k.size
    <3>1. k.in \in Ports /\ k.size \in Nat
      BY <1>3, FieldsAre
    <3> QED
      BY <1>3, <2>0, <2>6, <3>1, CellsAppend DEF Amount, Fields
  <2>10. k.size \in Int
    BY <1>3, FieldsAre
  <2> HIDE DEF k
  <2>11. EgressConserved' /\ egressOcc' \in [Ports -> Int] /\ egressFree' \in Int
    BY <1>1, <2>0, <2>2, <2>8, <2>9, <2>10, EgressFollows
  <2>12. queues' \in [Ports -> Seq(RoutedPackets)]
    BY <1>1, <2>5, <2>0, <2>7 DEF DataTypeOK
  <2>13. DataTypeOK'
    BY <1>1, <1>2, <1>3, <2>5, <2>11, <2>12 DEF DataTypeOK, mmu
  <2> QED
    BY <2>4, <2>11, <2>13, TypePartsNext DEF CellsConserved
<1> QED
  BY <1>4, <1>5, <1>6

LEMMA TransmitStep ==
  ASSUME RouterAssumption, CellsConserved, ~stopped, FlagsTypeOK', NEW p \in Ports,
         Transmit(p), UNCHANGED <<routing, discarded>>
  PROVE  CellsConserved'
<1>1. /\ DataTypeOK /\ EgressConserved /\ (Pfc => IngressConserved)
  BY TypeParts DEF CellsConserved
<1>2. CASE pfcQueue[p] # None
  BY <1>2, NothingMoves DEF Transmit
<1>3. CASE pfcQueue[p] = None /\ ~CanTransmit(p)
  BY <1>3, NothingMoves DEF Transmit
<1>4. CASE pfcQueue[p] = None /\ CanTransmit(p)
  <2> DEFINE k == Head(queues[p])
  <2>1. queues[p] # <<>> /\ queues' = [queues EXCEPT ![p] = Tail(@)] /\ DequeuedPacket(p, k)
    BY <1>4 DEF Transmit, CanTransmit
  <2>2. HeadLeaves(p)
    BY <2>1 DEF HeadLeaves
  <2>3. /\ k \in RoutedPackets /\ queues'[p] \in Seq(RoutedPackets)
        /\ Cells(queues[p], Ports, "size")
             = Cells(queues'[p], Ports, "size") + Amount(k, Ports, "size")
    BY <1>1, <2>2, BookedLeaves DEF Fields
  <2>4. /\ k.in \in Ports /\ k.size \in Nat /\ k.shared \in Nat /\ k.headroom \in Nat
        /\ k.min \in Nat
    BY <2>3, FieldsAre
  <2>5. /\ IF Pfc THEN IngressAccountingRelease(k) ELSE UNCHANGED <<mmu, stopped>>
        /\ egressFree' = egressFree + k.size
        /\ egressOcc' = [egressOcc EXCEPT ![p] = @ - k.size]
    BY <2>1 DEF DequeuedPacket
  <2>6. /\ \A q \in Ports : queues[q] \in Seq(RoutedPackets)
        /\ \A q \in Ports : q # p => queues'[q] = queues[q]
    BY <1>1, <2>1 DEF DataTypeOK
  <2>7. OneQueue(queues, queues', p)
    BY <2>3, <2>6 DEF OneQueue
  <2>8. queues' \in [Ports -> Seq(RoutedPackets)]
    BY <1>1, <2>1, <2>3 DEF DataTypeOK
  <2>9. Cells(queues'[p], Ports, "size") = Cells(queues[p], Ports, "size") + (0 - k.size)
    <3>1. Amount(k, Ports, "size") = k.size
      BY <2>4 DEF Amount
    <3>2. Cells(queues'[p], Ports, "size") \in Nat
      BY <2>3, CellsNat DEF Fields
    <3> QED
      BY <2>3, <2>4, <3>1, <3>2
  <2>10. EgressMoves(p, 0 - k.size)
    <3>1. egressOcc[p] \in Int /\ egressFree \in Int
      BY <1>1 DEF DataTypeOK
    <3>2. \A a \in Int : \A b \in Nat : a - b = a + (0 - b) /\ a + b = a - (0 - b)
      OBVIOUS
    <3>3. egressOcc[p] - k.size = egressOcc[p] + (0 - k.size)
          /\ egressFree + k.size = egressFree - (0 - k.size)
      BY <2>4, <3>1, <3>2
    <3> QED
      BY <2>5, <3>3 DEF EgressMoves
  <2>11. 0 - k.size \in Int
    BY <2>4
  <2> HIDE DEF k
  <2>12. EgressConserved' /\ egressOcc' \in [Ports -> Int] /\ egressFree' \in Int
    BY <1>1, <2>7, <2>9, <2>10, <2>11, EgressFollows
  <2>13. CASE Pfc
    <3>1. /\ ingressFree' = ingressFree + k.shared
          /\ ingressOcc' = [ingressOcc EXCEPT ![k.in] = @ - k.size]
          /\ minOcc' = [minOcc EXCEPT ![k.in] = @ - k.min]
          /\ headroomOcc' = [headroomOcc EXCEPT ![k.in] = @ - k.headroom]
          /\ stopped' = (k.size # k.min + k.shared + k.headroom)
      BY <2>5, <2>13 DEF IngressAccountingRelease
    <3>2. /\ ingressFree' \in Int /\ ingressOcc' \in [Ports -> Int]
          /\ minOcc' \in [Ports -> Int] /\ headroomOcc' \in [Ports -> Int]
      <4>0. /\ ingressOcc \in [Ports -> Int] /\ minOcc \in [Ports -> Int]
            /\ headroomOcc \in [Ports -> Int]
            /\ k.in \in Ports /\ k.size \in Int /\ k.min \in Int /\ k.headroom \in Int
        <5>1. /\ ingressOcc \in [Ports -> Int] /\ minOcc \in [Ports -> Int]
              /\ headroomOcc \in [Ports -> Int]
          BY <1>1 DEF DataTypeOK
        <5>2. k.in \in Ports /\ k.size \in Int /\ k.min \in Int /\ k.headroom \in Int
          BY <2>4
        <5> QED
          BY <5>1, <5>2
      <4>1. ingressFree' \in Int
        BY <1>1, <2>4, <3>1 DEF DataTypeOK
      <4>2. ingressOcc' \in [Ports -> Int]
        BY <3>1, <4>0, CountersStayInt
      <4>3. minOcc' \in [Ports -> Int]
        BY <3>1, <4>0, CountersStayInt
      <4>4. headroomOcc' \in [Ports -> Int]
        BY <3>1, <4>0, CountersStayInt
      <4> QED
        BY <4>1, <4>2, <4>3, <4>4
    <3>3. DataTypeOK'
      BY <1>1, <2>8, <2>12, <3>2 DEF DataTypeOK
    <3>4. ~stopped' => CountedOut(k)
      BY <3>1 DEF CountedOut
    <3>5. ~stopped' => IngressConserved'
      BY <1>1, <2>2, <2>13, <3>4, IngressLeaves DEF k
    <3> QED
      BY <2>12, <3>3, <3>5, TypePartsNext DEF CellsConserved
  <2>14. CASE ~Pfc
    <3>1. UNCHANGED mmu
      BY <2>5, <2>14
    <3>2. DataTypeOK'
      BY <1>1, <2>8, <2>12, <3>1 DEF DataTypeOK, mmu
    <3> QED
      BY <2>12, <2>14, <3>2, TypePartsNext DEF CellsConserved
  <2> QED
    BY <2>13, <2>14
<1> QED
  BY <1>2, <1>3, <1>4

LEMMA ConservedStep ==
  ASSUME RouterAssumption, CellsConserved, [RouterNext]_routerVars
  PROVE  CellsConserved'
<1>1. FlagsTypeOK
  BY TypeParts DEF CellsConserved
<1>2. CASE UNCHANGED routerVars
  <2>1. CellsConserved' = CellsConserved
    <3>1. /\ routing' = routing /\ queues' = queues /\ discarded' = discarded
          /\ ingressFree' = ingressFree /\ ingressOcc' = ingressOcc /\ minOcc' = minOcc
          /\ headroomOcc' = headroomOcc /\ egressFree' = egressFree /\ egressOcc' = egressOcc
          /\ stopped' = stopped
      BY <1>2 DEF routerVars, mmu, egress
    <3>2. RouterTypeOK' = RouterTypeOK
      BY <1>2 DEF routerVars, mmu, egress, pfcPauses, sending, lines, inputs, RouterTypeOK
    <3> QED
      BY <3>1, <3>2 DEF CellsConserved, EgressConserved, IngressConserved, Booked, Inside
  <2> QED
    BY <2>1
<1>3. CASE RouterNext
  <2>1. FlagsTypeOK'
    BY <1>1, <1>3, FlagsStep
  <2>2. CASE RoutePacket
    BY <2>1, <2>2, RouteStep
  <2>3. ASSUME NEW p \in Ports, ScheduleOutput(p) PROVE CellsConserved'
    BY <2>1, <2>3, TransmitStep DEF ScheduleOutput
  <2>4. ASSUME NEW p \in Ports, SetPfcPaused(p) PROVE CellsConserved'
    BY <2>1, <2>4, NothingMoves DEF SetPfcPaused
  <2>5. ASSUME NEW p \in Ports, PauseEnds(p) PROVE CellsConserved'
    BY <2>1, <2>5, NothingMoves DEF PauseEnds
  <2>6. ASSUME NEW p \in Ports, ResumeOutput(p) PROVE CellsConserved'
    <3>1. ~stopped /\ UNCHANGED <<routing, discarded>>
      BY <2>6 DEF ResumeOutput
    <3>2. CASE portActive[p]
      BY <2>1, <2>6, <3>1, <3>2, NothingMoves DEF ResumeOutput
    <3>3. CASE ~portActive[p]
      BY <2>1, <2>6, <3>1, <3>3, TransmitStep DEF ResumeOutput
    <3> QED
      BY <3>2, <3>3
  <2>7. ASSUME NEW p \in Ports, PfcPauseSend(p) PROVE CellsConserved'
    BY <2>1, <2>7, NothingMoves DEF PfcPauseSend
  <2>8. ASSUME NEW p \in Ports, ReceivePacket(p) PROVE CellsConserved'
    BY <2>1, <2>8, ReceiveStep
  <2>9. ASSUME NEW p \in Ports, ReceivedPfc(p) PROVE CellsConserved'
    BY <2>1, <2>9, NothingMoves DEF ReceivedPfc
  <2> QED
    BY <1>3, <2>2, <2>3, <2>4, <2>5, <2>6, <2>7, <2>8, <2>9 DEF RouterNext, Events
<1> QED
  BY <1>2, <1>3

LEMMA InitConserved ==
  ASSUME RouterAssumption, RouterInit
  PROVE  CellsConserved
<1>1. DataTypeOK
  BY DEF RouterInit, DataTypeOK, RouterAssumption
<1>2. FlagsTypeOK
  <2>1. 0 \in 0..MaxEntered /\ 0 \in 0..MaxFrames
    BY DEF RouterAssumption
  <2> QED
    BY <2>1 DEF RouterInit, FlagsTypeOK, None
<1>3. \A field, P : Cells(<<>>, P, field) = 0
  BY CellsEmpty
<1>4. \A field, P : Booked(P, field) = 0
  <2> SUFFICES ASSUME NEW field, NEW P PROVE Booked(P, field) = 0
    OBVIOUS
  <2>1. \A q \in Ports : ByPort(queues, P, field)[q] = 0
    BY <1>3 DEF RouterInit, ByPort
  <2>2. InQueues(queues, P, field) = 0
    BY <2>1, TallyZero DEF InQueues, ByPort
  <2> QED
    BY <1>3, <2>2 DEF RouterInit, Booked, Inside
<1>5. EgressConserved
  <2>1. Tally(egressOcc, Ports) = 0
    <3>1. \A q \in Ports : egressOcc[q] = 0
      BY DEF RouterInit
    <3> QED
      BY <3>1, TallyZero
  <2>2. egressFree = EgressPool - 0
    BY DEF RouterInit, RouterAssumption
  <2>3. \A p \in Ports : egressOcc[p] = Cells(queues[p], Ports, "size")
    BY <1>3 DEF RouterInit
  <2> QED
    BY <2>1, <2>2, <2>3 DEF EgressConserved
<1>6. IngressConserved
  BY <1>4 DEF IngressConserved, RouterInit, RouterAssumption
<1> QED
  BY <1>1, <1>2, <1>5, <1>6, TypeParts DEF CellsConserved

\* Every cell the MMU counts is one of a packet inside, or of one that the routing
\* pipeline deleted (ReceivedData, RequestEnqueue, DequeuedPacket,
\* IngressAccountingRelease), for any ports, pools and packets.
THEOREM CellsAlwaysConserved ==
  ASSUME RouterAssumption
  PROVE  RouterSpec => []CellsConserved
<1>1. RouterInit => CellsConserved
  BY InitConserved
<1>2. CellsConserved /\ [RouterNext]_routerVars => CellsConserved'
  BY ConservedStep
<1> QED
  BY <1>1, <1>2, PTL DEF RouterSpec
-----------------------------------------------------------------------------
(* No port sleeps on work. *)

\* A pause that lasts will be refreshed.
PausesRefreshed == \A p \in Ports : paused[p] => refreshment[p]

\* Without an output event a port is idle and has no frame waiting.
Quiet(p) == ~output[p] => ~portActive[p] /\ pfcQueue[p] = None
Awake(p) == Quiet(p) /\ (~output[p] /\ CanTransmit(p) => refreshment[p])

AwakeInv == CellsConserved /\ (\A p \in Ports : Quiet(p)) /\ PausesRefreshed

\* What a step does to a port that X-on does not send to sleep.
StaysAwake(p) == Quiet(p)' /\ (Awake(p) => Awake(p)')

LEMMA AsleepIs == \A p : Quiet(p) => (AsleepOnWork(p) <=> ~Awake(p))
BY DEF AsleepOnWork, Awake, Quiet

LEMMA AsleepIsNext == \A p : Quiet(p)' => (AsleepOnWork(p)' <=> ~Awake(p)')
BY DEF AsleepOnWork, Awake, Quiet

LEMMA TypesOfConserved == CellsConserved => DataTypeOK /\ FlagsTypeOK
BY TypeParts DEF CellsConserved

\* A port that is left alone stays awake.
LEMMA LeftAlone ==
  ASSUME NEW q \in Ports, Quiet(q), output'[q] = output[q], portActive'[q] = portActive[q],
         pfcQueue'[q] = pfcQueue[q], queues'[q] = queues[q],
         (paused'[q] = paused[q] /\ refreshment'[q] = refreshment[q]) \/ refreshment'[q]
  PROVE  StaysAwake(q)
BY DEF StaysAwake, Quiet, Awake, CanTransmit

LEMMA WokenPort ==
  ASSUME FlagsTypeOK, NEW p \in Ports, Quiet(p), Wake(p)
  PROVE  /\ output'[p]
         /\ \A q \in Ports : q # p => output'[q] = output[q] /\ portActive'[q] = portActive[q]
<1>1. portActive[p] => output[p]
  BY DEF Quiet
<1> QED
  BY <1>1 DEF Wake, FlagsTypeOK

LEMMA TransmitAwake ==
  ASSUME DataTypeOK, FlagsTypeOK, \A q \in Ports : Quiet(q),
         NEW p \in Ports, Transmit(p), paused' = paused,
         \A q \in Ports : q # p => refreshment'[q] = refreshment[q]
  PROVE  \A q \in Ports : StaysAwake(q)
<1> SUFFICES ASSUME NEW q \in Ports PROVE StaysAwake(q)
  OBVIOUS
<1> USE DEF FlagsTypeOK
<1>1. CASE pfcQueue[p] # None
  <2>1. /\ pfcQueue' = [pfcQueue EXCEPT ![p] = None] /\ UNCHANGED queues
        /\ portActive' = [portActive EXCEPT ![p] = TRUE] /\ output' = [output EXCEPT ![p] = TRUE]
    BY <1>1 DEF Transmit
  <2>2. CASE q = p
    BY <2>1, <2>2 DEF StaysAwake, Quiet, Awake
  <2>3. CASE q # p
    BY <2>1, <2>3, LeftAlone
  <2> QED
    BY <2>2, <2>3
<1>2. CASE pfcQueue[p] = None /\ ~CanTransmit(p)
  <2>1. /\ UNCHANGED <<queues, pfcQueue>>
        /\ portActive' = [portActive EXCEPT ![p] = FALSE] /\ output' = [output EXCEPT ![p] = FALSE]
    BY <1>2 DEF Transmit, sending
  <2>2. CASE q = p
    BY <1>2, <2>1, <2>2 DEF StaysAwake, Quiet, Awake, CanTransmit
  <2>3. CASE q # p
    BY <2>1, <2>3, LeftAlone
  <2> QED
    BY <2>2, <2>3
<1>3. CASE pfcQueue[p] = None /\ CanTransmit(p)
  <2> DEFINE k == Head(queues[p])
             woken == IF Pfc /\ PauseOver(k) /\ Xon THEN {p, k.in} ELSE {p}
  <2>1. /\ queues' = [queues EXCEPT ![p] = Tail(@)]
        /\ DequeuedPacket(p, k)
        /\ portActive' = [r \in Ports |-> portActive[r] \/ r \in woken]
        /\ output' = [r \in Ports |-> output[r] \/ r = p \/ (r \in woken /\ ~portActive[r])]
    BY <1>3 DEF Transmit
  <2>2. CASE q = p
    <3>1. output'[q]
      BY <2>1, <2>2
    <3> QED
      BY <3>1 DEF StaysAwake, Quiet, Awake
  <2>3. CASE q # p
    <3>1. queues'[q] = queues[q] /\ paused'[q] = paused[q] /\ refreshment'[q] = refreshment[q]
      BY <2>1, <2>3 DEF DataTypeOK
    <3>2. SUFFICES ASSUME ~output'[q] PROVE StaysAwake(q)
      BY DEF StaysAwake, Quiet, Awake
    <3>3. ~output[q] /\ ~(q \in woken /\ ~portActive[q])
      <4> HIDE DEF woken
      <4> QED
        BY <2>1, <3>2
    <3>4. ~portActive[q] /\ q \notin woken
      <4> HIDE DEF woken
      <4> QED
        BY <3>3 DEF Quiet
    <3>5. ~portActive'[q]
      <4>1. portActive'[q] = (portActive[q] \/ q \in woken)
        <5> HIDE DEF woken
        <5> QED
          BY <2>1
      <4> HIDE DEF woken
      <4> QED
        BY <3>4, <4>1
    <3>6. pfcQueue'[q] = pfcQueue[q]
      <4>1. CASE Pfc /\ PauseOver(k) /\ Xon
        <5>1. q # k.in
          BY <3>4, <4>1
        <5> QED
          BY <2>1, <4>1, <5>1 DEF DequeuedPacket, DisablePfcSending
      <4>2. CASE Pfc /\ PauseOver(k) /\ ~Xon
        BY <2>1, <4>2 DEF DequeuedPacket, DisablePfcSending
      <4>3. CASE ~(Pfc /\ PauseOver(k))
        BY <2>1, <4>3 DEF DequeuedPacket, sending
      <4> QED
        BY <4>1, <4>2, <4>3
    <3>7. pfcQueue[q] = None
      BY <3>3 DEF Quiet
    <3> QED
      BY <3>1, <3>3, <3>5, <3>6, <3>7 DEF StaysAwake, Quiet, Awake, CanTransmit
  <2> QED
    BY <2>2, <2>3
<1> QED
  BY <1>1, <1>2, <1>3

LEMMA AwakeStep ==
  ASSUME RouterAssumption, AwakeInv, RouterNext
  PROVE  /\ \A q \in Ports : StaysAwake(q) \/ (Quiet(q)' /\ XonCancelsRefreshment(q))
         /\ PausesRefreshed'
<1>1. DataTypeOK /\ FlagsTypeOK
  BY TypesOfConserved DEF AwakeInv
<1>2. (\A q \in Ports : Quiet(q)) /\ PausesRefreshed
  BY DEF AwakeInv
<1> DEFINE AllStayAwake == \A q \in Ports : StaysAwake(q)
<1>5. UNCHANGED pfcPauses => PausesRefreshed'
  BY <1>2 DEF pfcPauses, PausesRefreshed
<1>6. UNCHANGED pfcPauses => paused' = paused /\ refreshment' = refreshment
  BY DEF pfcPauses
<1>7. CASE RoutePacket
  <2>1. UNCHANGED <<pfcPauses, pfcQueue>>
    BY <1>7 DEF RoutePacket, sending
  <2> DEFINE k == Head(routing)
  <2>2. CASE UNCHANGED <<queues, lines>>
    BY <1>2, <1>5, <1>6, <2>1, <2>2, LeftAlone DEF lines
  <2>3. CASE /\ k.to # NoRoute /\ queues' = [queues EXCEPT ![k.to] = Append(@, k)]
             /\ Wake(k.to)
    <3>1. k \in RoutedPackets
      BY <1>1, <1>7 DEF DataTypeOK, RoutePacket
    <3>2. PICK p \in Ports : p = k.to
      BY <2>3, <3>1 DEF RoutedPackets
    <3> HIDE DEF k
    <3>3. queues' = [queues EXCEPT ![p] = Append(@, k)] /\ Wake(p)
      BY <2>3, <3>2
    <3>4. /\ output'[p]
          /\ \A q \in Ports : q # p => output'[q] = output[q] /\ portActive'[q] = portActive[q]
      BY <1>1, <1>2, <3>3, WokenPort
    <3>5. \A q \in Ports : q # p => queues'[q] = queues[q]
      BY <1>1, <3>3 DEF DataTypeOK
    <3>6. StaysAwake(p)
      BY <3>4 DEF StaysAwake, Quiet, Awake
    <3>7. ASSUME NEW q \in Ports, q # p PROVE StaysAwake(q)
      BY <1>2, <1>6, <2>1, <3>4, <3>5, <3>7, LeftAlone
    <3> QED
      BY <1>5, <2>1, <3>6, <3>7
  <2> QED
    BY <1>7, <2>2, <2>3 DEF RoutePacket
<1>8. ASSUME NEW p \in Ports, ScheduleOutput(p) PROVE AllStayAwake /\ PausesRefreshed'
  <2>1. Transmit(p) /\ UNCHANGED pfcPauses
    BY <1>8 DEF ScheduleOutput
  <2> QED
    BY <1>1, <1>2, <1>5, <1>6, <2>1, TransmitAwake
<1>9. ASSUME NEW p \in Ports, SetPfcPaused(p)
      PROVE  /\ \A q \in Ports : StaysAwake(q) \/ (Quiet(q)' /\ XonCancelsRefreshment(q))
             /\ PausesRefreshed'
  <2>1. UNCHANGED <<queues, output, portActive, pfcQueue>>
    BY <1>9 DEF SetPfcPaused, sending, lines
  <2>2. setPaused[p] = "pause" \/ setPaused[p] = "xon"
    BY <1>1, <1>9 DEF SetPfcPaused, FlagsTypeOK
  <2>3. /\ paused' = [paused EXCEPT ![p] = setPaused[p] = "pause"]
        /\ refreshment' = [refreshment EXCEPT ![p] = setPaused[p] = "pause"]
    BY <1>9 DEF SetPfcPaused
  <2>4. /\ paused'[p] = (setPaused[p] = "pause") /\ refreshment'[p] = (setPaused[p] = "pause")
        /\ \A q \in Ports : q # p => paused'[q] = paused[q] /\ refreshment'[q] = refreshment[q]
    BY <1>1, <2>3 DEF FlagsTypeOK
  <2>5. PausesRefreshed'
    BY <1>2, <2>4 DEF PausesRefreshed
  <2>6. ASSUME NEW q \in Ports, q # p PROVE StaysAwake(q)
    BY <1>2, <2>1, <2>4, <2>6, LeftAlone
  <2>7. CASE setPaused[p] = "pause"
    <3>1. refreshment'[p]
      BY <2>4, <2>7
    <3>2. StaysAwake(p)
      BY <1>2, <2>1, <3>1, LeftAlone
    <3> QED
      BY <2>5, <2>6, <3>2
  <2>8. CASE setPaused[p] = "xon" /\ refreshment[p]
    <3>1. XonCancelsRefreshment(p)
      BY <1>9, <2>8 DEF XonCancelsRefreshment
    <3>2. Quiet(p)'
      BY <1>2, <2>1 DEF Quiet
    <3> QED
      BY <2>5, <2>6, <3>1, <3>2
  <2>9. CASE setPaused[p] = "xon" /\ ~refreshment[p]
    <3>1. ~paused[p] /\ paused[p] \in BOOLEAN /\ refreshment[p] \in BOOLEAN
      BY <1>1, <1>2, <2>9 DEF PausesRefreshed, FlagsTypeOK
    <3>2. paused'[p] = paused[p] /\ refreshment'[p] = refreshment[p]
      BY <2>4, <2>9, <3>1
    <3>3. StaysAwake(p)
      BY <1>2, <2>1, <3>2, LeftAlone
    <3> QED
      BY <2>5, <2>6, <3>3
  <2> QED
    BY <2>2, <2>7, <2>8, <2>9
<1>10. ASSUME NEW p \in Ports, PauseEnds(p) PROVE AllStayAwake /\ PausesRefreshed'
  <2>1. /\ UNCHANGED <<queues, output, portActive, pfcQueue, setPaused, refreshment>>
        /\ paused' = [paused EXCEPT ![p] = FALSE] /\ paused[p]
    BY <1>10 DEF PauseEnds, sending, lines
  <2>2. refreshment[p]
    BY <1>2, <2>1 DEF PausesRefreshed
  <2>3. \A q \in Ports : StaysAwake(q)
    BY <1>1, <1>2, <2>1, <2>2, LeftAlone DEF FlagsTypeOK
  <2>4. PausesRefreshed'
    BY <1>1, <1>2, <2>1 DEF FlagsTypeOK, PausesRefreshed
  <2> QED
    BY <2>3, <2>4
<1>11. ASSUME NEW p \in Ports, ResumeOutput(p) PROVE AllStayAwake /\ PausesRefreshed'
  <2>1. /\ UNCHANGED <<setPaused, paused>> /\ ~paused[p]
        /\ refreshment' = [refreshment EXCEPT ![p] = FALSE]
        /\ IF portActive[p] THEN UNCHANGED <<queues, mmu, egress, sending, lines, stopped>>
           ELSE Transmit(p)
    BY <1>11 DEF ResumeOutput
  <2>2. \A q \in Ports : q # p => refreshment'[q] = refreshment[q]
    BY <1>1, <2>1 DEF FlagsTypeOK
  <2>3. PausesRefreshed'
    BY <1>2, <2>1, <2>2 DEF PausesRefreshed
  <2>4. CASE portActive[p]
    <3>1. UNCHANGED <<queues, output, portActive, pfcQueue>>
      BY <2>1, <2>4 DEF sending, lines
    <3>2. \A q \in Ports : q # p => StaysAwake(q)
      BY <1>2, <2>1, <2>2, <3>1, LeftAlone
    <3>3. output[p]
      BY <1>2, <2>4 DEF Quiet
    <3>4. StaysAwake(p)
      BY <3>1, <3>3 DEF StaysAwake, Quiet, Awake
    <3> QED
      BY <2>3, <3>2, <3>4
  <2>5. CASE ~portActive[p]
    BY <1>1, <1>2, <2>1, <2>2, <2>3, <2>5, TransmitAwake
  <2> QED
    BY <2>4, <2>5
<1>12. ASSUME NEW p \in Ports, UNCHANGED <<queues, pfcPauses>>,
              GeneratePfc(p, "pause") \/ UNCHANGED <<pfcQueue, lines>>
       PROVE  AllStayAwake /\ PausesRefreshed'
  <2>1. CASE GeneratePfc(p, "pause")
    <3>1. /\ output'[p]
          /\ \A q \in Ports : q # p => output'[q] = output[q] /\ portActive'[q] = portActive[q]
      BY <1>1, <1>2, <2>1, WokenPort DEF GeneratePfc
    <3>2. \A q \in Ports : q # p => pfcQueue'[q] = pfcQueue[q]
      BY <1>1, <2>1 DEF GeneratePfc, FlagsTypeOK
    <3>3. StaysAwake(p)
      BY <3>1 DEF StaysAwake, Quiet, Awake
    <3>4. \A q \in Ports : q # p => StaysAwake(q)
      BY <1>2, <1>6, <1>12, <3>1, <3>2, LeftAlone
    <3> QED
      BY <1>5, <1>12, <3>3, <3>4
  <2>2. CASE UNCHANGED <<pfcQueue, lines>>
    BY <1>2, <1>5, <1>6, <1>12, <2>2, LeftAlone DEF lines
  <2> QED
    BY <1>12, <2>1, <2>2
<1>13. ASSUME NEW p \in Ports, PfcPauseSend(p) PROVE AllStayAwake /\ PausesRefreshed'
  BY <1>12, <1>13 DEF PfcPauseSend, SendPfc
<1>14. ASSUME NEW p \in Ports, ReceivePacket(p) PROVE AllStayAwake /\ PausesRefreshed'
  <2>1. EnablePfcSending(p) \/ UNCHANGED <<sending, lines>>
    BY <1>14 DEF ReceivePacket, ReceivedData
  <2>2. GeneratePfc(p, "pause") \/ UNCHANGED <<pfcQueue, lines>>
    BY <2>1 DEF EnablePfcSending, SendPfc, sending
  <2>3. UNCHANGED <<queues, pfcPauses>>
    BY <1>14 DEF ReceivePacket
  <2> QED
    BY <1>12, <2>2, <2>3
<1>15. ASSUME NEW p \in Ports, ReceivedPfc(p) PROVE AllStayAwake /\ PausesRefreshed'
  <2>1. UNCHANGED <<queues, output, portActive, pfcQueue, paused, refreshment>>
    BY <1>15 DEF ReceivedPfc, sending, lines
  <2>2. PausesRefreshed'
    BY <1>2, <2>1 DEF PausesRefreshed
  <2>3. \A q \in Ports : StaysAwake(q)
    BY <1>2, <2>1, LeftAlone
  <2> QED
    BY <2>2, <2>3
<1> QED
  BY <1>7, <1>8, <1>9, <1>10, <1>11, <1>13, <1>14, <1>15 DEF RouterNext, Events

\* Whatever the peers send, a port falls asleep on a packet it may send, or on a
\* PFC frame, only by the step in which an X-on frame cancels its refreshment
\* (EnqueuePacket, GeneratePfc, ResumeOutput, SetPfcPaused).
THEOREM PortsSleepOnlyAfterXon ==
  ASSUME RouterAssumption
  PROVE  RouterSpec => SleepsOnlyAfterXon
<1>1. RouterInit => AwakeInv
  <2> SUFFICES ASSUME RouterInit PROVE AwakeInv
    OBVIOUS
  <2>1. CellsConserved
    BY InitConserved
  <2>2. (\A p \in Ports : Quiet(p)) /\ PausesRefreshed
    BY DEF RouterInit, Quiet, PausesRefreshed
  <2> QED
    BY <2>1, <2>2 DEF AwakeInv
<1>2. AwakeInv /\ [RouterNext]_routerVars => AwakeInv'
  <2> SUFFICES ASSUME AwakeInv, [RouterNext]_routerVars PROVE AwakeInv'
    OBVIOUS
  <2>1. CellsConserved'
    BY ConservedStep DEF AwakeInv
  <2>2. CASE RouterNext
    <3>1. (\A q \in Ports : Quiet(q)') /\ PausesRefreshed'
      BY <2>2, AwakeStep DEF StaysAwake
    <3> QED
      BY <2>1, <3>1 DEF AwakeInv
  <2>3. CASE UNCHANGED routerVars
    <3>1. (\A q \in Ports : Quiet(q)') /\ PausesRefreshed'
      BY <2>3 DEF AwakeInv, Quiet, PausesRefreshed, routerVars, pfcPauses, sending, lines
    <3> QED
      BY <2>1, <3>1 DEF AwakeInv
  <2> QED
    BY <2>2, <2>3
<1>3. AwakeInv /\ [RouterNext]_routerVars =>
        [\A p \in Ports :
           AsleepOnWork(p)' => AsleepOnWork(p) \/ XonCancelsRefreshment(p)]_routerVars
  <2> SUFFICES ASSUME AwakeInv, RouterNext, NEW p \in Ports, AsleepOnWork(p)'
               PROVE  AsleepOnWork(p) \/ XonCancelsRefreshment(p)
    OBVIOUS
  <2>1. StaysAwake(p) \/ (Quiet(p)' /\ XonCancelsRefreshment(p))
    BY AwakeStep
  <2>2. Quiet(p)
    BY DEF AwakeInv
  <2> QED
    BY <2>1, <2>2, AsleepIs, AsleepIsNext DEF StaysAwake
<1> QED
  BY <1>1, <1>2, <1>3, PTL DEF RouterSpec, SleepsOnlyAfterXon
-----------------------------------------------------------------------------
(* A pause always has something that will end it. *)

\* Where a tag says something the packet has a size.
LEMMA CellsPositive ==
  ASSUME RouterAssumption, NEW s \in Seq(RoutedPackets), NEW P, NEW field \in Fields,
         Cells(s, P, "size") = 0
  PROVE  Cells(s, P, field) = 0
<1> DEFINE f == Amounts(s, P, "size")
<1>1. /\ IsFiniteSet(1..Len(s))
      /\ \A n \in 1..Len(s) : f[n] = Amount(s[n], P, "size") /\ f[n] \in Nat
  BY AmountsAre DEF Fields
<1>2. \A n \in 1..Len(s) : s[n] \in RoutedPackets
  OBVIOUS
<1>3. \A n \in 1..Len(s) : Amounts(s, P, field)[n] = Amount(s[n], P, field)
  BY AmountsAre
<1>4. Tally(f, 1..Len(s)) = 0
  BY DEF Cells
<1> HIDE DEF f
<1>5. ASSUME NEW n \in 1..Len(s) PROVE Amount(s[n], P, field) = 0
  <2>1. Tally(f, 1..Len(s)) = Tally(f, (1..Len(s)) \ {n}) + f[n]
        /\ Tally(f, (1..Len(s)) \ {n}) \in Nat
    BY <1>1, TallyRemove
  <2>2. f[n] \in Nat /\ f[n] = Amount(s[n], P, "size")
    BY <1>1
  <2>3. Amount(s[n], P, "size") = 0
    BY <1>4, <2>1, <2>2
  <2>4. s[n].size > 0
    BY <1>2, FieldsAre
  <2> QED
    BY <2>3, <2>4 DEF Amount
<1>6. \A n \in 1..Len(s) : Amounts(s, P, field)[n] = 0
  BY <1>3, <1>5
<1> QED
  BY <1>6, TallyZero DEF Cells

LEMMA BookedPositive ==
  ASSUME RouterAssumption, DataTypeOK, NEW P, NEW field \in Fields, Booked(P, field) > 0
  PROVE  Booked(P, "size") > 0
<1> SUFFICES ASSUME Booked(P, "size") <= 0 PROVE Booked(P, field) = 0
  <2>1. Booked(P, "size") \in Nat /\ Booked(P, field) \in Nat
    BY BookedNat DEF Fields
  <2> QED
    BY <2>1
<1>1. /\ Cells(routing, P, "size") \in Nat /\ InQueues(queues, P, "size") \in Nat
      /\ Cells(discarded, P, "size") \in Nat
      /\ \A q \in Ports : Cells(queues[q], P, "size") \in Nat
  BY BookedNat DEF Fields
<1>2. /\ Cells(routing, P, "size") = 0 /\ InQueues(queues, P, "size") = 0
      /\ Cells(discarded, P, "size") = 0
  BY <1>1 DEF Booked, Inside
<1>3. routing \in Seq(RoutedPackets) /\ discarded \in Seq(RoutedPackets)
      /\ \A q \in Ports : queues[q] \in Seq(RoutedPackets)
  BY DEF DataTypeOK
<1>4. Cells(routing, P, field) = 0 /\ Cells(discarded, P, field) = 0
  BY <1>2, <1>3, CellsPositive
<1>5. \A q \in Ports : ByPort(queues, P, "size")[q] = Cells(queues[q], P, "size")
                      /\ ByPort(queues, P, field)[q] = Cells(queues[q], P, field)
  BY DEF ByPort
<1>6. /\ Tally(ByPort(queues, P, "size"), Ports) = 0 /\ IsFiniteSet(Ports)
      /\ \A q \in Ports : ByPort(queues, P, "size")[q] \in Nat
  BY <1>1, <1>2, <1>5 DEF InQueues, ByPort, RouterAssumption
<1>7. ASSUME NEW q \in Ports PROVE ByPort(queues, P, field)[q] = 0
  <2>1. /\ Tally(ByPort(queues, P, "size"), Ports)
             = Tally(ByPort(queues, P, "size"), Ports \ {q}) + ByPort(queues, P, "size")[q]
        /\ Tally(ByPort(queues, P, "size"), Ports \ {q}) \in Nat
    BY <1>6, TallyRemove
  <2>2. Cells(queues[q], P, "size") = 0
    BY <1>5, <1>6, <2>1
  <2> QED
    BY <1>3, <1>5, <2>2, CellsPositive
<1>8. InQueues(queues, P, field) = 0
  BY <1>7, TallyZero DEF InQueues, ByPort
<1> QED
  BY <1>4, <1>8 DEF Booked, Inside

\* Packets of ports where every packet has a route are not deleted.
AllRouted ==
  \A p \in Ports \ Unroutable :
    /\ \A n \in 1..Len(routing) : routing[n].in = p => routing[n].to # NoRoute
    /\ Cells(discarded, {p}, "size") = 0

PoolInv ==
  /\ CellsConserved
  /\ \A p \in Ports : triggered[p] => Pfc
  /\ ~stopped => ingressFree >= 0

\* What PauseHasRelease says, by the counters.
ReleasedLater(p) == triggered[p] /\ ~stopped => sendPause[p] /\ ingressOcc[p] > 0
Released == \A p \in Ports \ Unroutable : ReleasedLater(p)

ReleaseInv == PoolInv /\ AllRouted /\ Released

\* A port that has lost no packet counts what is inside.
LEMMA CountedInside ==
  ASSUME PoolInv, AllRouted, RouterAssumption, NEW p \in Ports \ Unroutable,
         triggered[p], ~stopped
  PROVE  ingressOcc[p] = Inside({p}, "size") /\ ingressOcc[p] \in Nat
<1>1. IngressConserved /\ DataTypeOK
  BY TypeParts DEF PoolInv, CellsConserved
<1>2. ingressOcc[p] = Booked({p}, "size") /\ Booked({p}, "size") \in Nat
  BY <1>1, BookedNat DEF IngressConserved, Fields
<1>3. /\ Cells(discarded, {p}, "size") = 0 /\ Cells(routing, {p}, "size") \in Nat
      /\ InQueues(queues, {p}, "size") \in Nat
  BY <1>1, BookedNat DEF AllRouted, Fields
<1> QED
  BY <1>2, <1>3 DEF Booked, Inside

LEMMA CountedInsideNext ==
  ASSUME PoolInv', AllRouted', RouterAssumption, NEW p \in Ports \ Unroutable,
         triggered'[p], ~stopped'
  PROVE  ingressOcc'[p] = Inside({p}, "size")' /\ ingressOcc'[p] \in Nat
<1>1. IngressConserved' /\ DataTypeOK'
  BY TypePartsNext DEF PoolInv, CellsConserved
<1> DEFINE R == routing'
           Q == queues'
           D == discarded'
<1>2. R \in Seq(RoutedPackets) /\ D \in Seq(RoutedPackets) /\ Q \in [Ports -> Seq(RoutedPackets)]
  BY <1>1 DEF DataTypeOK
<1>3. Cells(R, {p}, "size") \in Nat /\ Cells(D, {p}, "size") = 0
  <2>1. "size" \in Fields
    BY DEF Fields
  <2> HIDE DEF R
  <2>2. Cells(R, {p}, "size") \in Nat
    BY <1>2, <2>1, CellsNat
  <2> QED
    BY <2>2 DEF AllRouted
<1>4. InQueues(Q, {p}, "size") \in Nat
  <2>1. "size" \in Fields /\ OneQueue(Q, Q, p)
    BY <1>2 DEF Fields, OneQueue
  <2> HIDE DEF Q
  <2> QED
    BY <2>1, InQueuesChange
<1>5. ingressOcc'[p] = Booked({p}, "size")'
  BY <1>1 DEF IngressConserved
<1> QED
  BY <1>3, <1>4, <1>5 DEF Booked, Inside

LEMMA ReleaseByCounters ==
  ASSUME RouterAssumption, ReleaseInv
  PROVE  PauseHasRelease
<1> SUFFICES ASSUME NEW p \in Ports \ Unroutable, triggered[p], ~stopped
             PROVE  sendPause[p] /\ Inside({p}, "size") > 0
  BY DEF PauseHasRelease
<1>1. ingressOcc[p] = Inside({p}, "size")
  BY CountedInside DEF ReleaseInv
<1> QED
  BY <1>1 DEF ReleaseInv, Released, ReleasedLater

LEMMA ReleaseStays ==
  ASSUME PoolInv, ~stopped, CellsConserved', UNCHANGED <<mmu, sending>>
  PROVE  PoolInv' /\ (Released => Released')
<1>1. /\ ingressFree' = ingressFree /\ ingressOcc' = ingressOcc
      /\ triggered' = triggered /\ sendPause' = sendPause
  BY DEF mmu, sending
<1> QED
  BY <1>1 DEF PoolInv, Released, ReleasedLater

\* Only RoutePacket deletes, and only ReceivePacket adds to the pipeline.
LEMMA RoutedStays ==
  ASSUME AllRouted, UNCHANGED <<routing, discarded>>
  PROVE  AllRouted'
BY DEF AllRouted

LEMMA RoutedStep ==
  ASSUME RouterAssumption, PoolInv, AllRouted, RouterNext
  PROVE  AllRouted'
<1>1. DataTypeOK
  BY TypeParts DEF PoolInv, CellsConserved
<1>2. CASE RoutePacket
  <2> SUFFICES ASSUME NEW p \in Ports \ Unroutable
               PROVE  /\ \A n \in 1..Len(routing') : routing'[n].in = p => routing'[n].to # NoRoute
                      /\ Cells(discarded', {p}, "size") = 0
    BY DEF AllRouted
  <2>1. /\ \A n \in 1..Len(routing) : routing[n].in = p => routing[n].to # NoRoute
        /\ Cells(discarded, {p}, "size") = 0
    BY DEF AllRouted
  <2>2. /\ routing # <<>> /\ routing' = Tail(routing) /\ routing \in Seq(RoutedPackets)
        /\ discarded \in Seq(RoutedPackets)
    BY <1>1, <1>2 DEF RoutePacket, DataTypeOK
  <2>3. \A n \in 1..Len(routing') : routing'[n].in = p => routing'[n].to # NoRoute
    <3>1. ASSUME NEW n \in 1..Len(routing') PROVE routing'[n] = routing[n + 1] /\ n + 1 \in 1..Len(routing)
      BY <2>2
    <3> QED
      BY <2>1, <3>1
  <2> DEFINE k == Head(routing)
  <2>4. k \in RoutedPackets /\ (k.in = p => k.to # NoRoute)
    <3>1. k = routing[1] /\ 1 \in 1..Len(routing)
      BY <2>2
    <3> QED
      BY <2>1, <2>2, <3>1
  <2>5. (k.to = NoRoute /\ discarded' = Append(discarded, k)) \/ discarded' = discarded
    BY <1>2 DEF RoutePacket
  <2> HIDE DEF k
  <2>6. CASE k.to = NoRoute /\ discarded' = Append(discarded, k)
    <3> DEFINE P == {p}
    <3>1. Amount(k, P, "size") = 0
      BY <2>4, <2>6 DEF Amount
    <3>2. "size" \in Fields
      BY DEF Fields
    <3> HIDE DEF P
    <3>3. Cells(Append(discarded, k), P, "size") = Cells(discarded, P, "size") + Amount(k, P, "size")
      BY <2>2, <2>4, <3>2, CellsAppend
    <3> QED
      BY <2>1, <2>3, <2>6, <3>1, <3>3 DEF P
  <2> QED
    BY <2>1, <2>3, <2>5, <2>6
<1>3. ASSUME NEW p \in Ports, ReceivePacket(p) PROVE AllRouted'
  <2>1. PICK size \in CellSizes, to \in Ports \cup (IF p \in Unroutable THEN {NoRoute} ELSE {}) :
             ReceivedData(p, size, to)
    BY <1>3 DEF ReceivePacket
  <2>2. p \notin Unroutable => to # NoRoute
    BY <2>1 DEF RouterAssumption
  <2> DEFINE carve == IF Pfc THEN Carve(p, size) ELSE Unchecked
             k == [in |-> p, to |-> to, size |-> size, min |-> carve.min,
                   shared |-> carve.shared, headroom |-> carve.headroom]
  <2>3. (routing' = routing \/ routing' = Append(routing, k)) /\ discarded' = discarded
    BY <1>3, <2>1 DEF ReceivedData, ReceivePacket
  <2>4. k.in = p /\ k.to = to
    OBVIOUS
  <2> HIDE DEF k
  <2>5. ASSUME NEW n \in 1..Len(routing'), routing'[n].in \notin Unroutable,
               routing'[n].in \in Ports
        PROVE  routing'[n].to # NoRoute
    <3>1. routing \in Seq(RoutedPackets)
      BY <1>1 DEF DataTypeOK
    <3>2. ASSUME n \in 1..Len(routing), routing'[n] = routing[n] PROVE routing'[n].to # NoRoute
      BY <2>5, <3>2 DEF AllRouted
    <3>3. CASE routing' = routing
      BY <3>2, <3>3
    <3>4. CASE routing' = Append(routing, k)
      <4>1. routing'[n] = k \/ (n \in 1..Len(routing) /\ routing'[n] = routing[n])
        BY <3>1, <3>4
      <4> QED
        BY <2>2, <2>4, <2>5, <3>2, <4>1
    <3> QED
      BY <2>3, <3>3, <3>4
  <2> QED
    BY <2>3, <2>5 DEF AllRouted
<1>4. ASSUME NEW p \in Ports, Events(p) \/ ReceivedPfc(p) PROVE AllRouted'
  <2>1. UNCHANGED <<routing, discarded>>
    BY <1>4 DEF Events, ScheduleOutput, SetPfcPaused, PauseEnds, ResumeOutput, PfcPauseSend,
                ReceivedPfc
  <2> QED
    BY <2>1, RoutedStays
<1> QED
  BY <1>2, <1>3, <1>4 DEF RouterNext

LEMMA ProductNat ==
  ASSUME NEW a \in Nat, NEW b \in Nat
  PROVE  a * b \in Nat
OBVIOUS

LEMMA TransmitReleases ==
  ASSUME RouterAssumption, ReleaseInv, ~stopped, CellsConserved', AllRouted',
         NEW p \in Ports, Transmit(p)
  PROVE  PoolInv' /\ (~LeavesFullPool' => Released')
<1> USE DEF ReleaseInv
<1>1. DataTypeOK /\ FlagsTypeOK
  BY TypesOfConserved DEF PoolInv
<1>2. CASE pfcQueue[p] # None
  <2>1. UNCHANGED <<mmu, triggered, sendPause>>
    BY <1>2 DEF Transmit
  <2> QED
    BY <2>1 DEF PoolInv, Released, ReleasedLater, mmu
<1>3. CASE pfcQueue[p] = None /\ ~CanTransmit(p)
  BY <1>3, ReleaseStays DEF Transmit
<1>4. CASE pfcQueue[p] = None /\ CanTransmit(p)
  <2> DEFINE k == Head(queues[p])
  <2>1. queues[p] # <<>> /\ DequeuedPacket(p, k)
    BY <1>4 DEF Transmit, CanTransmit
  <2>2. k \in RoutedPackets
    BY <1>1, <2>1 DEF DataTypeOK
  <2>3. k.in \in Ports /\ k.size \in Nat /\ k.shared \in Nat
    BY <2>2, FieldsAre
  <2> HIDE DEF k
  <2>4. CASE ~Pfc
    BY <2>1, <2>4, ReleaseStays DEF DequeuedPacket
  <2>5. CASE Pfc
    <3>1. /\ ingressFree' = ingressFree + k.shared
          /\ ingressOcc' = [ingressOcc EXCEPT ![k.in] = @ - k.size]
          /\ IF PauseOver(k) THEN DisablePfcSending(k.in) ELSE UNCHANGED sending
      BY <2>1, <2>5 DEF DequeuedPacket, IngressAccountingRelease
    <3>2. ingressFree \in Nat
      BY <1>1 DEF PoolInv, DataTypeOK
    <3>3. /\ ingressOcc'[k.in] = ingressOcc[k.in] - k.size /\ ingressOcc[k.in] \in Int
          /\ \A q \in Ports : q # k.in => ingressOcc'[q] = ingressOcc[q]
      BY <1>1, <2>3, <3>1 DEF DataTypeOK
    <3>4. /\ sendPause' = sendPause
          /\ \A q \in Ports : triggered'[q] => triggered[q]
          /\ triggered'[k.in] => ~PauseOver(k)
      <4>1. CASE PauseOver(k)
        BY <1>1, <2>3, <3>1, <4>1 DEF DisablePfcSending, FlagsTypeOK
      <4>2. CASE ~PauseOver(k)
        BY <3>1, <4>2 DEF sending
      <4> QED
        BY <4>1, <4>2
    <3>5. ingressFree' \in Nat
      BY <2>3, <3>1, <3>2
    <3>6. PoolInv'
      BY <2>5, <3>5 DEF PoolInv
    <3>0. PICK in \in Ports : in = k.in
      BY <2>3
    <3>7. ASSUME triggered'[in], in \notin Unroutable, ~stopped', ~LeavesFullPool'
          PROVE  ingressOcc'[in] > 0
      <4> DEFINE limit == ingressFree' * AlphaIn
      <4>1. ~(ingressOcc[in] - k.size < (ingressFree + k.shared) * AlphaIn + Guarantee)
        BY <3>0, <3>4, <3>7 DEF PauseOver
      <4>2. AlphaIn \in Nat /\ Guarantee \in Nat
        BY DEF RouterAssumption
      <4>3. limit \in Nat
        BY <3>5, <4>2, ProductNat
      <4>4. limit = (ingressFree + k.shared) * AlphaIn
        BY <3>1
      <4>5. TriggerLimit(in)' = limit + Guarantee
        BY DEF TriggerLimit
      <4> HIDE DEF limit
      <4>6. ~(ingressOcc'[in] < limit + Guarantee) /\ ingressOcc'[in] \in Int
        BY <2>3, <3>0, <3>3, <4>1, <4>4
      <4>7. ingressOcc'[in] = Inside({in}, "size")'
        BY <3>6, <3>7, CountedInsideNext
      <4>8. ~(Inside({in}, "size")' = 0 /\ TriggerLimit(in)' = 0)
        BY <3>7 DEF LeavesFullPool
      <4> QED
        BY <4>2, <4>3, <4>5, <4>6, <4>7, <4>8
    <3>8. ASSUME NEW q \in Ports \ Unroutable, ~LeavesFullPool' PROVE ReleasedLater(q)'
      <4> SUFFICES ASSUME triggered'[q], ~stopped' PROVE sendPause'[q] /\ ingressOcc'[q] > 0
        BY DEF ReleasedLater
      <4>1. sendPause[q] /\ ingressOcc[q] > 0
        BY <3>4 DEF Released, ReleasedLater
      <4> QED
        BY <3>0, <3>3, <3>4, <3>7, <3>8, <4>1
    <3> QED
      BY <3>6, <3>8 DEF Released
  <2> QED
    BY <2>4, <2>5
<1> QED
  BY <1>2, <1>3, <1>4

LEMMA ReceiveReleases ==
  ASSUME RouterAssumption, ReleaseInv, CellsConserved', NEW p \in Ports, ReceivePacket(p)
  PROVE  PoolInv' /\ Released'
<1> USE DEF ReleaseInv
<1>1. /\ DataTypeOK /\ FlagsTypeOK /\ ~stopped
  BY TypesOfConserved DEF PoolInv, ReceivePacket
<1>2. PICK size \in CellSizes, to \in Ports \cup {NoRoute} : ReceivedData(p, size, to)
  BY DEF ReceivePacket
<1> DEFINE carve == IF Pfc THEN Carve(p, size) ELSE Unchecked
           drop == headroomOcc[p] + carve.headroom > Headroom
<1>3. /\ IF Pfc /\ Triggers(p, size) THEN EnablePfcSending(p) ELSE UNCHANGED <<sending, lines>>
      /\ IF drop \/ ~Pfc THEN UNCHANGED mmu
         ELSE /\ ingressFree' = ingressFree - carve.shared
              /\ ingressOcc' = [ingressOcc EXCEPT ![p] = @ + size]
      /\ stopped' = (Pfc /\ ~drop /\ ingressFree < carve.shared)
  BY <1>2 DEF ReceivedData
<1>4. /\ carve.shared \in Nat /\ carve.headroom \in Nat
  BY <1>1, CarveIs DEF Unchecked
<1>5. size \in Nat \ {0} /\ size <= Headroom /\ Headroom \in Nat
  <2>1. CellSizes \subseteq 1..Headroom /\ Headroom \in Nat
    BY DEF RouterAssumption
  <2>2. size \in 1..Headroom
    BY <2>1
  <2> QED
    BY <2>1, <2>2
<1> HIDE DEF carve, drop
<1>6. CASE ~Pfc
  BY <1>1, <1>3, <1>6, ReleaseStays
<1>7. CASE Pfc
  <2>1. ingressFree \in Nat /\ \A q \in Ports : ingressOcc[q] \in Int
    BY <1>1 DEF PoolInv, DataTypeOK
  <2>2. ~stopped' => ingressFree' >= 0
    <3> SUFFICES ASSUME ~stopped' PROVE ingressFree' >= 0
      OBVIOUS
    <3>1. CASE drop
      BY <1>3, <2>1, <3>1 DEF mmu
    <3>2. CASE ~drop
      <4>1. ingressFree' = ingressFree - carve.shared /\ ~(ingressFree < carve.shared)
        BY <1>3, <1>7, <3>2
      <4> QED
        BY <1>4, <2>1, <4>1
    <3> QED
      BY <3>1, <3>2
  <2>3. /\ \A q \in Ports : q # p => ingressOcc'[q] = ingressOcc[q]
        /\ ingressOcc'[p] \in Int /\ ingressOcc'[p] >= ingressOcc[p]
        /\ ~drop => ingressOcc'[p] = ingressOcc[p] + size
    <3>1. CASE drop
      BY <1>3, <2>1, <3>1 DEF mmu
    <3>2. CASE ~drop
      <4>1. ingressOcc' = [ingressOcc EXCEPT ![p] = @ + size]
        BY <1>3, <1>7, <3>2
      <4>2. ingressOcc'[p] = ingressOcc[p] + size
            /\ \A q \in Ports : q # p => ingressOcc'[q] = ingressOcc[q]
        BY <1>1, <4>1 DEF DataTypeOK
      <4> QED
        BY <1>5, <2>1, <4>2
    <3> QED
      BY <3>1, <3>2
  <2>4. \A q \in Ports \ Unroutable : ReleasedLater(q)
    BY DEF Released
  <2>5. CASE ~Triggers(p, size)
    <3>1. triggered' = triggered /\ sendPause' = sendPause
      BY <1>3, <2>5 DEF sending
    <3>2. ASSUME NEW q \in Ports \ Unroutable PROVE ReleasedLater(q)'
      <4> SUFFICES ASSUME triggered[q] PROVE sendPause[q] /\ ingressOcc'[q] > 0
        BY <3>1 DEF ReleasedLater
      <4>1. sendPause[q] /\ ingressOcc[q] > 0
        BY <1>1, <2>4 DEF ReleasedLater
      <4>2. CASE q = p
        BY <2>1, <2>3, <4>1, <4>2
      <4>3. CASE q # p
        BY <2>3, <4>1, <4>3
      <4> QED
        BY <4>2, <4>3
    <3> QED
      BY <1>7, <2>2, <3>2 DEF PoolInv, Released
  <2>6. CASE Triggers(p, size)
    <3>1. /\ triggered' = [triggered EXCEPT ![p] = TRUE] /\ sendPause' = [sendPause EXCEPT ![p] = TRUE]
      BY <1>3, <1>7, <2>6 DEF EnablePfcSending, SendPfc
    <3>2. sendPause'[p] /\ \A q \in Ports : q # p => triggered'[q] = triggered[q] /\ sendPause'[q] = sendPause[q]
      BY <1>1, <3>1 DEF FlagsTypeOK
    <3>3. /\ IngressConserved /\ ingressOcc[p] = Booked({p}, "size")
          /\ headroomOcc[p] = Booked({p}, "headroom")
      BY <1>1, <1>7 DEF PoolInv, CellsConserved, IngressConserved
    <3>4. Booked({p}, "size") \in Nat /\ Booked({p}, "headroom") \in Nat
      BY <1>1, BookedNat DEF Fields
    <3>5. ingressOcc'[p] > 0
      <4>1. CASE ~drop
        BY <1>5, <2>3, <3>3, <3>4, <4>1
      <4>2. CASE drop
        <5>1. carve.headroom = size
          BY <1>7, <2>6 DEF carve, Carve
        <5>2. headroomOcc[p] > 0
          BY <1>5, <3>3, <3>4, <4>2, <5>1 DEF drop
        <5>3. Booked({p}, "size") > 0
          BY <1>1, <3>3, <5>2, BookedPositive DEF Fields
        <5> QED
          BY <2>1, <2>3, <3>3, <3>4, <5>3
      <4> QED
        BY <4>1, <4>2
    <3>6. ASSUME NEW q \in Ports \ Unroutable PROVE ReleasedLater(q)'
      <4>1. CASE q = p
        BY <3>2, <3>5, <4>1 DEF ReleasedLater
      <4>2. CASE q # p
        BY <1>1, <2>3, <2>4, <3>2, <4>2 DEF ReleasedLater
      <4> QED
        BY <4>1, <4>2
    <3> QED
      BY <1>7, <2>2, <3>6 DEF PoolInv, Released
  <2> QED
    BY <2>5, <2>6
<1> QED
  BY <1>6, <1>7

\* A step that is neither an output nor an arrival of a packet keeps what the
\* counters say.
LEMMA PfcPauseSendReleases ==
  ASSUME RouterAssumption, ReleaseInv, CellsConserved', NEW p \in Ports, PfcPauseSend(p)
  PROVE  PoolInv' /\ Released'
<1>1. FlagsTypeOK
  BY TypesOfConserved DEF ReleaseInv, PoolInv
<1>2. /\ triggered' = triggered /\ ingressOcc' = ingressOcc /\ ingressFree' = ingressFree
      /\ stopped' = stopped
      /\ sendPause' = [sendPause EXCEPT ![p] = TRUE] \/ ~triggered[p]
      /\ \A q \in Ports : q # p => sendPause'[q] = sendPause[q]
  BY <1>1 DEF PfcPauseSend, SendPfc, mmu, FlagsTypeOK
<1>3. triggered[p] => sendPause'[p]
  BY <1>1, <1>2 DEF FlagsTypeOK
<1> QED
  BY <1>2, <1>3 DEF ReleaseInv, PoolInv, Released, ReleasedLater

LEMMA ReleaseStep ==
  ASSUME RouterAssumption, ReleaseInv, RouterNext
  PROVE  PoolInv' /\ AllRouted' /\ (~LeavesFullPool' => Released')
<1>0. PoolInv /\ Released /\ AllRouted
  BY DEF ReleaseInv
<1>1. CellsConserved' /\ AllRouted'
  BY <1>0, ConservedStep, RoutedStep DEF PoolInv
<1> DEFINE Holds == PoolInv' /\ (~LeavesFullPool' => Released')
<1>2. CASE RoutePacket
  BY <1>0, <1>1, <1>2, ReleaseStays DEF RoutePacket
<1>3. ASSUME NEW p \in Ports, ScheduleOutput(p) PROVE Holds
  BY <1>1, <1>3, TransmitReleases DEF ScheduleOutput
<1>4. ASSUME NEW p \in Ports, SetPfcPaused(p) PROVE Holds
  BY <1>0, <1>1, <1>4, ReleaseStays DEF SetPfcPaused
<1>5. ASSUME NEW p \in Ports, PauseEnds(p) PROVE Holds
  BY <1>0, <1>1, <1>5, ReleaseStays DEF PauseEnds
<1>6. ASSUME NEW p \in Ports, ResumeOutput(p) PROVE Holds
  <2>1. CASE portActive[p]
    BY <1>0, <1>1, <1>6, <2>1, ReleaseStays DEF ResumeOutput
  <2>2. CASE ~portActive[p]
    BY <1>1, <1>6, <2>2, TransmitReleases DEF ResumeOutput
  <2> QED
    BY <2>1, <2>2
<1>7. ASSUME NEW p \in Ports, PfcPauseSend(p) PROVE Holds
  BY <1>1, <1>7, PfcPauseSendReleases
<1>8. ASSUME NEW p \in Ports, ReceivePacket(p) PROVE Holds
  BY <1>1, <1>8, ReceiveReleases
<1>9. ASSUME NEW p \in Ports, ReceivedPfc(p) PROVE Holds
  BY <1>0, <1>1, <1>9, ReleaseStays DEF ReceivedPfc
<1> QED
  BY <1>1, <1>2, <1>3, <1>4, <1>5, <1>6, <1>7, <1>8, <1>9 DEF RouterNext, Events

\* A paused peer whose packets all have a route always has one of them inside,
\* whose dequeue looks at the limit again (EnablePfcSending, DequeuedPacket),
\* unless the last of them left while the limit was 0; and no port with a
\* guarantee ever has that limit.
THEOREM PausesAlwaysReleased ==
  ASSUME RouterAssumption
  PROVE  RouterSpec => /\ []PauseHasRelease \/ <>LeavesFullPool
                       /\ Guarantee > 0 => [](PauseHasRelease /\ ~LeavesFullPool)
<1>1. RouterInit => ReleaseInv
  <2> SUFFICES ASSUME RouterInit PROVE ReleaseInv
    OBVIOUS
  <2>1. CellsConserved
    BY InitConserved
  <2>2. (\A p \in Ports : ~triggered[p]) /\ ingressFree = IngressPool /\ routing = <<>>
        /\ discarded = <<>>
    BY DEF RouterInit
  <2>3. IngressPool >= 0
    BY DEF RouterAssumption
  <2>4. AllRouted
    <3>1. \A P : Cells(discarded, P, "size") = 0
      BY <2>2, CellsEmpty
    <3> QED
      BY <2>2, <3>1 DEF AllRouted
  <2> QED
    BY <2>1, <2>2, <2>3, <2>4 DEF ReleaseInv, PoolInv, Released, ReleasedLater
<1>2. ReleaseInv /\ [RouterNext]_routerVars /\ ~LeavesFullPool' => ReleaseInv'
  <2> SUFFICES ASSUME ReleaseInv, [RouterNext]_routerVars, ~LeavesFullPool' PROVE ReleaseInv'
    OBVIOUS
  <2>1. CASE RouterNext
    BY <2>1, ReleaseStep DEF ReleaseInv
  <2>2. CASE UNCHANGED routerVars
    <3>1. CellsConserved'
      BY <2>2, ConservedStep DEF ReleaseInv, PoolInv
    <3>2. /\ ingressFree' = ingressFree /\ ingressOcc' = ingressOcc /\ stopped' = stopped
          /\ triggered' = triggered /\ sendPause' = sendPause
          /\ UNCHANGED <<routing, discarded>>
      BY <2>2 DEF routerVars, mmu, sending
    <3>3. AllRouted'
      BY <3>2, RoutedStays DEF ReleaseInv
    <3> QED
      BY <3>1, <3>2, <3>3 DEF ReleaseInv, PoolInv, Released, ReleasedLater
  <2> QED
    BY <2>1, <2>2
<1>3. ReleaseInv => PauseHasRelease
  BY ReleaseByCounters
<1>4. ASSUME Guarantee > 0 PROVE PoolInv => ~LeavesFullPool
  <2> SUFFICES ASSUME PoolInv, NEW p \in Ports, ~stopped, TriggerLimit(p) = 0 PROVE FALSE
    BY DEF LeavesFullPool
  <2>1. ingressFree \in Nat
    BY TypesOfConserved DEF PoolInv, DataTypeOK
  <2>2. AlphaIn \in Nat /\ Guarantee \in Nat
    BY DEF RouterAssumption
  <2> DEFINE limit == ingressFree * AlphaIn
  <2>3. limit \in Nat
    BY <2>1, <2>2, ProductNat
  <2>4. limit + Guarantee = 0
    BY DEF TriggerLimit
  <2> HIDE DEF limit
  <2> QED
    BY <1>4, <2>2, <2>3, <2>4
<1>5. ReleaseInv => PoolInv
  BY DEF ReleaseInv
<1>6. ReleaseInv /\ [RouterNext]_routerVars => PoolInv'
  <2> SUFFICES ASSUME ReleaseInv, [RouterNext]_routerVars PROVE PoolInv'
    OBVIOUS
  <2>1. CASE RouterNext
    BY <2>1, ReleaseStep
  <2>2. CASE UNCHANGED routerVars
    <3>1. CellsConserved'
      BY <2>2, ConservedStep DEF ReleaseInv, PoolInv
    <3>2. ingressFree' = ingressFree /\ stopped' = stopped /\ triggered' = triggered
      BY <2>2 DEF routerVars, mmu, sending
    <3> QED
      BY <3>1, <3>2 DEF ReleaseInv, PoolInv
  <2> QED
    BY <2>1, <2>2
<1>7. RouterSpec => []PauseHasRelease \/ <>LeavesFullPool
  BY <1>1, <1>2, <1>3, PTL DEF RouterSpec
<1>8. ASSUME Guarantee > 0 PROVE RouterSpec => [](PauseHasRelease /\ ~LeavesFullPool)
  <2>1. PoolInv => ~LeavesFullPool
    BY <1>4, <1>8
  <2> QED
    BY <1>1, <1>2, <1>3, <1>5, <1>6, <2>1, PTL DEF RouterSpec
<1> QED
  BY <1>7, <1>8
=============================================================================
