----------------------- MODULE ResourceManager_proofs -----------------------
(* Proofs about ResourceManager, for every set of connections, requests and  *)
(* pool sizes: no credit is lost, overdrawn or returned twice, and what waits *)
(* for a missing request leaves room for it.                                 *)
EXTENDS ResourceManager, FiniteSetTheorems, FunctionTheorems, WellFoundedInduction, TLAPS
-----------------------------------------------------------------------------
(* Sums over finite sets, counted one by one. *)

Tokens(f, S) == UNION {{x} \X (1..f[x]) : x \in S}
Tally(f, S) == Cardinality(Tokens(f, S))

LEMMA OneToN ==
  ASSUME NEW n \in Nat
  PROVE  IsFiniteSet(1..n) /\ Cardinality(1..n) = n
<1>1. 1 \in Int /\ n \in Int
  OBVIOUS
<1> QED
  BY <1>1, FS_Interval

LEMMA BelowN ==
  ASSUME NEW n \in Nat, NEW D, D \subseteq 0..(n - 1)
  PROVE  IsFiniteSet(D) /\ Cardinality(D) \in Nat /\ Cardinality(D) <= n
<1>1. 0 \in Int /\ n - 1 \in Int
  OBVIOUS
<1>2. IsFiniteSet(0..(n - 1)) /\ Cardinality(0..(n - 1)) = (IF 0 > n - 1 THEN 0 ELSE (n - 1) - 0 + 1)
  BY <1>1, FS_Interval
<1>3. Cardinality(0..(n - 1)) = n
  BY <1>2
<1>4. IsFiniteSet(D) /\ Cardinality(D) <= Cardinality(0..(n - 1))
  BY <1>2, FS_Subset
<1> QED
  BY <1>3, <1>4, FS_CardinalityType

LEMMA TokensFinite ==
  ASSUME NEW f, NEW S, IsFiniteSet(S), \A x \in S : f[x] \in Nat
  PROVE  IsFiniteSet(Tokens(f, S)) /\ Tally(f, S) \in Nat
<1> DEFINE parts == {{x} \X (1..f[x]) : x \in S}
           g == [x \in S |-> {x} \X (1..f[x])]
<1>1. g \in Surjection(S, parts)
  BY DEF Surjection
<1>2. IsFiniteSet(parts)
  BY <1>1, FS_Surjection
<1>3. ASSUME NEW x \in S PROVE IsFiniteSet({x} \X (1..f[x]))
  <2>1. IsFiniteSet({x}) /\ IsFiniteSet(1..f[x])
    BY FS_Singleton, OneToN
  <2> QED
    BY <2>1, FS_Product
<1>4. \A T \in parts : IsFiniteSet(T)
  BY <1>3
<1>5. IsFiniteSet(UNION parts)
  BY <1>2, <1>4, FS_UNION
<1> QED
  BY <1>5, FS_CardinalityType DEF Tokens, Tally

LEMMA TallyRemove ==
  ASSUME NEW f, NEW S, IsFiniteSet(S), \A x \in S : f[x] \in Nat, NEW r \in S
  PROVE  Tally(f, S) = Tally(f, S \ {r}) + f[r] /\ Tally(f, S \ {r}) \in Nat
<1> DEFINE A == Tokens(f, S \ {r})
           B == {r} \X (1..f[r])
<1>1. Tokens(f, S) = A \cup B
  BY DEF Tokens
<1>2. A \cap B = {}
  BY DEF Tokens
<1>3. IsFiniteSet(S \ {r})
  BY FS_RemoveElement
<1>4. IsFiniteSet(A) /\ Cardinality(A) \in Nat
  BY <1>3, TokensFinite DEF Tally
<1>5. IsFiniteSet(B) /\ Cardinality(B) = f[r]
  <2>1. IsFiniteSet({r}) /\ IsFiniteSet(1..f[r]) /\ Cardinality({r}) = 1
        /\ Cardinality(1..f[r]) = f[r]
    BY FS_Singleton, OneToN
  <2> QED
    BY <2>1, FS_Product
<1>6. Cardinality(A \cup B) = Cardinality(A) + Cardinality(B) - 0
  <2> HIDE DEF A, B
  <2>1. Cardinality(A \cap B) = 0
    BY <1>2, FS_EmptySet
  <2> QED
    BY <1>4, <1>5, <2>1, FS_Union
<1> QED
  BY <1>1, <1>4, <1>5, <1>6 DEF Tally

LEMMA TallyMonotone ==
  ASSUME NEW f, NEW g, NEW S, NEW T, IsFiniteSet(T), S \subseteq T,
         \A x \in T : g[x] \in Nat,
         \A x \in S : f[x] \in Nat /\ f[x] <= g[x]
  PROVE  Tally(f, S) <= Tally(g, T) /\ Tally(f, S) \in Nat /\ Tally(g, T) \in Nat
<1>1. Tokens(f, S) \subseteq Tokens(g, T)
  <2>1. \A x \in S : \A k \in 1..f[x] : k \in 1..g[x]
    OBVIOUS
  <2> QED
    BY <2>1 DEF Tokens
<1>2. IsFiniteSet(S)
  BY FS_Subset
<1> QED
  BY <1>1, <1>2, TokensFinite, FS_Subset DEF Tally

LEMMA TallySame ==
  ASSUME NEW f, NEW g, NEW S, \A x \in S : f[x] = g[x]
  PROVE  Tally(f, S) = Tally(g, S)
<1>1. Tokens(f, S) = Tokens(g, S)
  BY DEF Tokens
<1> QED
  BY <1>1 DEF Tally

\* One element of the sum changes.
LEMMA TallyChange ==
  ASSUME NEW f, NEW g, NEW S, IsFiniteSet(S),
         \A x \in S : f[x] \in Nat /\ g[x] \in Nat,
         NEW r \in S, \A x \in S : x # r => g[x] = f[x]
  PROVE  Tally(g, S) + f[r] = Tally(f, S) + g[r]
<1>1. Tally(f, S) = Tally(f, S \ {r}) + f[r] /\ Tally(f, S \ {r}) \in Nat
  BY TallyRemove
<1>2. Tally(g, S) = Tally(g, S \ {r}) + g[r] /\ Tally(g, S \ {r}) \in Nat
  BY TallyRemove
<1>3. Tally(f, S \ {r}) = Tally(g, S \ {r})
  BY TallySame
<1> QED
  BY <1>1, <1>2, <1>3

LEMMA TallyEmpty ==
  ASSUME NEW f
  PROVE  Tally(f, {}) = 0
BY FS_EmptySet DEF Tally, Tokens

LEMMA TallyZero ==
  ASSUME NEW f, NEW S, \A x \in S : f[x] = 0
  PROVE  Tally(f, S) = 0
<1>1. Tokens(f, S) = {}
  BY DEF Tokens
<1> QED
  BY <1>1, FS_EmptySet DEF Tally
-----------------------------------------------------------------------------
(* The largest element of a finite set. *)

\* A set without a largest element has no smallest finite witness.
LEMMA FiniteHasMax ==
  ASSUME NEW S, IsFiniteSet(S), S # {}, S \subseteq Int
  PROVE  \E m \in S : \A x \in S : m >= x
<1> DEFINE bad == {T \in SUBSET S : T # {} /\ ~\E m \in T : \A x \in T : m >= x}
<1>1. SUFFICES bad = {}
  OBVIOUS
<1>2. SUFFICES ASSUME bad # {} PROVE FALSE
  OBVIOUS
<1>3. FiniteSubsetsOf(S) = SUBSET S
  BY FS_FiniteSubsetsOfFinite
<1>4. bad \subseteq FiniteSubsetsOf(S)
  BY <1>3
<1>5. PICK T \in bad : \A U \in bad : ~(<<U, T>> \in StrictSubsetOrdering(S))
  <2> HIDE DEF bad
  <2> QED
    BY <1>2, <1>4, FS_StrictSubsetOrderingWellFounded, WFMin
<1>6. PICK a \in T : TRUE
  OBVIOUS
<1>7. T \ {a} \notin bad
  BY <1>5, <1>6 DEF StrictSubsetOrdering
<1>8. CASE T \ {a} = {}
  <2>1. T = {a} /\ a \in Int
    BY <1>6, <1>8
  <2> QED
    BY <2>1
<1>9. CASE T \ {a} # {}
  <2>1. PICK m \in T \ {a} : \A x \in T \ {a} : m >= x
    BY <1>7, <1>9
  <2>2. m \in Int /\ a \in Int /\ T \subseteq Int
    BY <1>6, <2>1
  <2>3. CASE m >= a
    BY <2>1, <2>2, <2>3
  <2>4. CASE a >= m
    <3>1. \A x \in T : a >= x
      BY <2>1, <2>2, <2>4
    <3> QED
      BY <1>6, <3>1
  <2> QED
    BY <2>2, <2>3, <2>4
<1> QED
  BY <1>8, <1>9

LEMMA MaxIsMax ==
  ASSUME NEW S, IsFiniteSet(S), S # {}, S \subseteq Int
  PROVE  Max(S) \in S /\ \A x \in S : Max(S) >= x
BY FiniteHasMax DEF Max
-----------------------------------------------------------------------------
(* Requests and the credits they hold. *)

LEMMA RequestParts ==
  ASSUME RequestsAssumption
  PROVE  /\ \A r \in Requests : r[1] \in Conns /\ r[2] \in Rsns(r[1]) /\ r = <<r[1], r[2]>>
         /\ \A c \in Conns : \A i \in Rsns(c) : <<c, i>> \in Requests
         /\ \A c \in Conns : Rsns(c) \subseteq Nat /\ IsFiniteSet(Rsns(c))
         /\ IsFiniteSet(Requests) /\ Requests # {}
<1>1. \A r \in Requests : r[1] \in Conns /\ r[2] \in Rsns(r[1]) /\ r = <<r[1], r[2]>>
  BY DEF Requests
<1>2. \A c \in Conns : \A i \in Rsns(c) : <<c, i>> \in Requests
  BY DEF Requests
<1>3. ASSUME NEW c \in Conns PROVE Rsns(c) \subseteq Nat /\ IsFiniteSet(Rsns(c)) /\ 0 \in Rsns(c)
  <2>1. Count[c] \in Nat \ {0}
    BY DEF RequestsAssumption
  <2>2. 0 \in Int /\ Count[c] - 1 \in Int
    BY <2>1
  <2>3. IsFiniteSet(0..(Count[c] - 1))
    BY <2>2, FS_Interval
  <2> QED
    BY <2>1, <2>3 DEF Rsns
<1>4. Requests # {}
  BY <1>2, <1>3 DEF RequestsAssumption
<1>5. IsFiniteSet(Requests)
  <2> DEFINE parts == {{c} \X Rsns(c) : c \in Conns}
             g == [c \in Conns |-> {c} \X Rsns(c)]
  <2>1. g \in Surjection(Conns, parts)
    BY DEF Surjection
  <2>2. IsFiniteSet(parts)
    BY <2>1, FS_Surjection DEF RequestsAssumption
  <2>3. ASSUME NEW c \in Conns PROVE IsFiniteSet({c} \X Rsns(c))
    <3>1. IsFiniteSet({c}) /\ IsFiniteSet(Rsns(c))
      BY <1>3, FS_Singleton
    <3> QED
      BY <3>1, FS_Product
  <2>4. \A T \in parts : IsFiniteSet(T)
    BY <2>3
  <2>5. IsFiniteSet(UNION parts)
    BY <2>2, <2>4, FS_UNION
  <2> QED
    BY <2>5 DEF Requests
<1> QED
  BY <1>1, <1>2, <1>3, <1>4, <1>5

LEMMA CreditsOfRequest ==
  ASSUME RequestsAssumption, NEW r \in Requests, NEW p \in Pools
  PROVE  /\ RxCredits(r)[p] \in Nat /\ GrantCredits[p] \in Nat /\ Nothing[p] = 0
         /\ Need(r)[p] = RxCredits(r)[p] + (IF KindOf(r) = "push" THEN GrantCredits[p] ELSE 0)
         /\ Need(r)[p] \in Nat
<1>1. Size[r[1]][r[2]] \in Nat
  BY DEF RequestsAssumption
<1>2. RxCredits(r)[p] \in Nat /\ GrantCredits[p] \in Nat /\ Nothing[p] = 0
  BY <1>1 DEF RxCredits, GrantCredits, Nothing, Pools
<1>3. Need(r)[p] = RxCredits(r)[p] + (IF KindOf(r) = "push" THEN GrantCredits[p] ELSE 0)
  BY <1>2 DEF Need, Plus
<1> QED
  BY <1>2, <1>3

\* Places in which a request holds its RX credits.
Inside == {"held", "granted", "arrived", "ulp"}

LEMMA HoldsOfRequest ==
  ASSUME RequestsAssumption, NEW r \in Requests, NEW p \in Pools
  PROVE  /\ Holds(r)[p] = (IF place[r] \in Inside THEN RxCredits(r)[p] ELSE 0)
                           + (IF r \in grants THEN GrantCredits[p] ELSE 0)
         /\ Holds(r)[p]' = (IF place'[r] \in Inside THEN RxCredits(r)[p] ELSE 0)
                            + (IF r \in grants' THEN GrantCredits[p] ELSE 0)
         /\ Holds(r)[p] \in Nat /\ Holds(r)[p]' \in Nat
<1>1. RxCredits(r)[p] \in Nat /\ GrantCredits[p] \in Nat /\ Nothing[p] = 0
  BY CreditsOfRequest
<1> QED
  BY <1>1 DEF Holds, Plus, Inside

\* The holdings as a function.
Holding(p) == [r \in Requests |-> Holds(r)[p]]

LEMMA HoldingType ==
  ASSUME RequestsAssumption, NEW p \in Pools
  PROVE  \A r \in Requests : /\ Holding(p)[r] = Holds(r)[p] /\ Holding(p)'[r] = Holds(r)[p]'
                             /\ Holding(p)[r] \in Nat /\ Holding(p)'[r] \in Nat
<1> SUFFICES ASSUME NEW r \in Requests
             PROVE  /\ Holding(p)[r] = Holds(r)[p] /\ Holding(p)'[r] = Holds(r)[p]'
                    /\ Holding(p)[r] \in Nat /\ Holding(p)'[r] \in Nat
  OBVIOUS
<1>1. Holding(p)[r] = Holds(r)[p] /\ Holding(p)'[r] = Holds(r)[p]'
  BY DEF Holding
<1> QED
  BY <1>1, HoldsOfRequest

LEMMA HeldIsTally ==
  ASSUME NEW S, S \subseteq Requests, NEW p \in Pools
  PROVE  Held(S, p) = Tally(Holding(p), S) /\ Held(S, p)' = Tally(Holding(p)', S)
<1>1. UNION {{r} \X (1..Holds(r)[p]) : r \in S} = Tokens(Holding(p), S)
  <2>1. \A r \in S : Holding(p)[r] = Holds(r)[p]
    BY DEF Holding
  <2> QED
    BY <2>1 DEF Tokens
<1>2. UNION {{r} \X (1..Holds(r)[p]') : r \in S} = Tokens(Holding(p)', S)
  <2>1. \A r \in S : Holding(p)'[r] = Holds(r)[p]'
    BY DEF Holding
  <2> QED
    BY <2>1 DEF Tokens
<1> QED
  BY <1>1, <1>2 DEF Held, Tally

LEMMA BlockedIsTally ==
  ASSUME NEW p \in Pools
  PROVE  /\ Held(Blocked, p) = Tally(Holding(p), Blocked)
         /\ Held(Blocked, p)' = Tally(Holding(p)', Blocked')
<1>1. Blocked \subseteq Requests /\ Blocked' \subseteq Requests
  BY DEF Blocked
<1>2. UNION {{r} \X (1..Holds(r)[p]') : r \in Blocked'} = Tokens(Holding(p)', Blocked')
  <2>1. \A r \in Blocked' : Holding(p)'[r] = Holds(r)[p]'
    BY <1>1 DEF Holding
  <2> QED
    BY <2>1 DEF Tokens
<1> QED
  BY <1>1, <1>2, HeldIsTally DEF Held, Tally

LEMMA NeedBelowLargest ==
  ASSUME RequestsAssumption, NEW p \in Pools
  PROVE  Largest(p) \in Nat /\ \A r \in Requests : Need(r)[p] <= Largest(p)
<1> DEFINE N == {Need(r)[p] : r \in Requests}
           g == [r \in Requests |-> Need(r)[p]]
<1>1. g \in Surjection(Requests, N)
  BY DEF Surjection
<1>2. IsFiniteSet(N) /\ N # {}
  BY <1>1, RequestParts, FS_Surjection
<1>3. N \subseteq Nat
  BY CreditsOfRequest
<1>4. Max(N) \in N /\ \A x \in N : Max(N) >= x
  <2> HIDE DEF N
  <2>1. N \subseteq Int
    BY <1>3
  <2> QED
    BY <1>2, <2>1, MaxIsMax
<1>5. \A r \in Requests : Need(r)[p] \in N /\ Need(r)[p] \in Nat
  BY <1>3
<1>6. Largest(p) = Max(N)
  BY DEF Largest
<1> HIDE DEF N
<1> QED
  BY <1>3, <1>4, <1>5, <1>6
-----------------------------------------------------------------------------
(* Steps and the sums. *)

\* A step changes what request r holds, and moves the difference between it
\* and the pools.
LEMMA CreditsStep ==
  ASSUME RequestsAssumption, CreditsConserved,
         credits \in [Pools -> Int], credits' \in [Pools -> Int],
         NEW r \in Requests,
         \A q \in Requests : q # r => place'[q] = place[q] /\ (q \in grants' <=> q \in grants),
         \A p \in Pools : credits'[p] + Holds(r)[p]' = credits[p] + Holds(r)[p],
         \A p \in Pools : credits'[p] >= 0
  PROVE  CreditsConserved'
<1> SUFFICES ASSUME NEW p \in Pools PROVE credits'[p] + Held(Requests, p)' = Total[p]
  BY DEF CreditsConserved
<1>1. IsFiniteSet(Requests)
  BY RequestParts
<1>2. \A q \in Requests : Holding(p)[q] \in Nat /\ Holding(p)'[q] \in Nat
  BY HoldingType
<1>3. \A q \in Requests : q # r => Holding(p)'[q] = Holding(p)[q]
  BY DEF Holding, Holds
<1>4. Tally(Holding(p)', Requests) + Holding(p)[r] = Tally(Holding(p), Requests) + Holding(p)'[r]
  BY <1>1, <1>2, <1>3, TallyChange
<1>5. Tally(Holding(p), Requests) \in Nat /\ Tally(Holding(p)', Requests) \in Nat
  BY <1>1, <1>2, TokensFinite
<1>6. /\ Held(Requests, p) = Tally(Holding(p), Requests)
      /\ Held(Requests, p)' = Tally(Holding(p)', Requests)
  BY HeldIsTally
<1>7. Holding(p)[r] = Holds(r)[p] /\ Holding(p)'[r] = Holds(r)[p]'
  BY HoldingType
<1>8. credits[p] + Held(Requests, p) = Total[p] /\ Total[p] \in Nat
  BY DEF CreditsConserved, RequestsAssumption
<1> QED
  BY <1>2, <1>4, <1>5, <1>6, <1>7, <1>8

\* A step that admits no request leaves those that wait for a missing one with
\* what they had or less.
LEMMA BlockedStep ==
  ASSUME RequestsAssumption, ThresholdAssumption, BlockedBelowYellow,
         \A q \in Requests : place'[q] = "wire" <=> place[q] = "wire",
         \A q \in Requests, p \in Pools : Holds(q)[p]' <= Holds(q)[p]
  PROVE  BlockedBelowYellow'
<1> SUFFICES ASSUME NEW p \in Pools PROVE Held(Blocked, p)' < GreenEnd[p] + Largest(p)
  BY DEF BlockedBelowYellow
<1>1. Blocked' = Blocked /\ Blocked \subseteq Requests
  BY DEF Blocked, Earlier
<1>2. IsFiniteSet(Blocked)
  BY <1>1, RequestParts, FS_Subset
<1>3. /\ Tally(Holding(p)', Blocked) <= Tally(Holding(p), Blocked)
      /\ Tally(Holding(p)', Blocked) \in Nat /\ Tally(Holding(p), Blocked) \in Nat
  BY <1>1, <1>2, HoldingType, TallyMonotone
<1>4. /\ Held(Blocked, p) = Tally(Holding(p), Blocked)
      /\ Held(Blocked, p)' = Tally(Holding(p)', Blocked)
  BY <1>1, BlockedIsTally
<1>5. GreenEnd[p] \in Nat /\ Largest(p) \in Nat
  BY NeedBelowLargest DEF ThresholdAssumption
<1> QED
  BY <1>3, <1>4, <1>5 DEF BlockedBelowYellow

LEMMA AcksStep ==
  ASSUME RequestsAssumption, AcksCounted, acks' = acks,
         \A q \in Requests : place'[q] = "done" <=> place[q] = "done"
  PROVE  AcksCounted'
<1>1. ASSUME NEW c \in Conns
      PROVE  {i \in Rsns(c) : place'[<<c, i>>] = "done"} = {i \in Rsns(c) : place[<<c, i>>] = "done"}
  BY RequestParts
<1> QED
  BY <1>1 DEF AcksCounted

LEMMA DeliveryStep ==
  ASSUME DeliveredInOrder,
         \A q \in Requests : place'[q] \in {"ulp", "done"} <=> place[q] \in {"ulp", "done"}
  PROVE  DeliveredInOrder'
BY DEF DeliveredInOrder, Earlier
-----------------------------------------------------------------------------
(* Admission. *)

\* A request behind a missing one is not at the head of line: what the ULP has
\* acknowledged is before the missing one.
LEMMA BehindMissing ==
  ASSUME RequestsAssumption, TypeOK, DeliveredInOrder, AcksCounted,
         NEW r \in Requests, NEW q \in Earlier(r), place[q] = "wire"
  PROVE  ~IsHeadOfLineNetworkRequest(r)
<1> DEFINE c == r[1]
           D == {i \in Rsns(c) : place[<<c, i>>] = "done"}
<1>1. /\ q \in Requests /\ q[1] = c /\ q[2] < r[2] /\ c \in Conns /\ r[2] \in Nat /\ q[2] \in Nat
      /\ q = <<c, q[2]>>
  BY RequestParts DEF Earlier
<1>2. ASSUME NEW i \in D PROVE i \in 0..(q[2] - 1)
  <2>1. i \in Nat /\ <<c, i>> \in Requests /\ place[<<c, i>>] = "done"
    BY <1>1, RequestParts
  <2>2. i # q[2]
    BY <1>1, <2>1
  <2>3. ASSUME i > q[2] PROVE FALSE
    <3>1. q \in Earlier(<<c, i>>)
      BY <1>1, <2>1, <2>3 DEF Earlier
    <3> QED
      BY <2>1, <3>1 DEF DeliveredInOrder
  <2> QED
    BY <1>1, <2>1, <2>2, <2>3
<1>3. D \subseteq 0..(q[2] - 1)
  BY <1>2
<1>5. Cardinality(D) <= q[2] /\ Cardinality(D) \in Nat
  <2> HIDE DEF D
  <2> QED
    BY <1>1, <1>3, BelowN
<1>6. acks[c] = Cardinality(D)
  BY <1>1 DEF AcksCounted
<1> HIDE DEF D
<1> QED
  BY <1>1, <1>5, <1>6 DEF IsHeadOfLineNetworkRequest

LEMMA ZonesOfPools ==
  OccupancyZone \in {0, 1, 2} /\ \A p \in Pools : Zone(p) <= OccupancyZone /\ Zone(p) \in {0, 1, 2}
<1> DEFINE Z == {Zone(p) : p \in Pools}
<1>1. \A p \in Pools : Zone(p) \in {0, 1, 2}
  BY DEF Zone
<1>2. Z \subseteq 0..2 /\ Z # {}
  BY <1>1 DEF Pools
<1>3. Z \subseteq 0..(3 - 1)
  BY <1>2
<1>4. IsFiniteSet(Z)
  <2> HIDE DEF Z
  <2> QED
    BY <1>3, BelowN
<1>5. Max(Z) \in Z /\ \A x \in Z : Max(Z) >= x
  <2> HIDE DEF Z
  <2>1. Z \subseteq Int
    BY <1>2
  <2> QED
    BY <1>2, <1>4, <2>1, MaxIsMax
<1>6. OccupancyZone = Max(Z)
  BY DEF OccupancyZone
<1> QED
  BY <1>1, <1>2, <1>5, <1>6

LEMMA ReserveResourcesStep ==
  ASSUME RequestsAssumption, ThresholdAssumption, IInv, NEW r \in Requests, ReserveResources(r)
  PROVE  IInv'
<1>0. /\ TypeOK /\ GrantsUnanswered /\ DeliveredInOrder /\ AcksCounted
      /\ CreditsConserved /\ BlockedBelowYellow
  BY DEF IInv
<1>1. /\ place[r] = "wire" /\ Admissible(r) /\ acks' = acks
      /\ credits' = [p \in Pools |-> credits[p] - Need(r)[p]]
      /\ place' = [place EXCEPT ![r] = IF KindOf(r) = "push" THEN "held" ELSE "arrived"]
      /\ grants' = (IF KindOf(r) = "push" THEN grants \cup {r} ELSE grants)
  BY DEF ReserveResources, Minus
<1>2. r \notin grants
  BY <1>0, <1>1 DEF GrantsUnanswered
<1>3. /\ place'[r] \in {"held", "arrived"} /\ (r \in grants' <=> KindOf(r) = "push")
      /\ KindOf(r) = "push" => place'[r] = "held"
      /\ \A q \in Requests : q # r => place'[q] = place[q] /\ (q \in grants' <=> q \in grants)
  BY <1>0, <1>1, <1>2 DEF TypeOK
<1>4. \A p \in Pools : /\ Need(r)[p] \in Nat /\ credits[p] \in Int
                       /\ Need(r)[p] <= credits[p] /\ credits'[p] = credits[p] - Need(r)[p]
  BY <1>0, <1>1, CreditsOfRequest DEF TypeOK, Admissible, Fits
<1>5. TypeOK'
  <2>1. credits' \in [Pools -> Int]
    BY <1>1, <1>4
  <2> QED
    BY <1>0, <1>1, <2>1 DEF TypeOK
<1>6. GrantsUnanswered'
  <2> SUFFICES ASSUME NEW q \in grants' PROVE place'[q] \in {"held", "granted"}
    BY DEF GrantsUnanswered
  <2>1. q \in Requests
    BY <1>5 DEF TypeOK
  <2>2. CASE q = r
    BY <1>3, <2>2
  <2>3. CASE q # r
    BY <1>0, <1>3, <2>1, <2>3 DEF GrantsUnanswered
  <2> QED
    BY <2>2, <2>3
<1>7. DeliveredInOrder'
  <2>1. \A q \in Requests : place'[q] \in {"ulp", "done"} <=> place[q] \in {"ulp", "done"}
    BY <1>1, <1>3
  <2> QED
    BY <1>0, <2>1, DeliveryStep
<1>8. AcksCounted'
  <2>1. \A q \in Requests : place'[q] = "done" <=> place[q] = "done"
    BY <1>1, <1>3
  <2> QED
    BY <1>0, <1>1, <2>1, AcksStep
<1>9. \A p \in Pools : Holds(r)[p] = 0 /\ Holds(r)[p]' = Need(r)[p]
  <2> SUFFICES ASSUME NEW p \in Pools PROVE Holds(r)[p] = 0 /\ Holds(r)[p]' = Need(r)[p]
    OBVIOUS
  <2>1. place[r] \notin Inside /\ place'[r] \in Inside
    BY <1>1, <1>3 DEF Inside
  <2>2. Holds(r)[p] = 0
    BY <1>2, <2>1, HoldsOfRequest
  <2>3. Holds(r)[p]' = RxCredits(r)[p] + (IF KindOf(r) = "push" THEN GrantCredits[p] ELSE 0)
    BY <1>3, <2>1, HoldsOfRequest
  <2> QED
    BY <2>2, <2>3, CreditsOfRequest
<1>10. CreditsConserved'
  <2>1. \A p \in Pools : credits'[p] + Holds(r)[p]' = credits[p] + Holds(r)[p]
    BY <1>4, <1>9
  <2>2. \A p \in Pools : credits'[p] >= 0
    BY <1>4
  <2> QED
    BY <1>0, <1>3, <1>5, <2>1, <2>2, CreditsStep DEF TypeOK
<1>11. BlockedBelowYellow'
  <2> SUFFICES ASSUME NEW p \in Pools PROVE Held(Blocked, p)' < GreenEnd[p] + Largest(p)
    BY DEF BlockedBelowYellow
  <2>1. IsFiniteSet(Requests) /\ Blocked \subseteq Requests /\ Blocked' \subseteq Requests
    BY RequestParts DEF Blocked
  <2>2. /\ Held(Blocked, p) = Tally(Holding(p), Blocked)
        /\ Held(Blocked, p)' = Tally(Holding(p)', Blocked')
    BY BlockedIsTally
  <2>3. GreenEnd[p] \in Nat /\ Largest(p) \in Nat /\ Need(r)[p] <= Largest(p)
    BY NeedBelowLargest DEF ThresholdAssumption
  <2>4. CASE \E q \in Earlier(r) : place[q] = "wire"
    <3>1. ~IsHeadOfLineNetworkRequest(r)
      BY <1>0, <2>4, BehindMissing
    <3>2. OccupancyZone = 0
      BY <1>1, <3>1, ZonesOfPools DEF Admissible, MeetsNetworkRequestAdmissionCriteria
    <3>3. Zone(p) = 0
      BY <3>2, ZonesOfPools
    <3>4. Total[p] - credits[p] < GreenEnd[p]
      BY <3>3 DEF Zone
    <3>5. credits'[p] + Held(Requests, p)' = Total[p]
      BY <1>10 DEF CreditsConserved
    <3>6. Held(Requests, p)' = Tally(Holding(p)', Requests)
      BY HeldIsTally
    <3>7. /\ Tally(Holding(p)', Blocked') <= Tally(Holding(p)', Requests)
          /\ Tally(Holding(p)', Blocked') \in Nat /\ Tally(Holding(p)', Requests) \in Nat
      <4>1. \A q \in Requests : Holding(p)'[q] \in Nat /\ Holding(p)'[q] <= Holding(p)'[q]
        BY HoldingType
      <4> QED
        BY <2>1, <4>1, TallyMonotone
    <3>8. Total[p] \in Nat
      BY DEF RequestsAssumption
    <3> QED
      BY <1>4, <2>2, <2>3, <3>4, <3>5, <3>6, <3>7, <3>8
  <2>5. CASE ~\E q \in Earlier(r) : place[q] = "wire"
    <3>1. Blocked' \subseteq Blocked /\ r \notin Blocked'
      <4>1. \A q \in Requests : place'[q] = "wire" => place[q] = "wire" /\ q # r
        BY <1>3
      <4>2. \A q \in Earlier(r) : q \in Requests
        BY DEF Earlier
      <4>3. r \notin Blocked'
        BY <2>5, <4>1, <4>2 DEF Blocked, Earlier
      <4>4. ASSUME NEW q \in Blocked' PROVE q \in Blocked
        <5>1. q # r /\ q \in Requests /\ place'[q] # "wire"
          BY <4>3 DEF Blocked
        <5>2. place[q] # "wire"
          BY <1>3, <5>1
        <5>3. PICK m \in Earlier(q) : place'[m] = "wire"
          BY DEF Blocked, Earlier
        <5>4. m \in Requests /\ place[m] = "wire"
          BY <4>1, <5>3 DEF Earlier
        <5> QED
          BY <5>1, <5>2, <5>3, <5>4 DEF Blocked
      <4> QED
        BY <4>3, <4>4
    <3>2. \A q \in Blocked' : Holding(p)'[q] = Holding(p)[q]
      <4>1. \A q \in Requests : q # r => Holds(q)[p]' = Holds(q)[p]
        BY <1>3 DEF Holds
      <4> QED
        BY <2>1, <3>1, <4>1, HoldingType
    <3>3. IsFiniteSet(Blocked)
      BY <2>1, FS_Subset
    <3>4. /\ Tally(Holding(p)', Blocked') <= Tally(Holding(p), Blocked)
          /\ Tally(Holding(p)', Blocked') \in Nat /\ Tally(Holding(p), Blocked) \in Nat
      <4>1. \A q \in Blocked' : Holding(p)'[q] \in Nat /\ Holding(p)'[q] <= Holding(p)[q]
        BY <2>1, <3>2, HoldingType
      <4>2. \A q \in Blocked : Holding(p)[q] \in Nat
        BY <2>1, HoldingType
      <4> QED
        BY <3>1, <3>3, <4>1, <4>2, TallyMonotone
    <3>5. Held(Blocked, p) < GreenEnd[p] + Largest(p)
      BY <1>0 DEF BlockedBelowYellow
    <3> QED
      BY <2>2, <2>3, <3>4, <3>5
  <2> QED
    BY <2>4, <2>5
<1> QED
  BY <1>5, <1>6, <1>7, <1>8, <1>10, <1>11 DEF IInv
-----------------------------------------------------------------------------
(* The way of an admitted request. *)

\* A request moves on and holds as much as before.
LEMMA MoveStep ==
  ASSUME RequestsAssumption, ThresholdAssumption, IInv, NEW r \in Requests,
         NEW to \in {"granted", "ulp"},
         place' = [place EXCEPT ![r] = to], place[r] \in {"held", "arrived"},
         to = "granted" <=> place[r] = "held",
         to = "ulp" => \A q \in Earlier(r) : place[q] \in {"ulp", "done"},
         UNCHANGED <<credits, grants, acks>>
  PROVE  IInv'
<1>0. /\ TypeOK /\ GrantsUnanswered /\ DeliveredInOrder /\ AcksCounted
      /\ CreditsConserved /\ BlockedBelowYellow
  BY DEF IInv
<1>1. place'[r] = to /\ \A q \in Requests : q # r => place'[q] = place[q]
  BY <1>0 DEF TypeOK
<1>2. TypeOK'
  BY <1>0 DEF TypeOK
<1>3. GrantsUnanswered'
  BY <1>0, <1>1 DEF GrantsUnanswered, TypeOK
<1>4. DeliveredInOrder'
  <2> SUFFICES ASSUME NEW x \in Requests, place'[x] \in {"ulp", "done"}, NEW q \in Earlier(x)
               PROVE  place'[q] \in {"ulp", "done"}
    BY DEF DeliveredInOrder, Earlier
  <2>1. q \in Requests /\ r \notin Earlier(r)
    BY RequestParts DEF Earlier
  <2>2. place[q] \in {"ulp", "done"}
    <3>1. CASE x = r
      BY <1>1, <3>1
    <3>2. CASE x # r
      BY <1>0, <1>1, <3>2 DEF DeliveredInOrder
    <3> QED
      BY <3>1, <3>2
  <2>3. q # r
    BY <2>2
  <2> QED
    BY <1>1, <2>1, <2>2, <2>3
<1>5. AcksCounted'
  <2>1. \A q \in Requests : place'[q] = "done" <=> place[q] = "done"
    BY <1>1
  <2> QED
    BY <1>0, <2>1, AcksStep
<1>6. \A q \in Requests, p \in Pools : Holds(q)[p]' = Holds(q)[p] /\ Holds(q)[p] \in Nat
  <2> SUFFICES ASSUME NEW q \in Requests, NEW p \in Pools
               PROVE  Holds(q)[p]' = Holds(q)[p] /\ Holds(q)[p] \in Nat
    OBVIOUS
  <2>1. place'[q] \in Inside <=> place[q] \in Inside
    BY <1>1 DEF Inside
  <2> QED
    BY <2>1, HoldsOfRequest
<1>7. CreditsConserved'
  <2>1. \A p \in Pools : /\ credits'[p] + Holds(r)[p]' = credits[p] + Holds(r)[p]
                         /\ credits'[p] >= 0
    BY <1>0, <1>6 DEF CreditsConserved
  <2> QED
    BY <1>0, <1>1, <1>2, <2>1, CreditsStep DEF TypeOK
<1>8. BlockedBelowYellow'
  <2>1. \A q \in Requests : place'[q] = "wire" <=> place[q] = "wire"
    BY <1>1
  <2>2. \A q \in Requests, p \in Pools : Holds(q)[p]' <= Holds(q)[p]
    BY <1>6
  <2> QED
    BY <1>0, <2>1, <2>2, BlockedStep
<1> QED
  BY <1>2, <1>3, <1>4, <1>5, <1>7, <1>8 DEF IInv

\* A grant is acknowledged, by the network or by the data it asked for.
LEMMA ReleaseGrantStep ==
  ASSUME RequestsAssumption, ThresholdAssumption, IInv, NEW r \in Requests,
         ReleaseGrant(r), place[r] = "granted", acks' = acks,
         place' \in {place, [place EXCEPT ![r] = "arrived"]}
  PROVE  IInv'
<1>0. /\ TypeOK /\ GrantsUnanswered /\ DeliveredInOrder /\ AcksCounted
      /\ CreditsConserved /\ BlockedBelowYellow
  BY DEF IInv
<1>1. /\ place'[r] \in {"granted", "arrived"} /\ \A q \in Requests : q # r => place'[q] = place[q]
      /\ place' \in [Requests -> {"wire", "held", "granted", "arrived", "ulp", "done"}]
  BY <1>0 DEF TypeOK
<1>2. /\ grants' = grants \ {r}
      /\ credits' = (IF r \in grants THEN [p \in Pools |-> credits[p] + GrantCredits[p]] ELSE credits)
  BY DEF ReleaseGrant, Plus
<1>3. \A p \in Pools : GrantCredits[p] \in Nat /\ credits[p] \in Int /\ credits[p] >= 0
  BY <1>0, CreditsOfRequest DEF TypeOK, CreditsConserved
<1>4. TypeOK'
  <2>1. credits' \in [Pools -> Int]
    BY <1>0, <1>2, <1>3 DEF TypeOK
  <2> QED
    BY <1>0, <1>1, <1>2, <2>1 DEF TypeOK
<1>5. GrantsUnanswered'
  BY <1>0, <1>1, <1>2 DEF GrantsUnanswered, TypeOK
<1>6. DeliveredInOrder' /\ AcksCounted'
  <2>1. \A q \in Requests : /\ place'[q] \in {"ulp", "done"} <=> place[q] \in {"ulp", "done"}
                            /\ place'[q] = "done" <=> place[q] = "done"
    BY <1>1
  <2> QED
    BY <1>0, <2>1, DeliveryStep, AcksStep
<1>7. \A p \in Pools : /\ Holds(r)[p] = Holds(r)[p]' + (IF r \in grants THEN GrantCredits[p] ELSE 0)
                       /\ Holds(r)[p]' \in Nat
  <2> SUFFICES ASSUME NEW p \in Pools
               PROVE  /\ Holds(r)[p] = Holds(r)[p]' + (IF r \in grants THEN GrantCredits[p] ELSE 0)
                      /\ Holds(r)[p]' \in Nat
    OBVIOUS
  <2>1. place[r] \in Inside /\ place'[r] \in Inside /\ r \notin grants'
    BY <1>1, <1>2 DEF Inside
  <2>2. /\ Holds(r)[p] = RxCredits(r)[p] + (IF r \in grants THEN GrantCredits[p] ELSE 0)
        /\ Holds(r)[p]' = RxCredits(r)[p] + 0
    BY <2>1, HoldsOfRequest
  <2> QED
    BY <1>3, <2>2, CreditsOfRequest
<1>8. CreditsConserved'
  <2>1. \A p \in Pools : credits'[p] = credits[p] + (IF r \in grants THEN GrantCredits[p] ELSE 0)
    BY <1>2, <1>3
  <2>2. \A p \in Pools : credits'[p] + Holds(r)[p]' = credits[p] + Holds(r)[p]
    BY <1>3, <1>7, <2>1
  <2>3. \A p \in Pools : credits'[p] >= 0
    BY <1>3, <2>1
  <2>4. \A q \in Requests : q # r => place'[q] = place[q] /\ (q \in grants' <=> q \in grants)
    BY <1>1, <1>2
  <2> QED
    BY <1>0, <1>4, <2>2, <2>3, <2>4, CreditsStep DEF TypeOK
<1>9. BlockedBelowYellow'
  <2>1. \A q \in Requests : place'[q] = "wire" <=> place[q] = "wire"
    BY <1>1
  <2>2. ASSUME NEW q \in Requests, NEW p \in Pools PROVE Holds(q)[p]' <= Holds(q)[p]
    <3>1. CASE q = r
      BY <1>3, <1>7, <3>1
    <3>2. CASE q # r
      <4>1. Holds(q)[p]' = Holds(q)[p]
        BY <1>1, <1>2, <3>2 DEF Holds
      <4> QED
        BY <4>1, HoldsOfRequest
    <3> QED
      BY <3>1, <3>2
  <2> QED
    BY <1>0, <2>1, <2>2, BlockedStep
<1> QED
  BY <1>4, <1>5, <1>6, <1>8, <1>9 DEF IInv

LEMMA AckTransactionStep ==
  ASSUME RequestsAssumption, ThresholdAssumption, IInv, NEW r \in Requests, AckTransaction(r)
  PROVE  IInv'
<1>0. /\ TypeOK /\ GrantsUnanswered /\ DeliveredInOrder /\ AcksCounted
      /\ CreditsConserved /\ BlockedBelowYellow
  BY DEF IInv
<1>1. /\ place[r] = "ulp" /\ place' = [place EXCEPT ![r] = "done"] /\ grants' = grants
      /\ credits' = [p \in Pools |-> credits[p] + RxCredits(r)[p]]
      /\ acks' = [acks EXCEPT ![r[1]] = acks[r[1]] + 1]
  BY DEF AckTransaction, Plus
<1>2. place'[r] = "done" /\ \A q \in Requests : q # r => place'[q] = place[q]
  BY <1>0, <1>1 DEF TypeOK
<1>3. r \notin grants
  BY <1>0, <1>1 DEF GrantsUnanswered
<1>4. \A p \in Pools : /\ RxCredits(r)[p] \in Nat /\ credits[p] \in Int /\ credits[p] >= 0
                       /\ credits'[p] = credits[p] + RxCredits(r)[p]
  BY <1>0, <1>1, CreditsOfRequest DEF TypeOK, CreditsConserved
<1>5. /\ r[1] \in Conns /\ r[2] \in Rsns(r[1]) /\ r = <<r[1], r[2]>>
  BY RequestParts
<1>6. TypeOK'
  <2>1. credits' \in [Pools -> Int]
    BY <1>1, <1>4
  <2>2. acks' \in [Conns -> Nat]
    BY <1>0, <1>1, <1>5 DEF TypeOK
  <2> QED
    BY <1>0, <1>1, <2>1, <2>2 DEF TypeOK
<1>7. GrantsUnanswered'
  BY <1>0, <1>1, <1>2, <1>3 DEF GrantsUnanswered, TypeOK
<1>8. DeliveredInOrder'
  <2>1. \A q \in Requests : place'[q] \in {"ulp", "done"} <=> place[q] \in {"ulp", "done"}
    BY <1>1, <1>2
  <2> QED
    BY <1>0, <2>1, DeliveryStep
<1>9. AcksCounted'
  <2> SUFFICES ASSUME NEW c \in Conns
               PROVE  acks'[c] = Cardinality({i \in Rsns(c) : place'[<<c, i>>] = "done"})
    BY DEF AcksCounted
  <2> DEFINE D == {i \in Rsns(c) : place[<<c, i>>] = "done"}
             E == {i \in Rsns(c) : place'[<<c, i>>] = "done"}
  <2>1. acks[c] = Cardinality(D)
    BY <1>0 DEF AcksCounted
  <2>2. \A i \in Rsns(c) : <<c, i>> \in Requests
    BY RequestParts
  <2>3. CASE c = r[1]
    <3>1. E = D \cup {r[2]} /\ r[2] \notin D
      BY <1>1, <1>2, <1>5, <2>2, <2>3
    <3>2. IsFiniteSet(D)
      BY RequestParts, FS_Subset
    <3>3. acks'[c] = acks[c] + 1
      BY <1>0, <1>1, <2>3 DEF TypeOK
    <3> HIDE DEF D, E
    <3>4. Cardinality(E) = Cardinality(D) + 1
      BY <3>1, <3>2, FS_AddElement
    <3> QED
      BY <2>1, <3>3, <3>4 DEF E
  <2>4. CASE c # r[1]
    <3>1. E = D
      BY <1>2, <1>5, <2>2, <2>4
    <3>2. acks'[c] = acks[c]
      BY <1>0, <1>1, <2>4 DEF TypeOK
    <3> HIDE DEF D, E
    <3> QED
      BY <2>1, <3>1, <3>2 DEF E
  <2> QED
    BY <2>3, <2>4
<1>10. \A p \in Pools : Holds(r)[p] = RxCredits(r)[p] /\ Holds(r)[p]' = 0
  <2> SUFFICES ASSUME NEW p \in Pools PROVE Holds(r)[p] = RxCredits(r)[p] /\ Holds(r)[p]' = 0
    OBVIOUS
  <2>1. place[r] \in Inside /\ place'[r] \notin Inside
    BY <1>1, <1>2 DEF Inside
  <2>2. Holds(r)[p] = RxCredits(r)[p] + 0 /\ Holds(r)[p]' = 0
    BY <1>1, <1>3, <2>1, HoldsOfRequest
  <2> QED
    BY <1>4, <2>2
<1>11. CreditsConserved'
  <2>1. \A p \in Pools : credits'[p] + Holds(r)[p]' = credits[p] + Holds(r)[p]
    BY <1>4, <1>10
  <2>2. \A p \in Pools : credits'[p] >= 0
    BY <1>4
  <2> QED
    BY <1>0, <1>1, <1>2, <1>6, <2>1, <2>2, CreditsStep DEF TypeOK
<1>12. BlockedBelowYellow'
  <2>1. \A q \in Requests : place'[q] = "wire" <=> place[q] = "wire"
    BY <1>1, <1>2
  <2>2. ASSUME NEW q \in Requests, NEW p \in Pools PROVE Holds(q)[p]' <= Holds(q)[p]
    <3>1. CASE q = r
      BY <1>4, <1>10, <3>1
    <3>2. CASE q # r
      <4>1. Holds(q)[p]' = Holds(q)[p]
        BY <1>1, <1>2, <3>2 DEF Holds
      <4> QED
        BY <4>1, HoldsOfRequest
    <3> QED
      BY <3>1, <3>2
  <2> QED
    BY <1>0, <2>1, <2>2, BlockedStep
<1> QED
  BY <1>6, <1>7, <1>8, <1>9, <1>11, <1>12 DEF IInv

LEMMA UnchangedStep ==
  ASSUME IInv, UNCHANGED vars
  PROVE  IInv'
<1>1. place' = place /\ credits' = credits /\ grants' = grants /\ acks' = acks
  BY DEF vars
<1>2. TypeOK' /\ GrantsUnanswered' /\ DeliveredInOrder' /\ AcksCounted'
  BY <1>1 DEF IInv, TypeOK, GrantsUnanswered, DeliveredInOrder, AcksCounted, Earlier
<1>3. CreditsConserved' /\ BlockedBelowYellow'
  BY <1>1 DEF IInv, CreditsConserved, BlockedBelowYellow, Held, Holds, Blocked, Earlier
<1> QED
  BY <1>2, <1>3 DEF IInv

LEMMA AdmissionNext ==
  ASSUME RequestsAssumption, ThresholdAssumption, IInv, Next
  PROVE  IInv'
<1>1. ASSUME NEW r \in Requests, ReserveResources(r) PROVE IInv'
  BY <1>1, ReserveResourcesStep
<1>2. ASSUME NEW r \in Requests, TransmitNACK(r) PROVE IInv'
  BY <1>2, UnchangedStep DEF TransmitNACK
<1>3. ASSUME NEW r \in Requests, SendGrant(r) PROVE IInv'
  BY <1>3, MoveStep DEF SendGrant
<1>4. ASSUME NEW r \in Requests, GrantAcked(r) PROVE IInv'
  BY <1>4, ReleaseGrantStep DEF GrantAcked
<1>5. ASSUME NEW r \in Requests, ReceivePushData(r) PROVE IInv'
  BY <1>5, ReleaseGrantStep DEF ReceivePushData
<1>6. ASSUME NEW r \in Requests, ReorderCallback(r) PROVE IInv'
  BY <1>6, MoveStep DEF ReorderCallback
<1>7. ASSUME NEW r \in Requests, AckTransaction(r) PROVE IInv'
  BY <1>7, AckTransactionStep
<1>8. CASE Finished
  BY <1>8, UnchangedStep DEF Finished
<1> QED
  BY <1>1, <1>2, <1>3, <1>4, <1>5, <1>6, <1>7, <1>8 DEF Next
-----------------------------------------------------------------------------
(* The pools of the ULP. *)

LEMMA MinOfTwo ==
  ASSUME NEW a \in Int, NEW b \in Int
  PROVE  Min({a, b}) = IF a <= b THEN a ELSE b
<1>1. \E x \in {a, b} : \A y \in {a, b} : x <= y
  BY DEF Min
<1>2. Min({a, b}) \in {a, b} /\ \A y \in {a, b} : Min({a, b}) <= y
  BY <1>1 DEF Min
<1> QED
  BY <1>2

\* operator-= takes exactly n, whichever count it comes from.
LEMMA MinusAssignSum ==
  ASSUME NEW k \in Kinds, NEW n \in Nat, NEW c \in [requests : Int, data : Int],
         c.requests >= 0, c.data >= 0, UlpWithin(k, n, c)
  PROVE  LET d == MinusAssign(k, n, c)
         IN  /\ d \in [requests : Int, data : Int] /\ d.requests >= 0 /\ d.data >= 0
             /\ d.requests + d.data + n = c.requests + c.data
<1> DEFINE fromData == IF k = "response" THEN Min({c.data, n}) ELSE 0
<1>1. c.data \in Int /\ c.requests \in Int /\ n \in Int
  OBVIOUS
<1>2. fromData \in Int /\ fromData <= c.data /\ fromData >= 0 /\ n - fromData <= c.requests
      /\ n - fromData >= 0
  <2>1. CASE k = "response"
    <3>1. fromData = IF c.data <= n THEN c.data ELSE n
      BY <1>1, <2>1, MinOfTwo
    <3>2. n <= c.requests + c.data
      BY DEF UlpWithin
    <3> QED
      BY <1>1, <3>1, <3>2
  <2>2. CASE k = "request"
    BY <1>1, <2>2 DEF UlpWithin
  <2> QED
    BY <2>1, <2>2 DEF Kinds
<1>3. MinusAssign(k, n, c) = [requests |-> c.requests - (n - fromData), data |-> c.data - fromData]
  BY DEF MinusAssign
<1> HIDE DEF fromData
<1> QED
  BY <1>1, <1>2, <1>3

\* operator+= returns exactly n.
LEMMA PlusAssignSum ==
  ASSUME NEW k \in Kinds, NEW n \in Nat, NEW max \in Nat, NEW c \in [requests : Int, data : Int],
         c.requests >= 0, c.data >= 0
  PROVE  LET d == PlusAssign(k, n, max, c)
         IN  /\ d \in [requests : Int, data : Int] /\ d.requests >= 0 /\ d.data >= 0
             /\ d.requests + d.data = c.requests + c.data + n
<1> DEFINE requests == IF k = "request" THEN c.requests + n ELSE c.requests
           data == IF k = "response" THEN n ELSE 0
           replenished == Min({data, max - requests})
<1>1. c.data \in Int /\ c.requests \in Int /\ n \in Int
  OBVIOUS
<1>2. /\ requests \in Int /\ data \in Int /\ requests >= 0 /\ data >= 0
      /\ requests + data = c.requests + n
  BY <1>1 DEF Kinds
<1>3. PlusAssign(k, n, max, c) =
        IF c.data = 0
        THEN [requests |-> requests + replenished, data |-> data - replenished]
        ELSE [requests |-> requests, data |-> c.data + data]
  BY DEF PlusAssign
<1> HIDE DEF requests, data
<1>4. replenished = IF data <= max - requests THEN data ELSE max - requests
  <2>1. max - requests \in Int
    BY <1>2
  <2> QED
    BY <1>2, <2>1, MinOfTwo
<1> HIDE DEF replenished
<1>5. /\ replenished \in Int /\ requests + replenished >= 0 /\ data - replenished >= 0
  BY <1>2, <1>4
<1> QED
  BY <1>1, <1>2, <1>3, <1>5

\* What the transactions of kind k hold of pool p, as a function of the size.
HoldingBy(k, p) == [s \in Sizes |-> ulpTransactions[k][s] * UlpNeed(s)[p]]

LEMMA UlpNeeds ==
  ASSUME UlpPoolAssumption, NEW s \in Sizes, NEW p \in UlpPools
  PROVE  UlpNeed(s)[p] \in Nat
<1>1. s \in Nat
  BY DEF UlpPoolAssumption
<1> QED
  BY <1>1 DEF UlpNeed, UlpPools

LEMMA ProductNat ==
  ASSUME NEW a \in Nat, NEW b \in Nat
  PROVE  a * b \in Nat /\ (a + 1) * b = a * b + b /\ (a - 1) * b = a * b - b
OBVIOUS

LEMMA HoldingByType ==
  ASSUME UlpPoolAssumption, NEW k \in Kinds, NEW p \in UlpPools
  PROVE  /\ UlpTypeOK => /\ \A s \in Sizes : HoldingBy(k, p)[s] \in Nat
                         /\ HeldBy(k, p) = Tally(HoldingBy(k, p), Sizes)
         /\ UlpTypeOK' => /\ \A s \in Sizes : HoldingBy(k, p)'[s] \in Nat
                          /\ HeldBy(k, p)' = Tally(HoldingBy(k, p)', Sizes)
<1>1. ASSUME UlpTypeOK
      PROVE  /\ \A s \in Sizes : HoldingBy(k, p)[s] \in Nat
             /\ HeldBy(k, p) = Tally(HoldingBy(k, p), Sizes)
  <2>1. \A s \in Sizes : ulpTransactions[k][s] \in Nat
    BY <1>1 DEF UlpTypeOK
  <2>2. \A s \in Sizes : HoldingBy(k, p)[s] = ulpTransactions[k][s] * UlpNeed(s)[p]
    BY DEF HoldingBy
  <2>3. \A s \in Sizes : ulpTransactions[k][s] * UlpNeed(s)[p] \in Nat
    BY <2>1, UlpNeeds, ProductNat
  <2> QED
    BY <2>2, <2>3 DEF HeldBy, Tally, Tokens
<1>2. ASSUME UlpTypeOK'
      PROVE  /\ \A s \in Sizes : HoldingBy(k, p)'[s] \in Nat
             /\ HeldBy(k, p)' = Tally(HoldingBy(k, p)', Sizes)
  <2>1. \A s \in Sizes : ulpTransactions'[k][s] \in Nat
    BY <1>2 DEF UlpTypeOK
  <2>2. \A s \in Sizes : HoldingBy(k, p)'[s] = ulpTransactions'[k][s] * UlpNeed(s)[p]
    BY DEF HoldingBy
  <2>3. \A s \in Sizes : ulpTransactions'[k][s] * UlpNeed(s)[p] \in Nat
    BY <2>1, UlpNeeds, ProductNat
  <2> QED
    BY <2>2, <2>3 DEF HeldBy, Tally, Tokens
<1> QED
  BY <1>1, <1>2

\* One transaction of kind k and size s comes (n = 1) or goes (n = -1), and
\* the pools change by what it needs.
LEMMA UlpStep ==
  ASSUME UlpPoolAssumption, UlpTypeOK, UlpTypeOK', UlpCreditsConserved,
         NEW k \in Kinds, NEW s \in Sizes, NEW n \in {1, -1},
         ulpTransactions' = [ulpTransactions EXCEPT ![k][s] = ulpTransactions[k][s] + n],
         \A p \in UlpPools :
           /\ ulpCredits'[p].requests >= 0 /\ ulpCredits'[p].data >= 0
           /\ ulpCredits'[p].requests + ulpCredits'[p].data + n * UlpNeed(s)[p]
                = ulpCredits[p].requests + ulpCredits[p].data
  PROVE  UlpCreditsConserved'
<1> SUFFICES ASSUME NEW p \in UlpPools
             PROVE  ulpCredits'[p].requests + ulpCredits'[p].data
                      + HeldBy("request", p)' + HeldBy("response", p)'
                      = MaxUlpRequests[p] + MaxUlpData[p]
  BY DEF UlpCreditsConserved
<1>1. UlpNeed(s)[p] \in Nat /\ IsFiniteSet(Sizes)
  BY UlpNeeds DEF UlpPoolAssumption
<1>2. ASSUME NEW m \in Kinds
      PROVE  /\ HeldBy(m, p) \in Nat /\ HeldBy(m, p)' \in Nat
             /\ HeldBy(m, p)' = HeldBy(m, p) + (IF m = k THEN n * UlpNeed(s)[p] ELSE 0)
  <2>1. /\ \A x \in Sizes : HoldingBy(m, p)[x] \in Nat /\ HoldingBy(m, p)'[x] \in Nat
        /\ HeldBy(m, p) = Tally(HoldingBy(m, p), Sizes)
        /\ HeldBy(m, p)' = Tally(HoldingBy(m, p)', Sizes)
    BY HoldingByType
  <2>2. Tally(HoldingBy(m, p), Sizes) \in Nat /\ Tally(HoldingBy(m, p)', Sizes) \in Nat
    BY <1>1, <2>1, TokensFinite
  <2>3. \A x \in Sizes : /\ HoldingBy(m, p)[x] = ulpTransactions[m][x] * UlpNeed(x)[p]
                         /\ HoldingBy(m, p)'[x] = ulpTransactions'[m][x] * UlpNeed(x)[p]
    BY DEF HoldingBy
  <2>4. CASE m = k
    <3>1. ulpTransactions[k][s] \in Nat /\ ulpTransactions'[k][s] = ulpTransactions[k][s] + n
          /\ \A x \in Sizes : x # s => ulpTransactions'[k][x] = ulpTransactions[k][x]
      <4>1. ulpTransactions \in [Kinds -> [Sizes -> Nat]] /\ ulpTransactions[k] \in [Sizes -> Nat]
        BY DEF UlpTypeOK
      <4>2. ulpTransactions'[k] = [ulpTransactions[k] EXCEPT ![s] = ulpTransactions[k][s] + n]
        BY <4>1
      <4> QED
        BY <4>1, <4>2
    <3>2. \A x \in Sizes : x # s => HoldingBy(m, p)'[x] = HoldingBy(m, p)[x]
      BY <2>3, <2>4, <3>1
    <3>3. HoldingBy(m, p)'[s] = HoldingBy(m, p)[s] + n * UlpNeed(s)[p]
      <4>1. CASE n = 1
        BY <1>1, <2>3, <2>4, <3>1, <4>1, ProductNat
      <4>2. CASE n = -1
        <5>1. ulpTransactions[k][s] + n = ulpTransactions[k][s] - 1
          BY <3>1, <4>2
        <5> QED
          BY <1>1, <2>3, <2>4, <3>1, <4>2, <5>1, ProductNat
      <4> QED
        BY <4>1, <4>2
    <3>4. Tally(HoldingBy(m, p)', Sizes) + HoldingBy(m, p)[s]
            = Tally(HoldingBy(m, p), Sizes) + HoldingBy(m, p)'[s]
      BY <1>1, <2>1, <3>2, TallyChange
    <3>5. n * UlpNeed(s)[p] \in Int
      BY <1>1
    <3> QED
      BY <2>1, <2>2, <2>4, <3>3, <3>4, <3>5
  <2>5. CASE m # k
    <3>1. \A x \in Sizes : ulpTransactions'[m][x] = ulpTransactions[m][x]
      BY <2>5 DEF UlpTypeOK
    <3>2. \A x \in Sizes : HoldingBy(m, p)[x] = HoldingBy(m, p)'[x]
      BY <2>3, <3>1
    <3>3. Tally(HoldingBy(m, p), Sizes) = Tally(HoldingBy(m, p)', Sizes)
      BY <3>2, TallySame
    <3> QED
      BY <2>1, <2>2, <2>5, <3>3
  <2> QED
    BY <2>4, <2>5
<1>3. "request" \in Kinds /\ "response" \in Kinds /\ k \in {"request", "response"}
  BY DEF Kinds
<1>4. ulpCredits[p].requests + ulpCredits[p].data + HeldBy("request", p) + HeldBy("response", p)
        = MaxUlpRequests[p] + MaxUlpData[p]
  BY DEF UlpCreditsConserved
<1>5. /\ ulpCredits[p].requests \in Int /\ ulpCredits[p].data \in Int
      /\ ulpCredits'[p].requests \in Int /\ ulpCredits'[p].data \in Int
  BY DEF UlpTypeOK
<1>6. HeldBy("request", p)' + HeldBy("response", p)'
        = HeldBy("request", p) + HeldBy("response", p) + n * UlpNeed(s)[p]
  <2>1. n * UlpNeed(s)[p] \in Int
    BY <1>1
  <2>2. CASE k = "request"
    BY <1>2, <1>3, <2>1, <2>2
  <2>3. CASE k = "response"
    BY <1>2, <1>3, <2>1, <2>3
  <2> QED
    BY <1>3, <2>2, <2>3
<1>7. n * UlpNeed(s)[p] \in Int
  BY <1>1
<1> QED
  BY <1>2, <1>3, <1>4, <1>5, <1>6, <1>7

LEMMA ReserveUlpResourcesStep ==
  ASSUME UlpPoolAssumption, UlpTypeOK, UlpCreditsConserved,
         NEW k \in Kinds, NEW s \in Sizes, ReserveUlpResources(k, s)
  PROVE  UlpTypeOK' /\ UlpCreditsConserved'
<1>1. /\ ulpCredits' = [p \in UlpPools |-> MinusAssign(k, UlpNeed(s)[p], ulpCredits[p])]
      /\ ulpTransactions' = [ulpTransactions EXCEPT ![k][s] = ulpTransactions[k][s] + 1]
      /\ \A p \in UlpPools : UlpWithin(k, UlpNeed(s)[p], ulpCredits[p])
  BY DEF ReserveUlpResources
<1>2. ASSUME NEW p \in UlpPools
      PROVE  /\ ulpCredits'[p] \in [requests : Int, data : Int]
             /\ ulpCredits'[p].requests >= 0 /\ ulpCredits'[p].data >= 0
             /\ ulpCredits'[p].requests + ulpCredits'[p].data + UlpNeed(s)[p]
                  = ulpCredits[p].requests + ulpCredits[p].data
             /\ 1 * UlpNeed(s)[p] = UlpNeed(s)[p]
  <2>1. /\ UlpNeed(s)[p] \in Nat /\ ulpCredits[p] \in [requests : Int, data : Int]
        /\ ulpCredits[p].requests >= 0 /\ ulpCredits[p].data >= 0
    BY UlpNeeds DEF UlpTypeOK, UlpCreditsConserved
  <2>2. ulpCredits'[p] = MinusAssign(k, UlpNeed(s)[p], ulpCredits[p])
    BY <1>1
  <2> QED
    BY <1>1, <2>1, <2>2, MinusAssignSum
<1>3. UlpTypeOK'
  <2>1. ulpCredits' \in [UlpPools -> [requests : Int, data : Int]]
    <3>1. ulpCredits' = [p \in UlpPools |-> ulpCredits'[p]]
      BY <1>1
    <3> QED
      BY <1>2, <3>1
  <2>2. ulpTransactions \in [Kinds -> [Sizes -> Nat]] /\ ulpTransactions[k][s] \in Nat
    BY DEF UlpTypeOK
  <2>3. ulpTransactions' \in [Kinds -> [Sizes -> Nat]]
    BY <1>1, <2>2
  <2> QED
    BY <2>1, <2>3 DEF UlpTypeOK
<1>4. UlpCreditsConserved'
  <2>1. \A p \in UlpPools :
          /\ ulpCredits'[p].requests >= 0 /\ ulpCredits'[p].data >= 0
          /\ ulpCredits'[p].requests + ulpCredits'[p].data + 1 * UlpNeed(s)[p]
               = ulpCredits[p].requests + ulpCredits[p].data
    BY <1>2
  <2> QED
    BY <1>1, <1>3, <2>1, UlpStep
<1> QED
  BY <1>3, <1>4

LEMMA ReleaseUlpResourcesStep ==
  ASSUME UlpPoolAssumption, UlpTypeOK, UlpCreditsConserved,
         NEW k \in Kinds, NEW s \in Sizes, ReleaseUlpResources(k, s)
  PROVE  UlpTypeOK' /\ UlpCreditsConserved'
<1>1. /\ ulpCredits' = [p \in UlpPools |->
                          PlusAssign(k, UlpNeed(s)[p], MaxUlpRequests[p], ulpCredits[p])]
      /\ ulpTransactions' = [ulpTransactions EXCEPT ![k][s] = ulpTransactions[k][s] - 1]
      /\ ulpTransactions[k][s] > 0
  BY DEF ReleaseUlpResources
<1>2. ASSUME NEW p \in UlpPools
      PROVE  /\ ulpCredits'[p] \in [requests : Int, data : Int]
             /\ ulpCredits'[p].requests >= 0 /\ ulpCredits'[p].data >= 0
             /\ ulpCredits'[p].requests + ulpCredits'[p].data + (-1) * UlpNeed(s)[p]
                  = ulpCredits[p].requests + ulpCredits[p].data
  <2>1. /\ UlpNeed(s)[p] \in Nat /\ ulpCredits[p] \in [requests : Int, data : Int]
        /\ ulpCredits[p].requests >= 0 /\ ulpCredits[p].data >= 0
        /\ MaxUlpRequests[p] \in Nat
    BY UlpNeeds DEF UlpTypeOK, UlpCreditsConserved, UlpPoolAssumption
  <2>2. ulpCredits'[p] = PlusAssign(k, UlpNeed(s)[p], MaxUlpRequests[p], ulpCredits[p])
    BY <1>1
  <2>3. /\ ulpCredits'[p] \in [requests : Int, data : Int]
        /\ ulpCredits'[p].requests >= 0 /\ ulpCredits'[p].data >= 0
        /\ ulpCredits'[p].requests + ulpCredits'[p].data
             = ulpCredits[p].requests + ulpCredits[p].data + UlpNeed(s)[p]
    BY <2>1, <2>2, PlusAssignSum
  <2>4. (-1) * UlpNeed(s)[p] = -UlpNeed(s)[p]
    BY <2>1
  <2> QED
    BY <2>1, <2>3, <2>4
<1>3. ulpTransactions \in [Kinds -> [Sizes -> Nat]] /\ ulpTransactions[k][s] \in Nat
  BY DEF UlpTypeOK
<1>4. UlpTypeOK'
  <2>1. ulpCredits' \in [UlpPools -> [requests : Int, data : Int]]
    <3>1. ulpCredits' = [p \in UlpPools |-> ulpCredits'[p]]
      BY <1>1
    <3> QED
      BY <1>2, <3>1
  <2>2. ulpTransactions' \in [Kinds -> [Sizes -> Nat]]
    BY <1>1, <1>3
  <2> QED
    BY <2>1, <2>2 DEF UlpTypeOK
<1>5. ulpTransactions' = [ulpTransactions EXCEPT ![k][s] = ulpTransactions[k][s] + (-1)]
  <2>1. ulpTransactions[k][s] - 1 = ulpTransactions[k][s] + (-1)
    BY <1>3
  <2> QED
    BY <1>1, <2>1
<1>6. UlpCreditsConserved'
  BY <1>2, <1>4, <1>5, UlpStep
<1> QED
  BY <1>4, <1>6
-----------------------------------------------------------------------------
(* The resource manager. *)

ManagerAssumption ==
  RequestsAssumption /\ ThresholdAssumption /\ UlpPoolAssumption /\ ResponseAssumption

LEMMA ManagerInitSound ==
  ASSUME ManagerAssumption, ManagerInit
  PROVE  AdmissionSound
<1>0. RequestsAssumption /\ ThresholdAssumption /\ UlpPoolAssumption
  BY DEF ManagerAssumption
<1>1. /\ place = [r \in Requests |-> "wire"] /\ credits = Total /\ grants = {}
      /\ acks = [c \in Conns |-> 0]
      /\ ulpCredits = [p \in UlpPools |-> [requests |-> MaxUlpRequests[p], data |-> MaxUlpData[p]]]
      /\ ulpTransactions = [k \in Kinds |-> [s \in Sizes |-> 0]]
  BY DEF ManagerInit, Init, UlpInit
<1>2. TypeOK /\ GrantsUnanswered /\ DeliveredInOrder
  BY <1>0, <1>1 DEF TypeOK, GrantsUnanswered, DeliveredInOrder, RequestsAssumption
<1>3. AcksCounted
  <2>1. \A c \in Conns : {i \in Rsns(c) : place[<<c, i>>] = "done"} = {}
    BY <1>0, <1>1, RequestParts
  <2> QED
    BY <1>1, <2>1, FS_EmptySet DEF AcksCounted
<1>4. CreditsConserved
  <2> SUFFICES ASSUME NEW p \in Pools
               PROVE  credits[p] >= 0 /\ credits[p] + Held(Requests, p) = Total[p]
    BY DEF CreditsConserved
  <2>1. \A r \in Requests : Holding(p)[r] = 0
    <3>1. \A r \in Requests : place[r] \notin Inside /\ r \notin grants
      BY <1>1 DEF Inside
    <3>2. \A r \in Requests : Holds(r)[p] = 0
      BY <1>0, <3>1, HoldsOfRequest
    <3> QED
      BY <3>2 DEF Holding
  <2>2. Held(Requests, p) = 0
    BY <2>1, HeldIsTally, TallyZero
  <2> QED
    BY <1>0, <1>1, <2>2 DEF RequestsAssumption
<1>5. BlockedBelowYellow
  <2> SUFFICES ASSUME NEW p \in Pools PROVE Held(Blocked, p) < GreenEnd[p] + Largest(p)
    BY DEF BlockedBelowYellow
  <2>1. Blocked = {}
    BY <1>1 DEF Blocked
  <2>2. Held(Blocked, p) = 0
    BY <2>1, BlockedIsTally, TallyEmpty
  <2>3. GreenEnd[p] \in Nat \ {0} /\ Largest(p) \in Nat
    BY <1>0, NeedBelowLargest DEF ThresholdAssumption
  <2> QED
    BY <2>2, <2>3
<1>6. UlpTypeOK
  BY <1>0, <1>1 DEF UlpTypeOK, UlpPoolAssumption
<1>7. UlpCreditsConserved
  <2> SUFFICES ASSUME NEW p \in UlpPools
               PROVE  /\ ulpCredits[p].requests >= 0 /\ ulpCredits[p].data >= 0
                      /\ ulpCredits[p].requests + ulpCredits[p].data
                           + HeldBy("request", p) + HeldBy("response", p)
                           = MaxUlpRequests[p] + MaxUlpData[p]
    BY DEF UlpCreditsConserved
  <2>1. ASSUME NEW k \in Kinds PROVE HeldBy(k, p) = 0
    <3>1. \A s \in Sizes : UlpNeed(s)[p] \in Nat
      BY <1>0, UlpNeeds
    <3>2. \A s \in Sizes : HoldingBy(k, p)[s] = 0
      BY <1>1, <3>1 DEF HoldingBy
    <3>3. HeldBy(k, p) = Tally(HoldingBy(k, p), Sizes)
      BY <1>0, <1>6, HoldingByType
    <3> QED
      BY <3>2, <3>3, TallyZero
  <2>2. HeldBy("request", p) = 0 /\ HeldBy("response", p) = 0
    BY <2>1 DEF Kinds
  <2>3. /\ ulpCredits[p].requests = MaxUlpRequests[p] /\ ulpCredits[p].data = MaxUlpData[p]
        /\ MaxUlpRequests[p] \in Nat /\ MaxUlpData[p] \in Nat
    BY <1>0, <1>1 DEF UlpPoolAssumption
  <2> QED
    BY <2>2, <2>3
<1> QED
  BY <1>2, <1>3, <1>4, <1>5, <1>6, <1>7 DEF AdmissionSound, IInv

LEMMA UlpUnchanged ==
  ASSUME UNCHANGED ulpVars, UlpTypeOK, UlpCreditsConserved
  PROVE  UlpTypeOK' /\ UlpCreditsConserved'
<1>1. ulpCredits' = ulpCredits /\ ulpTransactions' = ulpTransactions
  BY DEF ulpVars
<1> QED
  BY ZenonT(60), <1>1 DEF UlpTypeOK, UlpCreditsConserved, HeldBy

LEMMA ManagerNextSound ==
  ASSUME ManagerAssumption, AdmissionSound, [ManagerNext]_managerVars
  PROVE  AdmissionSound'
<1>0. /\ RequestsAssumption /\ ThresholdAssumption /\ UlpPoolAssumption
      /\ IInv /\ UlpTypeOK /\ UlpCreditsConserved
  BY DEF ManagerAssumption, AdmissionSound
<1>1. CASE Next /\ UNCHANGED <<ulpVars, responded>>
  BY <1>0, <1>1, AdmissionNext, UlpUnchanged DEF AdmissionSound
<1>2. ASSUME NEW r \in Requests, InitiatePullResponse(r) PROVE AdmissionSound'
  <2>1. Size[r[1]][r[2]] \in Sizes /\ "response" \in Kinds
    BY <1>2 DEF ManagerAssumption, ResponseAssumption, InitiatePullResponse, Kinds
  <2>2. ReserveUlpResources("response", Size[r[1]][r[2]]) /\ UNCHANGED vars
    BY <1>2 DEF InitiatePullResponse
  <2>3. UlpTypeOK' /\ UlpCreditsConserved'
    BY <1>0, <2>1, <2>2, ReserveUlpResourcesStep
  <2> QED
    BY <1>0, <2>2, <2>3, UnchangedStep DEF AdmissionSound
<1>3. ASSUME NEW s \in Sizes, InitiateUlpRequest(s) PROVE AdmissionSound'
  <2>1. ReserveUlpResources("request", s) /\ UNCHANGED vars /\ "request" \in Kinds
    BY <1>3 DEF InitiateUlpRequest, Kinds
  <2>2. UlpTypeOK' /\ UlpCreditsConserved'
    BY <1>0, <2>1, ReserveUlpResourcesStep
  <2> QED
    BY <1>0, <2>1, <2>2, UnchangedStep DEF AdmissionSound
<1>4. ASSUME NEW k \in Kinds, NEW s \in Sizes, CompleteUlpTransaction(k, s) PROVE AdmissionSound'
  <2>1. ReleaseUlpResources(k, s) /\ UNCHANGED vars
    BY <1>4 DEF CompleteUlpTransaction
  <2>2. UlpTypeOK' /\ UlpCreditsConserved'
    BY <1>0, <2>1, ReleaseUlpResourcesStep
  <2> QED
    BY <1>0, <2>1, <2>2, UnchangedStep DEF AdmissionSound
<1>5. CASE UNCHANGED managerVars
  BY <1>0, <1>5, UnchangedStep, UlpUnchanged DEF AdmissionSound, managerVars
<1> QED
  BY <1>1, <1>2, <1>3, <1>4, <1>5 DEF ManagerNext

\* No credit of a pool is lost, overdrawn or returned twice, whatever the order
\* of admissions, grants, acknowledgements, ULP ACKs and of the ULP's own
\* transactions, which borrow from either of their counts; and requests behind
\* a missing one occupy at most the green zone and one request.
THEOREM CreditsStayConserved ==
  ASSUME ManagerAssumption
  PROVE  ManagerSpec => []AdmissionSound
<1>1. ManagerInit => AdmissionSound
  BY ManagerInitSound
<1>2. AdmissionSound /\ [ManagerNext]_managerVars => AdmissionSound'
  BY ManagerNextSound
<1> QED
  BY <1>1, <1>2, PTL DEF ManagerSpec

LEMMA BlockedLeaveRoom ==
  ASSUME ManagerAssumption, AdmissionSound, NEW r \in Requests, NEW p \in Pools
  PROVE  Held(Blocked, p) + Need(r)[p] <= Total[p]
<1>0. RequestsAssumption /\ ThresholdAssumption /\ BlockedBelowYellow
  BY DEF ManagerAssumption, AdmissionSound, IInv
<1>1. /\ Largest(p) \in Nat /\ Need(r)[p] <= Largest(p) /\ Need(r)[p] \in Nat
  BY <1>0, NeedBelowLargest, CreditsOfRequest
<1>2. /\ GreenEnd[p] \in Nat /\ GreenEnd[p] + Largest(p) <= YellowEnd[p]
      /\ YellowEnd[p] \in Nat /\ YellowEnd[p] + Largest(p) <= Total[p] + 1 /\ Total[p] \in Nat
  BY <1>0 DEF ThresholdAssumption, RequestsAssumption
<1>3. Held(Blocked, p) \in Nat
  <2>1. IsFiniteSet(Blocked) /\ Blocked \subseteq Requests
    BY <1>0, RequestParts, FS_Subset DEF Blocked
  <2>2. Tally(Holding(p), Blocked) \in Nat
    BY <1>0, <2>1, HoldingType, TokensFinite
  <2> QED
    BY <2>2, BlockedIsTally
<1>4. Held(Blocked, p) < GreenEnd[p] + Largest(p)
  BY <1>0 DEF BlockedBelowYellow
<1> QED
  BY <1>1, <1>2, <1>3, <1>4

\* A pool, less what the blocked requests hold of it, has room for any request.
RoomForMissing == \A r \in Requests, p \in Pools : Held(Blocked, p) + Need(r)[p] <= Total[p]

\* Why the zones of HasAvailableNetworkRequestResources prevent deadlock: a
\* request that others wait for always fits in its pools once the requests
\* that wait for nothing have returned their credits.
THEOREM RoomIsLeft ==
  ASSUME ManagerAssumption
  PROVE  ManagerSpec => []RoomForMissing
<1>1. AdmissionSound => RoomForMissing
  BY BlockedLeaveRoom DEF RoomForMissing
<1> QED
  BY <1>1, CreditsStayConserved, PTL
=============================================================================
