------------------------ MODULE WorkScheduler_proofs ------------------------
(* Proofs about WorkScheduler, for every set of queue pairs, ops, credits,   *)
(* quanta and ORD limit: no wakeup is lost, the lists of queue pairs agree   *)
(* with the marks, and Falcon has room for what is in the pipeline.          *)
EXTENDS WorkScheduler, SequenceTheorems, FiniteSetTheorems, TLAPS
-----------------------------------------------------------------------------
(* Counting transactions. *)

LEMMA OneToN ==
  ASSUME NEW n \in Nat
  PROVE  IsFiniteSet(1..n) /\ Cardinality(1..n) = n
<1>1. 1 \in Int /\ n \in Int
  OBVIOUS
<1> QED
  BY <1>1, FS_Interval

LEMMA TransactionsFinite == IsFiniteSet(Transactions)
<1> DEFINE opsOf(q) == {q} \X (1..Len(Ops[q]))
           parts == {opsOf(q) : q \in Qps}
           g == [q \in Qps |-> opsOf(q)]
<1>1. IsFiniteSet(Qps) /\ \A q \in Qps : Len(Ops[q]) \in Nat
  BY WorkAssumption
<1>2. g \in Surjection(Qps, parts)
  BY DEF Surjection
<1>3. IsFiniteSet(parts)
  BY <1>1, <1>2, FS_Surjection
<1>4. ASSUME NEW q \in Qps PROVE IsFiniteSet(opsOf(q))
  <2>1. IsFiniteSet({q}) /\ IsFiniteSet(1..Len(Ops[q]))
    BY <1>1, FS_Singleton, OneToN
  <2> QED
    BY <2>1, FS_Product
<1>5. \A T \in parts : IsFiniteSet(T)
  BY <1>4
<1>6. IsFiniteSet(UNION parts)
  BY <1>3, <1>5, FS_UNION
<1>7. IsFiniteSet(Qps \X {0})
  BY <1>1, FS_Singleton, FS_Product
<1>8. Transactions = (UNION parts) \cup (Qps \X {0})
  BY DEF Transactions, OpIds
<1> QED
  BY <1>6, <1>7, <1>8, FS_Union

LEMMA SubsetsFinite ==
  ASSUME NEW S \in SUBSET Transactions
  PROVE  IsFiniteSet(S)
BY TransactionsFinite, FS_Subset

\* The tokens of the transactions in S, one for each unit of f.
Tokens(f, S) == UNION {{x} \X (1..f[x]) : x \in S}

LEMMA TokensFinite ==
  ASSUME NEW S \in SUBSET Transactions, NEW f \in [Transactions -> Nat]
  PROVE  IsFiniteSet(Tokens(f, S)) /\ Cardinality(Tokens(f, S)) \in Nat
<1> DEFINE part(x) == {x} \X (1..f[x])
           parts == {part(x) : x \in S}
           g == [x \in S |-> part(x)]
<1>1. g \in Surjection(S, parts)
  BY DEF Surjection
<1>2. IsFiniteSet(parts)
  BY <1>1, SubsetsFinite, FS_Surjection
<1>3. ASSUME NEW x \in S PROVE IsFiniteSet(part(x))
  <2>1. IsFiniteSet({x}) /\ IsFiniteSet(1..f[x])
    BY FS_Singleton, OneToN
  <2> QED
    BY <2>1, FS_Product
<1>4. \A T \in parts : IsFiniteSet(T)
  BY <1>3
<1>5. IsFiniteSet(UNION parts)
  BY <1>2, <1>4, FS_UNION
<1> QED
  BY <1>5, FS_CardinalityType DEF Tokens

\* One more transaction y is one more token of every set that y is in.
LEMMA OneMore ==
  ASSUME NEW S \in SUBSET Transactions, NEW f \in [Transactions -> Nat],
         NEW g \in [Transactions -> Nat], NEW y \in Transactions,
         g[y] = f[y] + 1, \A x \in Transactions \ {y} : g[x] = f[x]
  PROVE  Cardinality(Tokens(g, S)) = Cardinality(Tokens(f, S)) + (IF y \in S THEN 1 ELSE 0)
<1>1. CASE y \in S
  <2> DEFINE new == <<y, f[y] + 1>>
  <2>1. Tokens(g, S) = Tokens(f, S) \cup {new}
    <3>1. ASSUME NEW x \in S, x # y PROVE {x} \X (1..g[x]) = {x} \X (1..f[x])
      BY <3>1
    <3>2. {y} \X (1..g[y]) = ({y} \X (1..f[y])) \cup {new}
      <4>1. 1..(f[y] + 1) = (1..f[y]) \cup {f[y] + 1}
        OBVIOUS
      <4> QED
        BY <4>1
    <3> QED
      BY <1>1, <3>1, <3>2 DEF Tokens
  <2>2. new \notin Tokens(f, S)
    BY DEF Tokens
  <2>3. IsFiniteSet(Tokens(f, S))
    BY TokensFinite
  <2> QED
    BY <1>1, <2>1, <2>2, <2>3, FS_AddElement
<1>2. CASE y \notin S
  <2>1. Tokens(g, S) = Tokens(f, S)
    BY <1>2 DEF Tokens
  <2>2. Cardinality(Tokens(f, S)) \in Nat
    BY TokensFinite
  <2> QED
    BY <1>2, <2>1, <2>2
<1> QED
  BY <1>1, <1>2

LEMMA NoTokens ==
  ASSUME NEW S, NEW f, \A x \in S : f[x] = 0
  PROVE  Cardinality(Tokens(f, S)) = 0
<1>1. Tokens(f, S) = {}
  BY DEF Tokens
<1> QED
  BY <1>1, FS_EmptySet

\* The places of p that hold a member of S.
Places(p, S) == {i \in 1..Len(p) : p[i] \in S}

LEMMA PlacesFinite ==
  ASSUME NEW p \in Seq(Transactions), NEW S
  PROVE  IsFiniteSet(Places(p, S)) /\ Cardinality(Places(p, S)) \in Nat
<1>1. IsFiniteSet(1..Len(p))
  BY OneToN
<1> QED
  BY <1>1, FS_Subset, FS_CardinalityType DEF Places

LEMMA PlacesAppend ==
  ASSUME NEW p \in Seq(Transactions), NEW S, NEW y \in Transactions
  PROVE  Cardinality(Places(Append(p, y), S)) = Cardinality(Places(p, S)) + (IF y \in S THEN 1 ELSE 0)
<1>1. /\ Len(p) \in Nat /\ Len(Append(p, y)) = Len(p) + 1
      /\ \A i \in 1..Len(p) : Append(p, y)[i] = p[i]
      /\ Append(p, y)[Len(p) + 1] = y
  OBVIOUS
<1>2. CASE y \in S
  <2>1. Places(Append(p, y), S) = Places(p, S) \cup {Len(p) + 1}
    BY <1>1, <1>2 DEF Places
  <2>2. Len(p) + 1 \notin Places(p, S)
    BY <1>1 DEF Places
  <2> QED
    BY <1>2, <2>1, <2>2, PlacesFinite, FS_AddElement
<1>3. CASE y \notin S
  <2>1. Places(Append(p, y), S) = Places(p, S)
    BY <1>1, <1>3 DEF Places
  <2> QED
    BY <1>3, <2>1, PlacesFinite
<1> QED
  BY <1>2, <1>3

LEMMA PlacesTail ==
  ASSUME NEW p \in Seq(Transactions), NEW S, p # <<>>
  PROVE  Cardinality(Places(p, S)) = Cardinality(Places(Tail(p), S)) + (IF Head(p) \in S THEN 1 ELSE 0)
<1> DEFINE t == Tail(p)
           rest == Places(p, S) \ {1}
           f == [i \in Places(t, S) |-> i + 1]
<1>1. /\ Len(p) \in Nat \ {0} /\ Len(t) = Len(p) - 1 /\ Head(p) = p[1]
      /\ \A i \in 1..Len(t) : t[i] = p[i + 1]
      /\ t \in Seq(Transactions)
  BY EmptySeq
<1> HIDE DEF t
<1>2. f \in Bijection(Places(t, S), rest)
  <2>1. ASSUME NEW i \in Places(t, S) PROVE i + 1 \in rest
    BY <1>1 DEF Places
  <2>2. ASSUME NEW k \in rest PROVE k - 1 \in Places(t, S) /\ (k - 1) + 1 = k
    <3>1. k \in 1..Len(p) /\ k # 1 /\ p[k] \in S
      BY DEF Places
    <3>2. k - 1 \in 1..Len(t) /\ (k - 1) + 1 = k
      BY <1>1, <3>1
    <3> QED
      BY <1>1, <3>1, <3>2 DEF Places
  <2>3. \A i, j \in Places(t, S) : i + 1 = j + 1 => i = j
    BY <1>1 DEF Places
  <2>4. f \in [Places(t, S) -> rest]
    BY <2>1
  <2>5. \A k \in rest : \E i \in Places(t, S) : f[i] = k
    BY <2>2
  <2>6. f \in Injection(Places(t, S), rest)
    BY <2>3, <2>4 DEF Injection, IsInjective
  <2>7. f \in Surjection(Places(t, S), rest)
    BY <2>4, <2>5 DEF Surjection
  <2> QED
    BY <2>6, <2>7 DEF Bijection
<1>3. Cardinality(rest) = Cardinality(Places(t, S))
  <2>1. IsFiniteSet(Places(t, S))
    BY <1>1, PlacesFinite
  <2>2. ExistsBijection(Places(t, S), rest)
    BY <1>2 DEF ExistsBijection
  <2> QED
    BY <2>1, <2>2, FS_Bijection
<1>4. CASE Head(p) \in S
  <2>1. 1 \in Places(p, S)
    BY <1>1, <1>4 DEF Places
  <2>2. Cardinality(rest) = Cardinality(Places(p, S)) - 1
    BY <2>1, PlacesFinite, FS_RemoveElement
  <2> QED
    BY <1>3, <1>4, <2>2, PlacesFinite DEF t
<1>5. CASE Head(p) \notin S
  <2>1. rest = Places(p, S)
    BY <1>1, <1>5 DEF Places
  <2>2. Cardinality(Places(t, S)) \in Nat
    BY <1>1, PlacesFinite
  <2>3. Cardinality(Places(p, S)) = Cardinality(Places(t, S)) + 0
    <3> HIDE DEF rest
    <3>1. Cardinality(rest) = Cardinality(Places(p, S))
      BY <2>1
    <3> QED
      BY <1>3, <2>2, <3>1
  <2> QED
    BY <1>5, <2>3 DEF t
<1> QED
  BY <1>4, <1>5
-----------------------------------------------------------------------------
(* The functions of the scheduler. *)

Sched(r) ==
  /\ r \in SchedulerStates
  /\ \A t \in WorkTypes : Listed(r, t)
  /\ TurnComes(r)

\* A queue pair that is marked, or about to be, stays so; work and credits are
\* what they were.
Frame(r, s) ==
  /\ s.usage = r.usage /\ s.send = r.send /\ s.cut = r.cut /\ s.inbound = r.inbound
  /\ s.reads = r.reads /\ s.credits = r.credits /\ s.limited = r.limited
Covered(r, q, t) == q \in r.active[t] \/ <<q, t>> \in r.adds
Keeps(r, s) ==
  /\ Frame(r, s)
  /\ \A q \in Qps, t \in WorkTypes : Covered(r, q, t) => Covered(s, q, t)

LEMMA TwoTypes ==
  /\ WorkTypes = {"request", "response"}
  /\ \A t \in WorkTypes : Other(t) \in WorkTypes /\ Other(t) # t /\ Other(Other(t)) = t
                          /\ WorkTypes = {t, Other(t)}
BY DEF WorkTypes, Kinds, Other

\* Only the phase, the current type and the quanta change.
LEMMA RunKeeps ==
  ASSUME NEW r, Sched(r), NEW now \in BOOLEAN,
         NEW s, s = RunWorkScheduler(r, now)
  PROVE  Sched(s) /\ Awake(s) /\ Keeps(r, s)
<1>1. /\ r \in SchedulerStates /\ r.current \in WorkTypes /\ Other(r.current) \in WorkTypes
      /\ r.quanta \in [WorkTypes -> Int]
  BY TwoTypes DEF Sched, SchedulerStates
<1>2. CASE ~now
  <2>1. s = [r EXCEPT !.phase = "run"]
    BY <1>2 DEF RunWorkScheduler
  <2>2. s \in SchedulerStates /\ s.phase = "run" /\ s.wqs = r.wqs /\ s.active = r.active
        /\ s.adds = r.adds /\ Frame(r, s)
    BY <1>1, <2>1 DEF SchedulerStates, Frame
  <2> QED
    BY <2>2 DEF Sched, Awake, Keeps, Frame, Covered, Listed, TurnComes, HasCredits
<1>3. CASE now /\ ~\E t \in WorkTypes : CanSend(r, t)
  <2>1. s = [r EXCEPT !.phase = "idle"]
    BY <1>3 DEF RunWorkScheduler
  <2>2. s \in SchedulerStates /\ s.phase = "idle" /\ s.wqs = r.wqs /\ s.active = r.active
        /\ s.adds = r.adds /\ s.xoff = r.xoff /\ Frame(r, s)
    BY <1>1, <2>1 DEF SchedulerStates, Frame
  <2>3. Awake(s)
    BY <1>3, <2>2 DEF Awake, CanSend, Frame
  <2> QED
    BY <2>2, <2>3 DEF Sched, Keeps, Frame, Covered, Listed, TurnComes, HasCredits
<1>4. CASE now /\ \E t \in WorkTypes : CanSend(r, t)
  <2> DEFINE t == IF CanSend(r, r.current) THEN r.current ELSE Other(r.current)
  <2>1. t \in WorkTypes /\ CanSend(r, t)
    BY <1>1, <1>4, TwoTypes
  <2>2. s = [r EXCEPT !.phase = "lookup", !.current = t,
                      !.quanta[t] = IF @ = 0 THEN Quanta ELSE @]
    BY <1>4 DEF RunWorkScheduler
  <2> HIDE DEF t
  <2> DEFINE n == IF r.quanta[t] = 0 THEN Quanta ELSE r.quanta[t]
             quanta == [r.quanta EXCEPT ![t] = n]
  <2>3. s = [r EXCEPT !.phase = "lookup", !.current = t, !.quanta = quanta]
    BY <1>1, <2>2 DEF SchedulerStates
  <2>4. quanta \in [WorkTypes -> Int]
    <3>1. n \in Int
      <4>1. Quanta \in Int
        BY CreditAssumption
      <4> QED
        BY <1>1, <2>1, <4>1
    <3> HIDE DEF n
    <3> QED
      BY <1>1, <3>1
  <2> HIDE DEF quanta
  <2>5. s \in SchedulerStates /\ s.phase = "lookup" /\ s.current = t /\ s.wqs = r.wqs
        /\ s.active = r.active /\ s.adds = r.adds /\ Frame(r, s)
    BY ZenonT(60), <1>1, <2>1, <2>3, <2>4 DEF SchedulerStates, Frame
  <2>6. TurnComes(s)
    BY <2>1, <2>5 DEF TurnComes, CanSend, Frame
  <2> QED
    BY <2>5, <2>6 DEF Sched, Awake, Keeps, Frame, Covered, Listed, HasCredits
<1> QED
  BY <1>2, <1>3, <1>4

LEMMA RunIfIdleKeeps ==
  ASSUME NEW r, Sched(r), NEW now \in BOOLEAN,
         NEW s, s = RunIfIdle(r, now)
  PROVE  Sched(s) /\ Awake(s) /\ Keeps(r, s)
<1>1. CASE r.phase = "idle"
  BY <1>1, RunKeeps DEF RunIfIdle
<1>2. CASE r.phase # "idle"
  BY <1>2 DEF RunIfIdle, Awake, Keeps, Frame
<1> QED
  BY <1>1, <1>2

\* A queue pair is put on the list of its work type.
LEMMA AddQpToScheduleSetKeeps ==
  ASSUME NEW r, Sched(r), Awake(r), NEW q \in Qps, NEW t \in WorkTypes,
         NEW now \in BOOLEAN, NEW s, s = AddQpToScheduleSet(r, q, t, now)
  PROVE  /\ Sched(s) /\ Awake(s) /\ Keeps(r, s)
         /\ HasCredits(r, q, t) => Covered(s, q, t)
<1>1. CASE q \in r.limited
  <2> DEFINE adds == r.adds \cup {<<q, t>>}
  <2>1. s = [r EXCEPT !.adds = adds]
    BY <1>1 DEF AddQpToScheduleSet
  <2>2. r \in SchedulerStates /\ adds \in SUBSET (Qps \X (WorkTypes \cup {"current"}))
    <3>1. r \in SchedulerStates /\ r.adds \in SUBSET (Qps \X (WorkTypes \cup {"current"}))
      BY DEF Sched, SchedulerStates
    <3>2. <<q, t>> \in Qps \X (WorkTypes \cup {"current"})
      OBVIOUS
    <3> QED
      BY <3>1, <3>2
  <2> HIDE DEF adds
  <2>3. /\ s \in SchedulerStates /\ s.phase = r.phase /\ s.wqs = r.wqs
        /\ s.active = r.active /\ s.adds = adds
        /\ s.xoff = r.xoff /\ s.current = r.current /\ Frame(r, s)
    BY <2>1, <2>2 DEF SchedulerStates, Frame
  <2> QED
    BY <2>3 DEF adds, Sched, Awake, CanSend, Keeps, Frame, Covered, Listed, TurnComes, HasCredits
<1>2. CASE q \notin r.limited /\ (~HasCredits(r, q, t) \/ q \in r.active[t])
  BY <1>2 DEF AddQpToScheduleSet, Keeps, Frame, Covered
<1>3. CASE q \notin r.limited /\ HasCredits(r, q, t) /\ q \notin r.active[t]
  <2> DEFINE a == [r EXCEPT !.wqs[t] = Append(@, q), !.active[t] = @ \cup {q}]
  <2>1. s = RunIfIdle(a, now)
    BY <1>3 DEF AddQpToScheduleSet
  <2>2. /\ r.wqs \in [WorkTypes -> Seq(Qps)] /\ r.active \in [WorkTypes -> SUBSET Qps]
    BY DEF Sched, SchedulerStates
  <2> DEFINE wqs == [r.wqs EXCEPT ![t] = Append(@, q)]
             active == [r.active EXCEPT ![t] = @ \cup {q}]
  <2>3. a = [r EXCEPT !.wqs = wqs, !.active = active]
    BY DEF Sched, SchedulerStates
  <2>4. /\ wqs \in [WorkTypes -> Seq(Qps)] /\ wqs[t] = Append(r.wqs[t], q)
        /\ \A u \in WorkTypes \ {t} : wqs[u] = r.wqs[u]
        /\ active \in [WorkTypes -> SUBSET Qps] /\ active[t] = r.active[t] \cup {q}
        /\ \A u \in WorkTypes \ {t} : active[u] = r.active[u]
    BY <2>2
  <2> HIDE DEF a, wqs, active
  <2>5. /\ a \in SchedulerStates /\ a.phase = r.phase /\ a.current = r.current
        /\ a.wqs = wqs /\ a.active = active /\ a.adds = r.adds /\ Frame(r, a)
    BY <2>3, <2>4 DEF SchedulerStates, Frame, Sched
  <2>6. Keeps(r, a) /\ Covered(a, q, t)
    BY <2>5, <2>4 DEF Keeps, Covered
  <2>7. TurnComes(a)
    <3>1. \A u \in WorkTypes : r.wqs[u] # <<>> => a.wqs[u] # <<>>
      <4>1. Append(r.wqs[t], q) # <<>>
        <5>1. r.wqs[t] \in Seq(Qps)
          BY <2>2
        <5>2. Len(Append(r.wqs[t], q)) = Len(r.wqs[t]) + 1 /\ Len(r.wqs[t]) \in Nat
          BY <5>1
        <5>3. Len(Append(r.wqs[t], q)) # 0
          BY <5>2
        <5> QED
          BY <5>3, EmptySeq
      <4> QED
        BY <2>5, <2>4, <4>1
    <3>2. r.current \in WorkTypes
      BY DEF Sched, SchedulerStates
    <3> QED
      BY <2>5, <3>1, <3>2 DEF TurnComes, Frame, Sched
  <2>8. ASSUME NEW u \in WorkTypes PROVE Listed(a, u)
    <3>1. Listed(r, u)
      BY DEF Sched
    <3>2. CASE u # t
      <4>1. a.wqs[u] = r.wqs[u] /\ a.active[u] = r.active[u]
        BY <2>5, <2>4, <3>2
      <4>2. \A p \in Qps : HasCredits(a, p, u) <=> HasCredits(r, p, u)
        BY <2>5 DEF HasCredits, Frame
      <4>3. r.active[u] \subseteq Qps
        BY <2>2
      <4> QED
        BY <3>1, <4>1, <4>2, <4>3 DEF Listed
    <3>3. CASE u = t
      <4> DEFINE w == r.wqs[t]
                 v == Append(w, q)
      <4>1. a.wqs[t] = v /\ a.active[t] = r.active[t] \cup {q} /\ w \in Seq(Qps)
        BY <2>2, <2>5, <2>4
      <4>2. /\ Len(w) \in Nat /\ Len(v) = Len(w) + 1 /\ v[Len(w) + 1] = q
            /\ \A i \in 1..Len(w) : v[i] = w[i]
        BY <4>1
      <4>3. /\ Members(w) = r.active[t] /\ NoRepeats(w)
            /\ \A p \in r.active[t] : HasCredits(r, p, t)
        BY <3>1, <3>3 DEF Listed
      <4> HIDE DEF w, v
      <4>4. Members(v) = r.active[t] \cup {q}
        <5>1. 1..Len(v) = (1..Len(w)) \cup {Len(w) + 1}
          BY <4>2
        <5> QED
          BY <4>2, <4>3, <5>1 DEF Members
      <4>5. \A i \in 1..Len(w) : w[i] # q
        BY <1>3, <4>3 DEF Members
      <4>6. NoRepeats(v)
        BY <4>2, <4>3, <4>5 DEF NoRepeats
      <4>7. \A p \in r.active[t] \cup {q} : HasCredits(a, p, t)
        BY <1>3, <2>5, <4>3 DEF HasCredits, Frame
      <4> QED
        BY <3>3, <4>1, <4>4, <4>6, <4>7 DEF Listed
    <3> QED
      BY <3>2, <3>3
  <2>9. Sched(a)
    BY <2>5, <2>7, <2>8 DEF Sched
  <2>10. Sched(s) /\ Awake(s) /\ Keeps(a, s)
    BY <2>1, <2>9, RunIfIdleKeeps
  <2> QED
    BY <2>6, <2>10 DEF Keeps, Frame
<1> QED
  BY <1>1, <1>2, <1>3

LEMMA KeepsTransitive ==
  ASSUME NEW r, NEW s, NEW u, Keeps(r, s), Keeps(s, u)
  PROVE  Keeps(r, u)
BY DEF Keeps, Frame

\* Falcon reports another XOFF status.
LEMMA SetXoffKeeps ==
  ASSUME NEW r, Sched(r), Awake(r), NEW xoff \in [WorkTypes -> BOOLEAN],
         NEW now \in BOOLEAN, NEW s, s = SetXoff(r, xoff, now)
  PROVE  Sched(s) /\ Awake(s) /\ Keeps(r, s)
<1>1. CASE xoff = r.xoff
  BY <1>1 DEF SetXoff, Keeps, Frame
<1>2. CASE xoff # r.xoff
  <2> DEFINE a == [r EXCEPT !.xoff = xoff]
  <2>1. s = RunIfIdle(a, now)
    BY <1>2 DEF SetXoff
  <2>2. /\ a \in SchedulerStates /\ a.phase = r.phase /\ a.current = r.current
        /\ a.wqs = r.wqs /\ a.active = r.active /\ a.adds = r.adds /\ Frame(r, a)
    BY DEF SchedulerStates, Frame, Sched
  <2> HIDE DEF a
  <2>3. Sched(a) /\ Keeps(r, a)
    BY <2>2 DEF Sched, Keeps, Frame, Covered, Listed, TurnComes, HasCredits
  <2> QED
    BY <2>1, <2>3, RunIfIdleKeeps, KeepsTransitive
<1> QED
  BY <1>1, <1>2

\* A credit of queue pair q returns: q is looked at for both work types.
LEMMA ReturnFalconCreditKeeps ==
  ASSUME NEW r, Sched(r), Awake(r), NEW q \in Qps, NEW t \in WorkTypes,
         NEW now \in BOOLEAN, NEW s, s = ReturnFalconCredit(r, q, t, now)
  PROVE  /\ Sched(s) /\ Awake(s)
         /\ s.usage = [r.usage EXCEPT ![q][t] = @ - 1]
         /\ s.credits = [r.credits EXCEPT ![t] = @ + 1]
         /\ s.send = r.send /\ s.inbound = r.inbound
         /\ \A p \in Qps, u \in WorkTypes : Covered(r, p, u) => Covered(s, p, u)
         /\ \A u \in WorkTypes : HasCredits(s, q, u) => Covered(s, q, u)
<1> DEFINE usage == [r.usage EXCEPT ![q][t] = @ - 1]
           a == [r EXCEPT !.usage = usage]
           b == IF HasCredits(a, q, "request")
                THEN AddQpToScheduleSet(a, q, "request", now) ELSE a
           c == IF HasCredits(b, q, "response")
                THEN AddQpToScheduleSet(b, q, "response", now) ELSE b
           credits == [r.credits EXCEPT ![t] = @ + 1]
           d == [c EXCEPT !.credits[t] = @ + 1]
<1>1. r \in SchedulerStates /\ r.usage \in [Qps -> [WorkTypes -> Int]]
      /\ r.credits \in [WorkTypes -> Int]
  BY DEF Sched, SchedulerStates
<1>2. a = [r EXCEPT !.usage[q][t] = @ - 1]
  BY <1>1 DEF SchedulerStates
<1>3. s = RunIfIdle(d, now)
  BY <1>2 DEF ReturnFalconCredit
<1>4. /\ usage \in [Qps -> [WorkTypes -> Int]]
      /\ \A p \in Qps, u \in WorkTypes : usage[p][u] \in Int /\ usage[p][u] <= r.usage[p][u]
  BY <1>1
<1>5. credits \in [WorkTypes -> Int] /\ \A u \in WorkTypes : credits[u] >= r.credits[u]
  BY <1>1
<1> HIDE DEF usage, credits
<1>6. /\ a \in SchedulerStates /\ a.phase = r.phase /\ a.current = r.current
      /\ a.wqs = r.wqs /\ a.active = r.active /\ a.adds = r.adds /\ a.xoff = r.xoff
      /\ a.credits = r.credits /\ a.send = r.send /\ a.inbound = r.inbound
      /\ a.usage = usage
  BY <1>1, <1>4 DEF SchedulerStates
<1> HIDE DEF a
<1>7. \A p \in Qps, u \in WorkTypes : HasCredits(r, p, u) => HasCredits(a, p, u)
  <2>1. \A u \in WorkTypes : QpCredits[u] \in Int
    BY CreditAssumption
  <2> QED
    BY <1>1, <1>4, <1>6, <2>1 DEF HasCredits
<1>8. Sched(a) /\ Awake(a)
  <2>1. \A u \in WorkTypes : r.active[u] \subseteq Qps
    BY <1>1 DEF SchedulerStates
  <2>2. \A u \in WorkTypes : Listed(a, u)
    BY <1>6, <1>7, <2>1 DEF Listed, Sched
  <2>3. TurnComes(a) /\ Awake(a)
    BY <1>6 DEF TurnComes, Awake, CanSend, Sched
  <2> QED
    BY <1>6, <2>2, <2>3 DEF Sched
<1>9. Sched(b) /\ Awake(b) /\ Keeps(a, b)
      /\ (HasCredits(a, q, "request") => Covered(b, q, "request"))
  <2>1. CASE HasCredits(a, q, "request")
    BY <1>8, <2>1, TwoTypes, AddQpToScheduleSetKeeps
  <2>2. CASE ~HasCredits(a, q, "request")
    BY <1>8, <2>2 DEF Keeps, Frame
  <2> QED
    BY <2>1, <2>2
<1> HIDE DEF b
<1>10. Sched(c) /\ Awake(c) /\ Keeps(b, c)
      /\ (HasCredits(b, q, "response") => Covered(c, q, "response"))
  <2>1. CASE HasCredits(b, q, "response")
    BY <1>9, <2>1, TwoTypes, AddQpToScheduleSetKeeps
  <2>2. CASE ~HasCredits(b, q, "response")
    BY <1>9, <2>2 DEF Keeps, Frame
  <2> QED
    BY <2>1, <2>2
<1> HIDE DEF c
<1>11. /\ d \in SchedulerStates /\ d.phase = c.phase /\ d.current = c.current
       /\ d.wqs = c.wqs /\ d.active = c.active /\ d.adds = c.adds
       /\ d.credits = credits /\ d.send = c.send /\ d.inbound = c.inbound
       /\ d.usage = c.usage
  <2>1. c \in SchedulerStates /\ c.credits = r.credits
    BY <1>6, <1>9, <1>10 DEF Sched, Keeps, Frame
  <2>2. d = [c EXCEPT !.credits = credits]
    BY <2>1 DEF SchedulerStates, credits
  <2> HIDE DEF d
  <2> QED
    BY <1>5, <2>1, <2>2 DEF SchedulerStates
<1> HIDE DEF d
<1>12. Sched(d)
  <2>1. \A u \in WorkTypes : Listed(d, u)
    BY <1>10, <1>11 DEF Listed, Sched, HasCredits
  <2>2. c.credits = r.credits /\ c.current \in WorkTypes
    BY <1>6, <1>9, <1>10 DEF Sched, Keeps, Frame, SchedulerStates
  <2>3. TurnComes(d)
    <3>1. credits[c.current] \in Int /\ credits[c.current] >= r.credits[c.current]
          /\ r.credits[c.current] \in Int
      BY <1>1, <1>5, <2>2
    <3> QED
      BY <1>10, <1>11, <2>2, <3>1 DEF TurnComes, Sched
  <2> QED
    BY <1>11, <2>1, <2>3 DEF Sched
<1>13. Sched(s) /\ Awake(s) /\ Keeps(d, s)
  BY <1>3, <1>12, RunIfIdleKeeps
<1>14. s.usage = usage /\ s.credits = credits /\ s.send = r.send /\ s.inbound = r.inbound
  BY <1>6, <1>9, <1>10, <1>11, <1>13 DEF Keeps, Frame
<1>15. \A p \in Qps, u \in WorkTypes :
         /\ Covered(r, p, u) => Covered(a, p, u)
         /\ Covered(a, p, u) => Covered(b, p, u)
         /\ Covered(b, p, u) => Covered(c, p, u)
         /\ Covered(c, p, u) => Covered(s, p, u)
  <2>1. \A p \in Qps, u \in WorkTypes : Covered(c, p, u) <=> Covered(d, p, u)
    BY <1>11 DEF Covered
  <2>2. \A p \in Qps, u \in WorkTypes : Covered(r, p, u) <=> Covered(a, p, u)
    BY <1>6 DEF Covered
  <2> QED
    BY <1>9, <1>10, <1>13, <2>1, <2>2 DEF Keeps
<1>16. \A u \in WorkTypes : HasCredits(s, q, u) => Covered(s, q, u)
  <2>1. \A u \in WorkTypes : HasCredits(s, q, u) <=> HasCredits(a, q, u)
    BY <1>6, <1>14 DEF HasCredits
  <2>2. \A u \in WorkTypes : HasCredits(b, q, u) <=> HasCredits(a, q, u)
    BY <1>9 DEF HasCredits, Keeps, Frame
  <2>3. ASSUME HasCredits(s, q, "request") PROVE Covered(s, q, "request")
    BY <1>9, <1>15, <2>1, <2>3, TwoTypes
  <2>4. ASSUME HasCredits(s, q, "response") PROVE Covered(s, q, "response")
    BY <1>10, <1>15, <2>1, <2>2, <2>4, TwoTypes
  <2> QED
    BY <2>3, <2>4, TwoTypes
<1> QED
  BY <1>13, <1>14, <1>15, <1>16 DEF usage, credits
-----------------------------------------------------------------------------
(* A turn of a queue pair. *)

\* The front of a list without duplicates is taken off.
LEMMA FrontTakenOff ==
  ASSUME NEW w \in Seq(Qps), w # <<>>, NoRepeats(w)
  PROVE  /\ Head(w) \in Members(w) /\ Head(w) \in Qps /\ Tail(w) \in Seq(Qps)
         /\ Members(Tail(w)) = Members(w) \ {Head(w)} /\ NoRepeats(Tail(w))
<1> DEFINE v == Tail(w)
           q == Head(w)
           A == Members(w)
<1>1. /\ Len(w) \in Nat \ {0} /\ Len(v) = Len(w) - 1 /\ q = w[1] /\ v \in Seq(Qps)
      /\ \A i \in 1..Len(v) : v[i] = w[i + 1]
  BY EmptySeq
<1> HIDE DEF v, q
<1>2. 1 \in 1..Len(w) /\ w[1] \in Qps
  BY <1>1
<1>3. q \in A /\ q \in Qps
  BY <1>1, <1>2 DEF Members
<1>4. ASSUME NEW i \in 1..Len(v) PROVE i + 1 \in 1..Len(w) /\ i + 1 # 1 /\ v[i] = w[i + 1]
  BY <1>1
<1>5. ASSUME NEW k \in 1..Len(w), k # 1 PROVE k - 1 \in 1..Len(v) /\ v[k - 1] = w[k]
  <2>1. k - 1 \in 1..Len(v) /\ (k - 1) + 1 = k
    BY <1>1, <1>5
  <2> QED
    BY <1>1, <2>1
<1>6. Members(v) = A \ {q}
  <2>1. ASSUME NEW i \in 1..Len(v) PROVE v[i] \in A \ {q}
    BY <1>1, <1>2, <1>4 DEF Members, NoRepeats
  <2>2. ASSUME NEW p \in A \ {q} PROVE p \in Members(v)
    <3>1. PICK k \in 1..Len(w) : w[k] = p
      BY DEF Members
    <3>2. k # 1
      BY <1>1, <3>1
    <3> QED
      BY <1>5, <3>1, <3>2 DEF Members
  <2> QED
    BY <2>1, <2>2 DEF Members
<1>7. ASSUME NEW i \in 1..Len(v), NEW j \in 1..Len(v), v[i] = v[j] PROVE i = j
  <2>1. i + 1 \in 1..Len(w) /\ j + 1 \in 1..Len(w) /\ w[i + 1] = w[j + 1]
    BY <1>4, <1>7
  <2>2. i + 1 = j + 1
    BY <2>1 DEF NoRepeats
  <2> QED
    BY <2>2
<1> QED
  BY <1>1, <1>3, <1>6, <1>7 DEF NoRepeats, v, q

\* The current work type may change, nothing else does.
LEMMA UpdateWorkTypeKeeps ==
  ASSUME NEW r, r \in SchedulerStates, r.phase = "run", \A t \in WorkTypes : Listed(r, t),
         NEW s, s = UpdateWorkType(r)
  PROVE  /\ Sched(s) /\ s.phase = "run" /\ s.active = r.active /\ s.adds = r.adds
         /\ Frame(r, s)
<1>1. CASE CanSend(r, Other(r.current))
  <2>1. s = [r EXCEPT !.current = Other(@)]
    BY <1>1 DEF UpdateWorkType
  <2>2. r.current \in WorkTypes /\ Other(r.current) \in WorkTypes
    BY TwoTypes DEF SchedulerStates
  <2>3. s \in SchedulerStates /\ s.phase = "run" /\ s.wqs = r.wqs /\ s.active = r.active
        /\ s.adds = r.adds /\ Frame(r, s)
    BY <2>1, <2>2 DEF SchedulerStates, Frame
  <2> QED
    BY <2>3 DEF Sched, Frame, Listed, TurnComes, HasCredits
<1>2. CASE ~CanSend(r, Other(r.current))
  BY <1>2 DEF UpdateWorkType, Sched, TurnComes, Frame
<1> QED
  BY <1>1, <1>2

\* The lists of r hold what they are to hold, but for the queue pair q whose
\* turn it is.
Turn(r, q) ==
  /\ r \in SchedulerStates /\ r.wqs[r.current] # <<>> /\ q = Head(r.wqs[r.current])
  /\ \A t \in WorkTypes :
       /\ Members(r.wqs[t]) = r.active[t] /\ NoRepeats(r.wqs[t])
       /\ \A p \in r.active[t] : (p = q /\ t = r.current) \/ HasCredits(r, p, t)

\* Others stay marked or about to be.
Others(r, s, q) ==
  /\ Frame(r, s)
  /\ \A p \in Qps, t \in WorkTypes : p # q /\ Covered(r, p, t) => Covered(s, p, t)

LEMMA TurnEnds ==
  ASSUME NEW r, NEW q, Turn(r, q),
         NEW e, e \in SchedulerStates, e.phase = "run", Frame(r, e), r.adds \subseteq e.adds,
         e.wqs = [r.wqs EXCEPT ![r.current] = Tail(@)],
         e.active = [r.active EXCEPT ![r.current] = @ \ {q}]
  PROVE  /\ Sched(UpdateWorkType(e)) /\ UpdateWorkType(e).phase = "run"
         /\ Others(r, UpdateWorkType(e), q)
<1> DEFINE t == r.current
           s == UpdateWorkType(e)
<1>1. t = r.current /\ s = UpdateWorkType(e)
  OBVIOUS
<1> HIDE DEF t, s
<1>2. /\ r \in SchedulerStates /\ t \in WorkTypes
      /\ r.wqs \in [WorkTypes -> Seq(Qps)] /\ r.active \in [WorkTypes -> SUBSET Qps]
  BY <1>1 DEF Turn, SchedulerStates
<1>3. /\ e.wqs[t] = Tail(r.wqs[t]) /\ \A u \in WorkTypes \ {t} : e.wqs[u] = r.wqs[u]
      /\ e.active[t] = r.active[t] \ {q}
      /\ \A u \in WorkTypes \ {t} : e.active[u] = r.active[u]
  BY <1>2, <1>1
<1>4. Members(Tail(r.wqs[t])) = r.active[t] \ {q} /\ NoRepeats(Tail(r.wqs[t]))
  <2>1. r.wqs[t] \in Seq(Qps) /\ r.wqs[t] # <<>> /\ NoRepeats(r.wqs[t])
        /\ q = Head(r.wqs[t]) /\ Members(r.wqs[t]) = r.active[t]
    BY <1>2, <1>1 DEF Turn
  <2> QED
    BY <2>1, FrontTakenOff
<1>5. ASSUME NEW u \in WorkTypes PROVE Listed(e, u)
  <2>1. \A p \in e.active[u] : HasCredits(r, p, u)
    BY <1>2, <1>3, <1>1 DEF Turn
  <2>2. \A p \in e.active[u] : HasCredits(e, p, u)
    BY <2>1 DEF HasCredits, Frame
  <2>3. CASE u = t
    BY <1>3, <1>4, <2>2, <2>3 DEF Listed
  <2>4. CASE u # t
    BY <1>3, <2>2, <2>4 DEF Listed, Turn
  <2> QED
    BY <2>3, <2>4
<1>6. Sched(s) /\ s.phase = "run" /\ s.active = e.active /\ s.adds = e.adds /\ Frame(e, s)
  BY <1>5, <1>1, UpdateWorkTypeKeeps
<1>7. \A p \in Qps, u \in WorkTypes : p # q /\ Covered(r, p, u) => Covered(s, p, u)
  BY <1>2, <1>3, <1>6 DEF Covered
<1>8. Frame(r, s)
  BY <1>6 DEF Frame
<1> QED
  BY <1>6, <1>7, <1>8, <1>1 DEF Others

\* The front of the current list is taken off and loses its mark.
Popped(r, q, adds) ==
  [r EXCEPT !.wqs[r.current] = Tail(@), !.active[r.current] = @ \ {q},
            !.quanta[r.current] = 0, !.phase = "run", !.adds = adds]

LEMMA FrontEndsTurn ==
  ASSUME NEW r, NEW q, Turn(r, q),
         NEW adds \in SUBSET (Qps \X (WorkTypes \cup {"current"})), r.adds \subseteq adds,
         NEW s, s = UpdateWorkType(Popped(r, q, adds))
  PROVE  Sched(s) /\ s.phase = "run" /\ Others(r, s, q)
<1> DEFINE t == r.current
           wqs == [r.wqs EXCEPT ![t] = Tail(@)]
           active == [r.active EXCEPT ![t] = @ \ {q}]
           quanta == [r.quanta EXCEPT ![t] = 0]
           e == [r EXCEPT !.wqs = wqs, !.active = active, !.quanta = quanta,
                          !.phase = "run", !.adds = adds]
<1>1. /\ r \in SchedulerStates /\ t \in WorkTypes /\ r.quanta \in [WorkTypes -> Int]
      /\ r.wqs \in [WorkTypes -> Seq(Qps)] /\ r.active \in [WorkTypes -> SUBSET Qps]
      /\ r.wqs[t] # <<>>
  BY DEF Turn, SchedulerStates
<1>2. Popped(r, q, adds) = e
  BY <1>1 DEF Popped, SchedulerStates
<1>3. Tail(r.wqs[t]) \in Seq(Qps)
  BY <1>1
<1>4. /\ wqs \in [WorkTypes -> Seq(Qps)] /\ active \in [WorkTypes -> SUBSET Qps]
      /\ quanta \in [WorkTypes -> Int]
  BY <1>1, <1>3
<1> HIDE DEF wqs, active, quanta
<1>5. /\ e \in SchedulerStates /\ e.phase = "run" /\ Frame(r, e) /\ e.adds = adds
      /\ e.wqs = wqs /\ e.active = active
  BY <1>1, <1>4 DEF SchedulerStates, Frame
<1> HIDE DEF e
<1>6. /\ e.wqs = [r.wqs EXCEPT ![t] = Tail(@)] /\ e.active = [r.active EXCEPT ![t] = @ \ {q}]
      /\ r.adds \subseteq e.adds
  BY <1>5 DEF wqs, active
<1> QED
  BY <1>2, <1>5, <1>6, TurnEnds

\* The ops that are queued are the queue pair's own.
SendTyped(r) == \A q \in Qps : \A i \in 1..Len(r.send[q]) : r.send[q][i] \in 1..Len(Ops[q])

\* What a packet of q takes: a credit of type t, and a part of q's work.
Taken(r, s, q, t) ==
  /\ s.usage = [r.usage EXCEPT ![q][t] = @ + 1]
  /\ s.credits = [r.credits EXCEPT ![t] = @ - 1]
  /\ \A p \in Qps : s.inbound[p] <= r.inbound[p]
  /\ t = "request" => s.inbound = r.inbound
  /\ t = "response" => s.send = r.send
  /\ \A p \in Qps \ {q} : s.send[p] = r.send[p] /\ s.inbound[p] = r.inbound[p]

\* The packet is created and its quantum used.
Charged(r, q, t, bytesLeft) ==
  [Created(r, q, t) EXCEPT !.quanta[t] = IF bytesLeft THEN @ - 1 ELSE 0]

LEMMA CreatedTakes ==
  ASSUME NEW r, r \in SchedulerStates, SendTyped(r), NEW q \in Qps, NEW t \in WorkTypes,
         HasCredits(r, q, t), NEW bytesLeft \in BOOLEAN,
         NEW s, s = Charged(r, q, t, bytesLeft)
  PROVE  /\ s \in SchedulerStates /\ SendTyped(s) /\ Taken(r, s, q, t)
         /\ s.phase = r.phase /\ s.current = r.current /\ s.wqs = r.wqs
         /\ s.active = r.active /\ s.adds = r.adds /\ s.xoff = r.xoff
         /\ t = "response" => s.reads = r.reads
<1> DEFINE usage == [r.usage EXCEPT ![q][t] = @ + 1]
           credits == [r.credits EXCEPT ![t] = @ - 1]
           n == IF bytesLeft THEN r.quanta[t] - 1 ELSE 0
           quanta == [r.quanta EXCEPT ![t] = n]
           limited == r.limited \cup {q}
           inbound == [r.inbound EXCEPT ![q] = @ - 1]
           x == <<q, Head(r.send[q])>>
           last == r.cut[q] + 1 = Op(x).packets
           send == [r.send EXCEPT ![q] = IF last THEN Tail(@) ELSE @]
           cut == [r.cut EXCEPT ![q] = IF last THEN 0 ELSE @ + 1]
           reads == [r.reads EXCEPT ![q] = IF IsRead(x) THEN @ + 1 ELSE @]
           spent == [r EXCEPT !.usage[q][t] = @ + 1, !.credits[t] = @ - 1,
                              !.limited = @ \cup {q}]
<1>1. /\ r.usage \in [Qps -> [WorkTypes -> Int]] /\ r.credits \in [WorkTypes -> Int]
      /\ r.quanta \in [WorkTypes -> Int] /\ r.limited \in SUBSET Qps
      /\ r.inbound \in [Qps -> Int] /\ r.cut \in [Qps -> Int] /\ r.reads \in [Qps -> Int]
      /\ r.send \in [Qps -> Seq(Nat)]
  BY DEF SchedulerStates
<1>2. /\ usage \in [Qps -> [WorkTypes -> Int]] /\ credits \in [WorkTypes -> Int]
      /\ limited \in SUBSET Qps
  BY <1>1
<1>3. quanta \in [WorkTypes -> Int]
  <2>1. n \in Int
    BY <1>1
  <2> HIDE DEF n
  <2> QED
    BY <1>1, <2>1
<1>4. spent = [r EXCEPT !.usage = usage, !.credits = credits, !.limited = limited]
  BY <1>1 DEF SchedulerStates
<1>5. CASE t = "response"
  <2>1. Created(r, q, t) = [spent EXCEPT !.inbound[q] = @ - 1]
    BY <1>5 DEF Created
  <2>2. /\ inbound \in [Qps -> Int] /\ inbound[q] <= r.inbound[q]
        /\ \A p \in Qps \ {q} : inbound[p] = r.inbound[p]
        /\ \A p \in Qps : inbound[p] <= r.inbound[p]
    BY <1>1
  <2> HIDE DEF usage, credits, quanta, limited, inbound
  <2>3. s = [r EXCEPT !.usage = usage, !.credits = credits, !.limited = limited,
                      !.inbound = inbound, !.quanta = quanta]
    BY <1>1, <1>4, <2>1 DEF SchedulerStates, inbound, quanta, Charged
  <2> HIDE DEF spent
  <2>4. /\ s \in SchedulerStates /\ s.phase = r.phase /\ s.current = r.current
        /\ s.wqs = r.wqs /\ s.active = r.active /\ s.adds = r.adds /\ s.xoff = r.xoff
        /\ s.usage = usage /\ s.credits = credits /\ s.inbound = inbound /\ s.send = r.send
        /\ s.reads = r.reads
    BY ZenonT(60), <1>2, <1>3, <2>2, <2>3 DEF SchedulerStates
  <2>5. \A p \in Qps : s.inbound[p] <= r.inbound[p]
    BY <2>2, <2>4
  <2> QED
    BY <1>5, <2>2, <2>4, <2>5 DEF Taken, SendTyped, usage, credits
<1>6. CASE t = "request"
  <2>1. Created(r, q, t) =
          [spent EXCEPT !.send[q] = IF last THEN Tail(@) ELSE @,
                        !.cut[q] = IF last THEN 0 ELSE @ + 1,
                        !.reads[q] = IF IsRead(x) THEN @ + 1 ELSE @]
    BY <1>6 DEF Created
  <2>2. cut \in [Qps -> Int] /\ reads \in [Qps -> Int]
    BY <1>1
  <2>3. /\ send \in [Qps -> Seq(Nat)] /\ \A p \in Qps \ {q} : send[p] = r.send[p]
        /\ \A i \in 1..Len(send[q]) : send[q][i] \in 1..Len(Ops[q])
    <3>1. r.send[q] # <<>> /\ r.send[q] \in Seq(Nat)
      BY <1>1, <1>6 DEF HasCredits
    <3>2. Tail(r.send[q]) \in Seq(Nat)
          /\ \A i \in 1..Len(Tail(r.send[q])) : Tail(r.send[q])[i] \in 1..Len(Ops[q])
      <4> DEFINE w == r.send[q]
                 v == Tail(w)
      <4>1. /\ w \in Seq(Nat) /\ Len(w) \in Nat \ {0} /\ Len(v) = Len(w) - 1
            /\ v \in Seq(Nat) /\ \A i \in 1..Len(v) : v[i] = w[i + 1]
        BY <3>1, EmptySeq
      <4>2. \A i \in 1..Len(w) : w[i] \in 1..Len(Ops[q])
        BY DEF SendTyped
      <4> HIDE DEF v, w
      <4>3. \A i \in 1..Len(v) : i + 1 \in 1..Len(w)
        BY <4>1
      <4>4. \A i \in 1..Len(v) : v[i] \in 1..Len(Ops[q])
        BY <4>1, <4>2, <4>3
      <4> QED
        BY <4>1, <4>4 DEF v, w
    <3> HIDE DEF last
    <3>3. send[q] = IF last THEN Tail(r.send[q]) ELSE r.send[q]
      BY <1>1
    <3>4. send[q] \in Seq(Nat) /\ \A i \in 1..Len(send[q]) : send[q][i] \in 1..Len(Ops[q])
      BY <3>1, <3>2, <3>3 DEF SendTyped
    <3> QED
      BY <1>1, <3>1, <3>2, <3>4
  <2> HIDE DEF usage, credits, quanta, limited, cut, reads, send, last, x
  <2>4. s = [r EXCEPT !.usage = usage, !.credits = credits, !.limited = limited,
                      !.send = send, !.cut = cut, !.reads = reads, !.quanta = quanta]
    BY ZenonT(60), <1>1, <1>4, <2>1 DEF SchedulerStates, send, cut, reads, quanta, Charged
  <2> HIDE DEF spent
  <2>5. send \in [Qps -> Seq(Nat)]
    BY <2>3
  <2>6. [r EXCEPT !.usage = usage, !.credits = credits, !.limited = limited,
                  !.send = send] \in SchedulerStates
    BY <1>2, <2>5 DEF SchedulerStates
  <2>7. /\ s \in SchedulerStates /\ s.phase = r.phase /\ s.current = r.current
        /\ s.wqs = r.wqs /\ s.active = r.active /\ s.adds = r.adds /\ s.xoff = r.xoff
        /\ s.usage = usage /\ s.credits = credits /\ s.inbound = r.inbound /\ s.send = send
    <3> DEFINE a == [r EXCEPT !.usage = usage, !.credits = credits, !.limited = limited,
                              !.send = send]
    <3>1. s = [a EXCEPT !.cut = cut, !.reads = reads, !.quanta = quanta]
      BY <2>4 DEF SchedulerStates
    <3>2. a \in SchedulerStates /\ a.phase = r.phase /\ a.current = r.current
          /\ a.wqs = r.wqs /\ a.active = r.active /\ a.adds = r.adds /\ a.xoff = r.xoff
          /\ a.usage = usage /\ a.credits = credits /\ a.inbound = r.inbound /\ a.send = send
      BY <2>6 DEF SchedulerStates
    <3> HIDE DEF a
    <3> QED
      BY ZenonT(60), <1>3, <2>2, <3>1, <3>2 DEF SchedulerStates
  <2>8. SendTyped(s)
    BY <2>3, <2>7 DEF SendTyped
  <2>9. \A p \in Qps : s.inbound[p] <= r.inbound[p]
    BY <1>1, <2>7
  <2> QED
    BY <1>6, <2>3, <2>7, <2>8, <2>9 DEF Taken, usage, credits
<1> QED
  BY <1>5, <1>6, TwoTypes

LEMMA TakenThenFramed ==
  ASSUME NEW r, NEW u, NEW s, NEW q, NEW t, Taken(r, u, q, t), SendTyped(u), Frame(u, s)
  PROVE  Taken(r, s, q, t) /\ SendTyped(s)
BY DEF Taken, SendTyped, Frame

\* A transaction is sent: it takes a credit and a part of the queue pair's
\* work, and the others lose no turn.
LEMMA SentKeeps ==
  ASSUME NEW r, Sched(r), SendTyped(r), r.phase = "lookup",
         NEW t, t = r.current, NEW q, q = Head(r.wqs[t]), NEW bytesLeft \in BOOLEAN,
         ~(t = "response" /\ OverOrd(r, q)),
         NEW s, s = Sent(r, q, bytesLeft)
  PROVE  /\ t \in WorkTypes /\ q \in Qps /\ HasCredits(r, q, t) /\ r.credits[t] > 0
         /\ Sched(s) /\ SendTyped(s) /\ s.phase = "run" /\ Taken(r, s, q, t)
         /\ \A p \in Qps, u \in WorkTypes : p # q /\ Covered(r, p, u) => Covered(s, p, u)
<1> DEFINE used == Charged(r, q, t, bytesLeft)
<1>1. /\ r \in SchedulerStates /\ t \in WorkTypes /\ r.wqs[t] # <<>> /\ r.credits[t] > 0
      /\ r.wqs[t] \in Seq(Qps)
  BY DEF Sched, TurnComes, SchedulerStates
<1>2. q \in r.active[t] /\ q \in Qps /\ HasCredits(r, q, t)
  <2>1. NoRepeats(r.wqs[t]) /\ Members(r.wqs[t]) = r.active[t]
        /\ \A p \in r.active[t] : HasCredits(r, p, t)
    BY <1>1 DEF Sched, Listed
  <2>2. Head(r.wqs[t]) \in Members(r.wqs[t]) /\ Head(r.wqs[t]) \in Qps
    BY <1>1, <2>1, FrontTakenOff
  <2> QED
    BY <2>1, <2>2
<1>3. /\ used \in SchedulerStates /\ SendTyped(used) /\ Taken(r, used, q, t)
      /\ used.phase = "lookup" /\ used.current = t /\ used.wqs = r.wqs
      /\ used.active = r.active /\ used.adds = r.adds /\ used.xoff = r.xoff
      /\ t = "response" => used.reads = r.reads
  BY <1>1, <1>2, CreatedTakes
<1>4. s = IF OverOrd(used, q) THEN RemoveOverOrd(used, q)
          ELSE IF used.quanta[t] > 0 /\ HasCredits(used, q, t) THEN [used EXCEPT !.phase = "run"]
          ELSE EndTurn(used, q)
  BY DEF Sent, Charged
<1> HIDE DEF used
<1>5. Turn(used, q)
  <2>1. ASSUME NEW u \in WorkTypes, NEW p \in r.active[u], ~(p = q /\ u = t)
        PROVE  HasCredits(used, p, u)
    <3>1. HasCredits(r, p, u) /\ p \in Qps
      BY <1>1 DEF Sched, Listed, SchedulerStates
    <3>2. used.usage[p][u] = r.usage[p][u]
      <4>1. r.usage \in [Qps -> [WorkTypes -> Int]]
        BY <1>1 DEF SchedulerStates
      <4>2. used.usage = [r.usage EXCEPT ![q][t] = @ + 1]
        BY <1>3 DEF Taken
      <4>3. CASE p # q
        BY <1>2, <3>1, <4>1, <4>2, <4>3
      <4>4. CASE p = q
        <5>1. u # t /\ r.usage[q] \in [WorkTypes -> Int]
          BY <1>2, <2>1, <4>1, <4>4
        <5>2. used.usage[q] = [r.usage[q] EXCEPT ![t] = @ + 1]
          BY <1>2, <4>1, <4>2
        <5> QED
          BY <4>4, <5>1, <5>2
      <4> QED
        BY <4>3, <4>4
    <3>3. p # q => used.send[p] = r.send[p] /\ used.inbound[p] = r.inbound[p]
      BY <1>3, <3>1 DEF Taken
    <3>4. p = q => (u = "request" => used.send = r.send) /\ (u = "response" => used.inbound = r.inbound)
      BY <1>1, <1>3, <2>1, TwoTypes DEF Taken
    <3> QED
      BY <3>1, <3>2, <3>3, <3>4, TwoTypes DEF HasCredits
  <2> QED
    BY <1>1, <1>3, <2>1 DEF Turn, Sched, Listed
<1>6. CASE OverOrd(used, q)
  <2>1. t = "request"
    <3>1. CASE t = "response"
      <4>1. used.reads = r.reads /\ used.send = r.send
        BY <1>3, <3>1 DEF Taken
      <4>2. OverOrd(r, q)
        BY <1>6, <4>1 DEF OverOrd
      <4> QED
        BY <3>1, <4>2
    <3> QED
      BY <1>1, <3>1, TwoTypes
  <2>2. /\ used.adds \in SUBSET (Qps \X (WorkTypes \cup {"current"}))
        /\ used = [used EXCEPT !.adds = used.adds]
    BY <1>3 DEF SchedulerStates
  <2>3. s = UpdateWorkType(Popped(used, q, used.adds))
    <3>1. used.wqs["request"] # <<>> /\ used.current = "request"
      BY <1>1, <1>3, <2>1
    <3>2. s = UpdateWorkType([used EXCEPT !.wqs["request"] = Tail(@),
                                !.active["request"] = @ \ {q},
                                !.quanta["request"] = 0, !.phase = "run"])
      BY <1>4, <1>6, <3>1 DEF RemoveOverOrd
    <3>3. Popped(used, q, used.adds)
            = [used EXCEPT !.wqs["request"] = Tail(@), !.active["request"] = @ \ {q},
                           !.quanta["request"] = 0, !.phase = "run"]
      BY <1>3, <3>1 DEF Popped, SchedulerStates
    <3> QED
      BY <3>2, <3>3
  <2>4. Sched(s) /\ s.phase = "run" /\ Others(used, s, q)
    BY <1>3, <1>5, <2>2, <2>3, FrontEndsTurn
  <2>5. Taken(r, s, q, t) /\ SendTyped(s)
    BY <1>3, <2>4, TakenThenFramed DEF Others
  <2> QED
    BY <1>1, <1>2, <1>3, <2>4, <2>5 DEF Others, Covered
<1>7. CASE ~OverOrd(used, q) /\ used.quanta[t] > 0 /\ HasCredits(used, q, t)
  <2>1. s = [used EXCEPT !.phase = "run"]
    BY <1>4, <1>7
  <2>2. /\ s \in SchedulerStates /\ s.phase = "run" /\ Frame(used, s) /\ s.adds = used.adds
        /\ s.wqs = used.wqs /\ s.active = used.active
    BY <1>3, <2>1 DEF SchedulerStates, Frame
  <2>3. ASSUME NEW u \in WorkTypes PROVE Listed(s, u)
    <3>1. \A p \in used.active[u] : HasCredits(used, p, u)
      BY <1>3, <1>5, <1>7 DEF Turn
    <3>2. \A p \in used.active[u] : HasCredits(s, p, u)
      BY <2>2, <3>1 DEF HasCredits, Frame
    <3> QED
      BY <1>5, <2>2, <3>2 DEF Turn, Listed
  <2>4. Sched(s)
    BY <2>2, <2>3 DEF Sched, TurnComes
  <2> QED
    BY <1>1, <1>2, <1>3, <2>2, <2>4, TakenThenFramed DEF Covered
<1>8. CASE ~OverOrd(used, q) /\ ~(used.quanta[t] > 0 /\ HasCredits(used, q, t))
  <2> DEFINE adds == IF HasCredits(used, q, t) THEN used.adds \cup {<<q, "current">>} ELSE used.adds
  <2>1. adds \in SUBSET (Qps \X (WorkTypes \cup {"current"})) /\ used.adds \subseteq adds
    <3>1. used.adds \in SUBSET (Qps \X (WorkTypes \cup {"current"}))
      BY <1>3 DEF SchedulerStates
    <3> QED
      BY <1>2, <3>1
  <2>2. s = UpdateWorkType(Popped(used, q, adds))
    BY <1>3, <1>4, <1>8 DEF EndTurn, Popped
  <2> HIDE DEF adds
  <2>3. Sched(s) /\ s.phase = "run" /\ Others(used, s, q)
    BY <1>3, <1>5, <2>1, <2>2, FrontEndsTurn
  <2>4. Taken(r, s, q, t) /\ SendTyped(s)
    BY <1>3, <2>3, TakenThenFramed DEF Others
  <2> QED
    BY <1>1, <1>2, <1>3, <2>3, <2>4 DEF Others, Covered
<1> QED
  BY <1>6, <1>7, <1>8
-----------------------------------------------------------------------------
(* The transactions that hold credits. *)

FalconStates == [Stages -> [Transactions -> Nat]]

One(x, S) == IF x \in S THEN 1 ELSE 0

\* Held(S) as a function of the pipeline p and Falcon's stages f.
HeldIn(p, f, S) ==
  Cardinality(Places(p, S)) + Cardinality(Tokens(f["network"], S))
    + Cardinality(Tokens(f["acked"], S))

LEMMA HeldCounts ==
  ASSUME NEW p \in Seq(Transactions), NEW f \in FalconStates, NEW S \in SUBSET Transactions
  PROVE  /\ HeldIn(p, f, S) \in Nat
         /\ Cardinality(Places(p, S)) \in Nat
         /\ Cardinality(Tokens(f["network"], S)) \in Nat
         /\ HeldIn(p, f, S) >= Cardinality(Places(p, S)) + Cardinality(Tokens(f["network"], S))
<1>1. f["network"] \in [Transactions -> Nat] /\ f["acked"] \in [Transactions -> Nat]
  BY DEF FalconStates, Stages
<1>2. Cardinality(Tokens(f["network"], S)) \in Nat /\ Cardinality(Tokens(f["acked"], S)) \in Nat
  BY <1>1, TokensFinite
<1>3. Cardinality(Places(p, S)) \in Nat
  BY PlacesFinite
<1> QED
  BY <1>2, <1>3 DEF HeldIn

\* A transaction y enters the stage z, or leaves it.
Entered(f, z, y) == [f EXCEPT ![z][y] = @ + 1]
Left(f, z, y) == [f EXCEPT ![z][y] = @ - 1]

LEMMA StageEntered ==
  ASSUME NEW f \in FalconStates, NEW z \in Stages, NEW y \in Transactions,
         NEW g, g = Entered(f, z, y)
  PROVE  /\ g \in FalconStates
         /\ \A S \in SUBSET Transactions :
              Cardinality(Tokens(g[z], S)) = Cardinality(Tokens(f[z], S)) + One(y, S)
         /\ \A w \in Stages \ {z} : g[w] = f[w]
<1>1. /\ f[z] \in [Transactions -> Nat] /\ g[z] = [f[z] EXCEPT ![y] = @ + 1]
      /\ \A w \in Stages \ {z} : g[w] = f[w]
  BY DEF FalconStates, Entered
<1>2. /\ g[z] \in [Transactions -> Nat] /\ g[z][y] = f[z][y] + 1
      /\ \A x \in Transactions \ {y} : g[z][x] = f[z][x]
  BY <1>1
<1>3. g \in FalconStates
  BY <1>2 DEF FalconStates, Entered
<1>4. ASSUME NEW S \in SUBSET Transactions
      PROVE  Cardinality(Tokens(g[z], S)) = Cardinality(Tokens(f[z], S)) + (IF y \in S THEN 1 ELSE 0)
  <2> DEFINE a == f[z]
             b == g[z]
  <2>1. a \in [Transactions -> Nat] /\ b \in [Transactions -> Nat] /\ b[y] = a[y] + 1
        /\ \A x \in Transactions \ {y} : b[x] = a[x]
    BY <1>1, <1>2
  <2> HIDE DEF a, b
  <2>2. Cardinality(Tokens(b, S)) = Cardinality(Tokens(a, S)) + (IF y \in S THEN 1 ELSE 0)
    BY <2>1, OneMore
  <2> QED
    BY <2>2 DEF a, b
<1> QED
  BY <1>1, <1>3, <1>4 DEF One

LEMMA StageLeft ==
  ASSUME NEW f \in FalconStates, NEW z \in Stages, NEW y \in Transactions, f[z][y] > 0,
         NEW g, g = Left(f, z, y)
  PROVE  /\ g \in FalconStates
         /\ \A S \in SUBSET Transactions :
              Cardinality(Tokens(f[z], S)) = Cardinality(Tokens(g[z], S)) + One(y, S)
         /\ \A w \in Stages \ {z} : g[w] = f[w]
<1>1. /\ f[z] \in [Transactions -> Nat] /\ g[z] = [f[z] EXCEPT ![y] = @ - 1]
      /\ \A w \in Stages \ {z} : g[w] = f[w]
  BY DEF FalconStates, Left
<1>2. /\ g[z] \in [Transactions -> Nat] /\ f[z][y] = g[z][y] + 1
      /\ \A x \in Transactions \ {y} : f[z][x] = g[z][x]
  BY <1>1
<1>3. g \in FalconStates
  BY <1>2 DEF FalconStates, Left
<1>4. ASSUME NEW S \in SUBSET Transactions
      PROVE  Cardinality(Tokens(f[z], S)) = Cardinality(Tokens(g[z], S)) + (IF y \in S THEN 1 ELSE 0)
  <2> DEFINE a == f[z]
             b == g[z]
  <2>1. a \in [Transactions -> Nat] /\ b \in [Transactions -> Nat] /\ a[y] = b[y] + 1
        /\ \A x \in Transactions \ {y} : a[x] = b[x]
    BY <1>1, <1>2
  <2> HIDE DEF a, b
  <2>2. Cardinality(Tokens(a, S)) = Cardinality(Tokens(b, S)) + (IF y \in S THEN 1 ELSE 0)
    BY <2>1, OneMore
  <2> QED
    BY <2>2 DEF a, b
<1> QED
  BY <1>1, <1>3, <1>4 DEF One

LEMMA KindsOfTransactions ==
  /\ \A t \in WorkTypes : OfType(t) \in SUBSET Transactions
  /\ \A q \in Qps, t \in WorkTypes : OfQp(q, t) \in SUBSET Transactions
  /\ \A x \in Transactions :
       /\ TypeOf(x) \in WorkTypes /\ x[1] \in Qps
       /\ \A t \in WorkTypes : One(x, OfType(t)) = IF t = TypeOf(x) THEN 1 ELSE 0
       /\ \A q \in Qps, t \in WorkTypes :
            One(x, OfQp(q, t)) = IF q = x[1] /\ t = TypeOf(x) THEN 1 ELSE 0
<1>1. \A x \in Transactions : x[1] \in Qps
  BY DEF Transactions, OpIds
<1> QED
  BY <1>1 DEF OfType, OfQp, One, TypeOf, WorkTypes, Kinds
-----------------------------------------------------------------------------
(* The pools of Falcon, transactions of one credit each. *)

LEMMA MinOfTwo ==
  ASSUME NEW a \in Int, NEW b \in Int
  PROVE  Min({a, b}) = IF a <= b THEN a ELSE b
<1>1. \E x \in {a, b} : \A y \in {a, b} : x <= y
  BY DEF Min
<1>2. Min({a, b}) \in {a, b} /\ \A y \in {a, b} : Min({a, b}) <= y
  BY <1>1 DEF Min
<1> QED
  BY <1>2

\* A pool of which i requests and j responses hold a credit each.
Balanced(c, max, maxData, i, j) ==
  /\ c.requests + c.data + i + j = max + maxData
  /\ c.requests + i >= max /\ c.data >= 0

LEMMA PoolTaken ==
  ASSUME NEW k \in Kinds, NEW c \in [requests : Int, data : Int],
         NEW max \in Nat, NEW maxData \in Nat, NEW i \in Nat, NEW j \in Nat,
         Balanced(c, max, maxData, i, j), k = "response" => j < maxData,
         NEW d, d = MinusAssign(k, 1, c)
  PROVE  /\ d \in [requests : Int, data : Int]
         /\ k = "request" => Balanced(d, max, maxData, i + 1, j)
         /\ k = "response" => Balanced(d, max, maxData, i, j + 1)
<1>1. c.requests \in Int /\ c.data \in Int
  OBVIOUS
<1>2. CASE k = "request"
  <2>1. d = [requests |-> c.requests - 1, data |-> c.data]
    BY <1>1, <1>2 DEF MinusAssign
  <2> QED
    BY <1>1, <1>2, <2>1 DEF Balanced
<1>3. CASE k = "response"
  <2>1. Min({c.data, 1}) = IF c.data <= 1 THEN c.data ELSE 1
    BY <1>1, MinOfTwo
  <2>2. CASE c.data = 0
    <3>1. d = [requests |-> c.requests - 1, data |-> 0]
      BY <1>1, <1>3, <2>1, <2>2 DEF MinusAssign
    <3> QED
      BY <1>1, <1>3, <2>2, <3>1 DEF Balanced
  <2>3. CASE c.data > 0
    <3>1. d = [requests |-> c.requests, data |-> c.data - 1]
      BY <1>1, <1>3, <2>1, <2>3 DEF MinusAssign
    <3> QED
      BY <1>1, <1>3, <2>3, <3>1 DEF Balanced
  <2> QED
    BY <1>1, <2>2, <2>3 DEF Balanced
<1> QED
  BY <1>2, <1>3 DEF Kinds

LEMMA PoolReturned ==
  ASSUME NEW k \in Kinds, NEW c \in [requests : Int, data : Int],
         NEW max \in Nat, NEW maxData \in Nat, NEW i \in Nat, NEW j \in Nat,
         Balanced(c, max, maxData, i, j),
         k = "request" => i > 0, k = "response" => j > 0,
         NEW d, d = PlusAssign(k, 1, max, c)
  PROVE  /\ d \in [requests : Int, data : Int]
         /\ k = "request" => Balanced(d, max, maxData, i - 1, j)
         /\ k = "response" => Balanced(d, max, maxData, i, j - 1)
<1>1. c.requests \in Int /\ c.data \in Int
  OBVIOUS
<1> DEFINE requests == IF k = "request" THEN c.requests + 1 ELSE c.requests
           data == IF k = "response" THEN 1 ELSE 0
           n == Min({data, max - requests})
<1>2. /\ k = "request" => requests = c.requests + 1 /\ data = 0
      /\ k = "response" => requests = c.requests /\ data = 1
      /\ requests \in Int /\ data \in Int
  BY <1>1
<1>3. d = IF c.data = 0 THEN [requests |-> requests + n, data |-> data - n]
          ELSE [requests |-> requests, data |-> c.data + data]
  BY DEF PlusAssign
<1> HIDE DEF requests, data
<1>4. n = IF data <= max - requests THEN data ELSE max - requests
  BY <1>2, MinOfTwo
<1> HIDE DEF n
<1>5. CASE c.data = 0
  <2>1. d = [requests |-> requests + n, data |-> data - n]
    BY <1>3, <1>5
  <2>2. n \in Int /\ n <= data /\ (n = data \/ requests + n = max)
    BY <1>2, <1>4
  <2>3. CASE k = "request"
    BY <1>1, <1>2, <1>5, <2>1, <2>2, <2>3 DEF Balanced
  <2>4. CASE k = "response"
    BY <1>1, <1>2, <1>5, <2>1, <2>2, <2>4 DEF Balanced
  <2> QED
    BY <2>3, <2>4 DEF Kinds
<1>6. CASE c.data # 0
  <2>1. d = [requests |-> requests, data |-> c.data + data]
    BY <1>3, <1>6
  <2> QED
    BY <1>1, <1>2, <1>6, <2>1 DEF Balanced, Kinds
<1> QED
  BY <1>5, <1>6

PoolsBalanced(c, o) ==
  \A p \in UlpPools : Balanced(c[p], MaxUlpRequests[p], MaxUlpData[p],
                              o["request"][1], o["response"][1])

LEMMA PoolTypes ==
  /\ Sizes = {1}
  /\ \A p \in UlpPools : /\ MaxUlpRequests[p] \in Nat /\ MaxUlpData[p] \in Nat
                          /\ UlpNeed(1)[p] = 1
  /\ \A t \in WorkTypes : QpCredits[t] \in Nat \ {0} /\ RdmaCredits[t] \in Nat \ {0}
  /\ \A p \in UlpPools : /\ RdmaCredits["request"] <= MaxUlpRequests[p]
                          /\ RdmaCredits["response"] <= MaxUlpData[p]
<1>1. Sizes = {1}
  BY CreditAssumption
<1>2. \A p \in UlpPools : MaxUlpRequests[p] \in Nat /\ MaxUlpData[p] \in Nat
  BY UlpPoolAssumption
<1>3. \A p \in UlpPools : UlpNeed(1)[p] = 1
  BY DEF UlpNeed, UlpPools
<1>4. \A t \in WorkTypes : QpCredits[t] \in Nat \ {0} /\ RdmaCredits[t] \in Nat \ {0}
  BY CreditAssumption
<1>5. \A p \in UlpPools : /\ RdmaCredits.request <= MaxUlpRequests[p]
                          /\ RdmaCredits.response <= MaxUlpData[p]
  BY CreditAssumption
<1> QED
  BY <1>1, <1>2, <1>3, <1>4, <1>5

LEMMA PoolsReserved ==
  ASSUME UlpTypeOK, PoolsBalanced(ulpCredits, ulpTransactions), NEW k \in Kinds,
         k = "response" => ulpTransactions["response"][1] < RdmaCredits["response"],
         ReserveUlpResources(k, 1)
  PROVE  /\ UlpTypeOK' /\ PoolsBalanced(ulpCredits', ulpTransactions')
         /\ ulpTransactions'[k][1] = ulpTransactions[k][1] + 1
         /\ \A t \in Kinds \ {k} : ulpTransactions'[t] = ulpTransactions[t]
<1>1. /\ ulpCredits \in [UlpPools -> [requests : Int, data : Int]]
      /\ ulpTransactions \in [Kinds -> [{1} -> Nat]]
  BY PoolTypes DEF UlpTypeOK
<1>2. /\ ulpTransactions' \in [Kinds -> [{1} -> Nat]]
      /\ ulpTransactions'[k][1] = ulpTransactions[k][1] + 1
      /\ \A t \in Kinds \ {k} : ulpTransactions'[t] = ulpTransactions[t]
  <2>1. ulpTransactions' = [ulpTransactions EXCEPT ![k][1] = @ + 1]
    BY DEF ReserveUlpResources
  <2> QED
    BY <1>1, <2>1
<1>3. ulpCredits' = [p \in UlpPools |-> MinusAssign(k, 1, ulpCredits[p])]
  BY PoolTypes DEF ReserveUlpResources
<1>4. /\ ulpTransactions["request"][1] \in Nat /\ ulpTransactions["response"][1] \in Nat
  BY <1>1 DEF Kinds
<1>5. ASSUME NEW p \in UlpPools
      PROVE  /\ ulpCredits'[p] \in [requests : Int, data : Int]
             /\ Balanced(ulpCredits'[p], MaxUlpRequests[p], MaxUlpData[p],
                         ulpTransactions'["request"][1], ulpTransactions'["response"][1])
  <2>1. ulpCredits'[p] = MinusAssign(k, 1, ulpCredits[p])
    BY <1>3
  <2>2. k = "response" => ulpTransactions["response"][1] < MaxUlpData[p]
    <3>1. RdmaCredits["response"] <= MaxUlpData[p] /\ RdmaCredits["response"] \in Nat
          /\ MaxUlpData[p] \in Nat
      BY PoolTypes, TwoTypes
    <3> QED
      BY <1>4, <3>1
  <2>3. Balanced(ulpCredits[p], MaxUlpRequests[p], MaxUlpData[p],
                 ulpTransactions["request"][1], ulpTransactions["response"][1])
    BY DEF PoolsBalanced
  <2>4. ulpCredits[p] \in [requests : Int, data : Int] /\ MaxUlpRequests[p] \in Nat
        /\ MaxUlpData[p] \in Nat
    BY <1>1, PoolTypes
  <2>5. /\ ulpCredits'[p] \in [requests : Int, data : Int]
        /\ k = "request" => Balanced(ulpCredits'[p], MaxUlpRequests[p], MaxUlpData[p],
                                     ulpTransactions["request"][1] + 1, ulpTransactions["response"][1])
        /\ k = "response" => Balanced(ulpCredits'[p], MaxUlpRequests[p], MaxUlpData[p],
                                     ulpTransactions["request"][1], ulpTransactions["response"][1] + 1)
    BY <1>4, <2>1, <2>2, <2>3, <2>4, PoolTaken
  <2>6. k = "request" \/ k = "response"
    BY DEF Kinds
  <2> QED
    BY <1>2, <2>5, <2>6 DEF Kinds
<1>6. ulpCredits' \in [UlpPools -> [requests : Int, data : Int]]
  <2>1. ulpCredits' = [p \in UlpPools |-> ulpCredits'[p]]
    BY <1>3
  <2> QED
    BY <1>5, <2>1
<1> QED
  BY <1>2, <1>5, <1>6, PoolTypes DEF UlpTypeOK, PoolsBalanced

LEMMA PoolsReleased ==
  ASSUME UlpTypeOK, PoolsBalanced(ulpCredits, ulpTransactions), NEW k \in Kinds,
         ReleaseUlpResources(k, 1)
  PROVE  /\ UlpTypeOK' /\ PoolsBalanced(ulpCredits', ulpTransactions')
         /\ ulpTransactions'[k][1] = ulpTransactions[k][1] - 1
         /\ \A t \in Kinds \ {k} : ulpTransactions'[t] = ulpTransactions[t]
<1>1. /\ ulpCredits \in [UlpPools -> [requests : Int, data : Int]]
      /\ ulpTransactions \in [Kinds -> [{1} -> Nat]] /\ ulpTransactions[k][1] > 0
  BY PoolTypes DEF UlpTypeOK, ReleaseUlpResources
<1>2. /\ ulpTransactions' \in [Kinds -> [{1} -> Nat]]
      /\ ulpTransactions'[k][1] = ulpTransactions[k][1] - 1
      /\ \A t \in Kinds \ {k} : ulpTransactions'[t] = ulpTransactions[t]
  <2>1. ulpTransactions' = [ulpTransactions EXCEPT ![k][1] = @ - 1]
    BY DEF ReleaseUlpResources
  <2> QED
    BY <1>1, <2>1
<1>3. ulpCredits' = [p \in UlpPools |-> PlusAssign(k, 1, MaxUlpRequests[p], ulpCredits[p])]
  BY PoolTypes DEF ReleaseUlpResources
<1>4. /\ ulpTransactions["request"][1] \in Nat /\ ulpTransactions["response"][1] \in Nat
  BY <1>1 DEF Kinds
<1>5. ASSUME NEW p \in UlpPools
      PROVE  /\ ulpCredits'[p] \in [requests : Int, data : Int]
             /\ Balanced(ulpCredits'[p], MaxUlpRequests[p], MaxUlpData[p],
                         ulpTransactions'["request"][1], ulpTransactions'["response"][1])
  <2>1. ulpCredits'[p] = PlusAssign(k, 1, MaxUlpRequests[p], ulpCredits[p])
    BY <1>3
  <2>2. Balanced(ulpCredits[p], MaxUlpRequests[p], MaxUlpData[p],
                 ulpTransactions["request"][1], ulpTransactions["response"][1])
    BY DEF PoolsBalanced
  <2>3. ulpCredits[p] \in [requests : Int, data : Int] /\ MaxUlpRequests[p] \in Nat
        /\ MaxUlpData[p] \in Nat
    BY <1>1, PoolTypes
  <2>4. /\ ulpCredits'[p] \in [requests : Int, data : Int]
        /\ k = "request" => Balanced(ulpCredits'[p], MaxUlpRequests[p], MaxUlpData[p],
                                     ulpTransactions["request"][1] - 1, ulpTransactions["response"][1])
        /\ k = "response" => Balanced(ulpCredits'[p], MaxUlpRequests[p], MaxUlpData[p],
                                     ulpTransactions["request"][1], ulpTransactions["response"][1] - 1)
    <3>1. /\ k = "request" => ulpTransactions["request"][1] > 0
          /\ k = "response" => ulpTransactions["response"][1] > 0
      BY <1>1
    <3> QED
      BY <1>4, <2>1, <2>2, <2>3, <3>1, PoolReturned
  <2>5. k = "request" \/ k = "response"
    BY DEF Kinds
  <2> QED
    BY <1>2, <2>4, <2>5 DEF Kinds
<1>6. ulpCredits' \in [UlpPools -> [requests : Int, data : Int]]
  <2>1. ulpCredits' = [p \in UlpPools |-> ulpCredits'[p]]
    BY <1>3
  <2> QED
    BY <1>5, <2>1
<1> QED
  BY <1>2, <1>5, <1>6, PoolTypes DEF UlpTypeOK, PoolsBalanced
-----------------------------------------------------------------------------
(* The credits of RDMA. *)

Accounted(r, p, f) ==
  /\ \A t \in WorkTypes : /\ r.credits[t] + HeldIn(p, f, OfType(t)) = RdmaCredits[t]
                           /\ r.credits[t] >= 0
  /\ \A q \in Qps, t \in WorkTypes : r.usage[q][t] = HeldIn(p, f, OfQp(q, t))

\* Transactions hold n credits more, or fewer: those of y.
HeldGrows(p, f, p2, f2, y) ==
  \A S \in SUBSET Transactions : HeldIn(p2, f2, S) = HeldIn(p, f, S) + One(y, S)

LEMMA CreditTaken ==
  ASSUME NEW r, r \in SchedulerStates, NEW p \in Seq(Transactions), NEW f \in FalconStates,
         Accounted(r, p, f), NEW y \in Transactions, r.credits[TypeOf(y)] > 0,
         NEW p2, NEW f2, HeldGrows(p, f, p2, f2, y), NEW s, Taken(r, s, y[1], TypeOf(y))
  PROVE  Accounted(s, p2, f2)
<1> DEFINE t == TypeOf(y)
           q == y[1]
<1>1. t \in WorkTypes /\ q \in Qps
  BY KindsOfTransactions
<1>2. r.credits \in [WorkTypes -> Int] /\ r.usage \in [Qps -> [WorkTypes -> Int]]
  BY DEF SchedulerStates
<1>3. s.usage = [r.usage EXCEPT ![q][t] = @ + 1] /\ s.credits = [r.credits EXCEPT ![t] = @ - 1]
      /\ r.credits[t] > 0
  BY DEF Taken
<1> HIDE DEF t, q
<1>4. ASSUME NEW u \in WorkTypes
      PROVE  s.credits[u] + HeldIn(p2, f2, OfType(u)) = RdmaCredits[u] /\ s.credits[u] >= 0
  <2>1. /\ r.credits[u] + HeldIn(p, f, OfType(u)) = RdmaCredits[u] /\ r.credits[u] >= 0
        /\ r.credits[u] \in Int
    BY <1>2 DEF Accounted
  <2>2. /\ HeldIn(p2, f2, OfType(u)) = HeldIn(p, f, OfType(u)) + One(y, OfType(u))
        /\ HeldIn(p, f, OfType(u)) \in Nat
    BY KindsOfTransactions, HeldCounts DEF HeldGrows
  <2>3. One(y, OfType(u)) = IF u = t THEN 1 ELSE 0
    BY KindsOfTransactions DEF t
  <2>4. s.credits[u] = IF u = t THEN r.credits[u] - 1 ELSE r.credits[u]
    BY <1>1, <1>2, <1>3
  <2> QED
    BY <1>3, <2>1, <2>2, <2>3, <2>4
<1>5. ASSUME NEW w \in Qps, NEW u \in WorkTypes
      PROVE  s.usage[w][u] = HeldIn(p2, f2, OfQp(w, u))
  <2>1. r.usage[w][u] = HeldIn(p, f, OfQp(w, u)) /\ r.usage[w][u] \in Int
    BY <1>2 DEF Accounted
  <2>2. /\ HeldIn(p2, f2, OfQp(w, u)) = HeldIn(p, f, OfQp(w, u)) + One(y, OfQp(w, u))
        /\ HeldIn(p, f, OfQp(w, u)) \in Nat
    BY KindsOfTransactions, HeldCounts DEF HeldGrows
  <2>3. One(y, OfQp(w, u)) = IF w = q /\ u = t THEN 1 ELSE 0
    BY KindsOfTransactions DEF t, q
  <2>4. s.usage[w][u] = IF w = q /\ u = t THEN r.usage[w][u] + 1 ELSE r.usage[w][u]
    <3>1. s.usage[w] = IF w = q THEN [r.usage[q] EXCEPT ![t] = @ + 1] ELSE r.usage[w]
      BY <1>1, <1>2, <1>3
    <3>2. r.usage[q] \in [WorkTypes -> Int] /\ r.usage[w] \in [WorkTypes -> Int]
      BY <1>1, <1>2
    <3> HIDE DEF q, t
    <3> QED
      BY <1>1, <3>1, <3>2
  <2> QED
    BY <2>1, <2>2, <2>3, <2>4
<1> QED
  BY <1>4, <1>5 DEF Accounted

\* A credit of q returns.
Returned(r, s, q, t) ==
  /\ s.usage = [r.usage EXCEPT ![q][t] = @ - 1]
  /\ s.credits = [r.credits EXCEPT ![t] = @ + 1]

LEMMA CreditBack ==
  ASSUME NEW r, r \in SchedulerStates, NEW p, NEW f,
         Accounted(r, p, f), NEW y \in Transactions,
         NEW p2 \in Seq(Transactions), NEW f2 \in FalconStates, HeldGrows(p2, f2, p, f, y), NEW s,
         Returned(r, s, y[1], TypeOf(y))
  PROVE  Accounted(s, p2, f2)
<1> DEFINE t == TypeOf(y)
           q == y[1]
<1>1. t \in WorkTypes /\ q \in Qps
  BY KindsOfTransactions
<1>2. r.credits \in [WorkTypes -> Int] /\ r.usage \in [Qps -> [WorkTypes -> Int]]
  BY DEF SchedulerStates
<1>3. s.usage = [r.usage EXCEPT ![q][t] = @ - 1] /\ s.credits = [r.credits EXCEPT ![t] = @ + 1]
  BY DEF Returned
<1> HIDE DEF t, q
<1>4. ASSUME NEW u \in WorkTypes
      PROVE  s.credits[u] + HeldIn(p2, f2, OfType(u)) = RdmaCredits[u] /\ s.credits[u] >= 0
  <2>1. /\ r.credits[u] + HeldIn(p, f, OfType(u)) = RdmaCredits[u] /\ r.credits[u] >= 0
        /\ r.credits[u] \in Int
    BY <1>2 DEF Accounted
  <2>2. /\ HeldIn(p, f, OfType(u)) = HeldIn(p2, f2, OfType(u)) + One(y, OfType(u))
        /\ HeldIn(p2, f2, OfType(u)) \in Nat
    BY KindsOfTransactions, HeldCounts DEF HeldGrows
  <2>3. One(y, OfType(u)) = IF u = t THEN 1 ELSE 0
    BY KindsOfTransactions DEF t
  <2>4. s.credits[u] = IF u = t THEN r.credits[u] + 1 ELSE r.credits[u]
    BY <1>1, <1>2, <1>3
  <2> QED
    <3>1. RdmaCredits[u] \in Int
      BY PoolTypes
    <3>2. CASE u = t
      BY <2>1, <2>2, <2>3, <2>4, <3>1, <3>2
    <3>3. CASE u # t
      BY <2>1, <2>2, <2>3, <2>4, <3>1, <3>3
    <3> QED
      BY <3>2, <3>3
<1>5. ASSUME NEW w \in Qps, NEW u \in WorkTypes
      PROVE  s.usage[w][u] = HeldIn(p2, f2, OfQp(w, u))
  <2>1. r.usage[w][u] = HeldIn(p, f, OfQp(w, u)) /\ r.usage[w][u] \in Int
    BY <1>2 DEF Accounted
  <2>2. /\ HeldIn(p, f, OfQp(w, u)) = HeldIn(p2, f2, OfQp(w, u)) + One(y, OfQp(w, u))
        /\ HeldIn(p2, f2, OfQp(w, u)) \in Nat
    BY KindsOfTransactions, HeldCounts DEF HeldGrows
  <2>3. One(y, OfQp(w, u)) = IF w = q /\ u = t THEN 1 ELSE 0
    BY KindsOfTransactions DEF t, q
  <2>4. s.usage[w][u] = IF w = q /\ u = t THEN r.usage[w][u] - 1 ELSE r.usage[w][u]
    BY <1>1, <1>2, <1>3
  <2> QED
    BY <2>1, <2>2, <2>3, <2>4
<1> QED
  BY <1>4, <1>5 DEF Accounted

LEMMA CreditKept ==
  ASSUME NEW r, NEW p, NEW f, Accounted(r, p, f), NEW p2, NEW f2, NEW s,
         \A S \in SUBSET Transactions : HeldIn(p2, f2, S) = HeldIn(p, f, S),
         s.usage = r.usage, s.credits = r.credits
  PROVE  Accounted(s, p2, f2)
BY KindsOfTransactions DEF Accounted
-----------------------------------------------------------------------------
(* The inductive invariant in parts, each a function of the state. *)

NoneStranded(r) ==
  \A q \in Qps, t \in WorkTypes :
    HasCredits(r, q, t) => Covered(r, q, t) \/ \E u \in WorkTypes : r.usage[q][u] > 0
SchedulerPart(r) == Sched(r) /\ Awake(r) /\ NoneStranded(r) /\ SendTyped(r)
UlpPart(r, po, ar) ==
  /\ po \in [Qps -> Nat] /\ ar \in [Qps -> Nat]
  /\ \A q \in Qps : po[q] <= Len(Ops[q]) /\ ar[q] <= Inbound[q] /\ r.inbound[q] <= ar[q]
FalconPart(p, f, n) ==
  /\ p \in Seq(Transactions) /\ f \in FalconStates /\ n \in [Transactions -> Nat]
  /\ \A x \in Transactions : f["acked"][x] > 0 => IsRead(x)
Reserved(f, o) ==
  \A t \in WorkTypes : o[t][1] = Cardinality(Tokens(f["network"], OfType(t)))

LEMMA IInvParts ==
  ASSUME WorkIInv
  PROVE  /\ SchedulerPart(rdma) /\ UlpPart(rdma, posted, arrived)
         /\ FalconPart(pipeline, falcon, finished) /\ UlpTypeOK
         /\ Accounted(rdma, pipeline, falcon) /\ Reserved(falcon, ulpTransactions)
         /\ PoolsBalanced(ulpCredits, ulpTransactions)
<1>1. Sched(rdma) /\ Awake(rdma) /\ SendTyped(rdma)
  BY DEF WorkIInv, WorkTypeOK, Sched, SendTyped
<1>2. NoneStranded(rdma)
  BY DEF WorkIInv, NoStrandedWork, NoneStranded, Covered
<1>3. UlpPart(rdma, posted, arrived) /\ UlpTypeOK
  BY DEF WorkIInv, WorkTypeOK, UlpPart
<1>4. FalconPart(pipeline, falcon, finished)
  BY DEF WorkIInv, WorkTypeOK, FalconPart, FalconStates
<1>5. Accounted(rdma, pipeline, falcon) /\ Reserved(falcon, ulpTransactions)
  BY DEF WorkIInv, CreditsHeld, Accounted, Reserved, Held, HeldIn, At, InPipeline, Tokens, Places
<1>6. PoolsBalanced(ulpCredits, ulpTransactions)
  BY DEF WorkIInv, PoolsBalance, PoolsBalanced, Balanced
<1> QED
  BY <1>1, <1>2, <1>3, <1>4, <1>5, <1>6 DEF SchedulerPart

LEMMA IInvFromParts ==
  ASSUME SchedulerPart(rdma), UlpPart(rdma, posted, arrived),
         FalconPart(pipeline, falcon, finished), UlpTypeOK,
         Accounted(rdma, pipeline, falcon), Reserved(falcon, ulpTransactions),
         PoolsBalanced(ulpCredits, ulpTransactions)
  PROVE  WorkIInv
<1>1. WorkTypeOK
  BY DEF SchedulerPart, Sched, SendTyped, UlpPart, FalconPart, FalconStates, WorkTypeOK
<1>2. (\A t \in WorkTypes : Listed(rdma, t)) /\ TurnComes(rdma) /\ Awake(rdma)
  BY DEF SchedulerPart, Sched
<1>3. NoStrandedWork
  BY DEF SchedulerPart, NoneStranded, NoStrandedWork, Awake, Covered
<1>4. CreditsHeld
  BY DEF CreditsHeld, Accounted, Reserved, Held, HeldIn, At, InPipeline, Tokens, Places
<1>5. PoolsBalance
  BY DEF PoolsBalance, PoolsBalanced, Balanced
<1> QED
  BY <1>1, <1>2, <1>3, <1>4, <1>5 DEF WorkIInv

LEMMA IInvFromPartsNext ==
  ASSUME SchedulerPart(rdma'), UlpPart(rdma', posted', arrived'),
         FalconPart(pipeline', falcon', finished'), UlpTypeOK',
         Accounted(rdma', pipeline', falcon'), Reserved(falcon', ulpTransactions'),
         PoolsBalanced(ulpCredits', ulpTransactions')
  PROVE  WorkIInv'
<1>1. WorkTypeOK'
  BY DEF SchedulerPart, Sched, SendTyped, UlpPart, FalconPart, FalconStates, WorkTypeOK
<1>2. /\ \A t \in WorkTypes : Listed(rdma', t)
      /\ TurnComes(rdma') /\ Awake(rdma')
  BY DEF SchedulerPart, Sched
<1>3. NoStrandedWork'
  BY DEF SchedulerPart, NoneStranded, NoStrandedWork, Awake, Covered
<1>4. CreditsHeld'
  BY DEF CreditsHeld, Accounted, Reserved, Held, HeldIn, At, InPipeline, Tokens, Places
<1>5. PoolsBalance'
  BY DEF PoolsBalance, PoolsBalanced, Balanced
<1> QED
  BY <1>1, <1>2, <1>3, <1>4, <1>5 DEF WorkIInv
-----------------------------------------------------------------------------
(* The scheduler's part, function by function. *)

LEMMA KeptPart ==
  ASSUME NEW r, SchedulerPart(r), NEW s, Sched(s), Awake(s), Keeps(r, s)
  PROVE  SchedulerPart(s)
<1>1. SendTyped(s)
  BY DEF SchedulerPart, SendTyped, Keeps, Frame
<1>2. NoneStranded(s)
  <2>1. \A q \in Qps, t \in WorkTypes : HasCredits(s, q, t) <=> HasCredits(r, q, t)
    BY DEF HasCredits, Keeps, Frame
  <2>2. s.usage = r.usage
    BY DEF Keeps, Frame
  <2> QED
    BY <2>1, <2>2 DEF SchedulerPart, NoneStranded, Keeps
<1> QED
  BY <1>1, <1>2 DEF SchedulerPart

\* Work of type t was added to q: q is looked at again.
LEMMA LookedAtPart ==
  ASSUME NEW r, Sched(r), Awake(r), SendTyped(r), NEW q \in Qps, NEW t \in WorkTypes,
         \A p \in Qps, u \in WorkTypes :
           (p = q /\ u = t) \/ (HasCredits(r, p, u) =>
                               Covered(r, p, u) \/ \E v \in WorkTypes : r.usage[p][v] > 0),
         NEW now \in BOOLEAN, NEW s, s = AddQpToScheduleSet(r, q, t, now)
  PROVE  SchedulerPart(s) /\ Keeps(r, s)
<1>1. /\ Sched(s) /\ Awake(s) /\ Keeps(r, s)
      /\ HasCredits(r, q, t) => Covered(s, q, t)
  BY AddQpToScheduleSetKeeps
<1>2. SendTyped(s)
  BY <1>1 DEF SendTyped, Keeps, Frame
<1>3. NoneStranded(s)
  <2>1. \A p \in Qps, u \in WorkTypes : HasCredits(s, p, u) <=> HasCredits(r, p, u)
    BY <1>1 DEF HasCredits, Keeps, Frame
  <2>2. s.usage = r.usage
    BY <1>1 DEF Keeps, Frame
  <2> QED
    BY <1>1, <2>1, <2>2 DEF NoneStranded, Keeps
<1> QED
  BY <1>1, <1>2, <1>3 DEF SchedulerPart

LEMMA ReturnedPart ==
  ASSUME NEW r, SchedulerPart(r), NEW q \in Qps, NEW t \in WorkTypes,
         NEW now \in BOOLEAN, NEW s, s = ReturnFalconCredit(r, q, t, now)
  PROVE  SchedulerPart(s) /\ s.inbound = r.inbound /\ Returned(r, s, q, t)
<1>1. /\ Sched(s) /\ Awake(s)
      /\ s.usage = [r.usage EXCEPT ![q][t] = @ - 1]
      /\ s.credits = [r.credits EXCEPT ![t] = @ + 1]
      /\ s.send = r.send /\ s.inbound = r.inbound
      /\ \A p \in Qps, u \in WorkTypes : Covered(r, p, u) => Covered(s, p, u)
      /\ \A u \in WorkTypes : HasCredits(s, q, u) => Covered(s, q, u)
  <2>1. Sched(r) /\ Awake(r)
    BY DEF SchedulerPart
  <2> QED
    BY SMTT(30), <2>1, ReturnFalconCreditKeeps
<1>2. SendTyped(s)
  BY <1>1 DEF SchedulerPart, SendTyped
<1>3. NoneStranded(s)
  <2>1. ASSUME NEW p \in Qps, p # q, NEW u \in WorkTypes, HasCredits(s, p, u)
        PROVE  Covered(s, p, u) \/ \E v \in WorkTypes : s.usage[p][v] > 0
    <3>1. r.usage \in [Qps -> [WorkTypes -> Int]]
      BY DEF SchedulerPart, Sched, SchedulerStates
    <3>2. s.usage[p] = r.usage[p]
      BY <1>1, <2>1, <3>1
    <3>3. HasCredits(r, p, u)
      BY <1>1, <2>1, <3>2 DEF HasCredits
    <3>4. Covered(r, p, u) \/ \E v \in WorkTypes : r.usage[p][v] > 0
      BY <3>3 DEF SchedulerPart, NoneStranded
    <3> QED
      BY <1>1, <3>2, <3>4
  <2> QED
    BY <1>1, <2>1 DEF NoneStranded
<1> QED
  BY <1>1, <1>2, <1>3 DEF SchedulerPart, Returned

LEMMA XoffPart ==
  ASSUME NEW r, SchedulerPart(r), NEW c, NEW now \in BOOLEAN,
         NEW s, s = SetXoff(r, UlpXoff(c), now)
  PROVE  SchedulerPart(s) /\ Keeps(r, s)
<1>1. UlpXoff(c) \in [WorkTypes -> BOOLEAN]
  BY DEF UlpXoff
<1>2. Sched(s) /\ Awake(s) /\ Keeps(r, s)
  BY <1>1, SetXoffKeeps DEF SchedulerPart
<1> QED
  BY <1>2, KeptPart

LEMMA UsageGrows ==
  ASSUME NEW f \in [Qps -> [WorkTypes -> Int]], NEW q \in Qps, NEW t \in WorkTypes,
         f[q][t] >= 0
  PROVE  [f EXCEPT ![q][t] = @ + 1][q][t] > 0
<1>1. f[q] \in [WorkTypes -> Int] /\ f[q][t] \in Int
  OBVIOUS
<1>2. [f EXCEPT ![q][t] = @ + 1][q] = [f[q] EXCEPT ![t] = @ + 1]
  OBVIOUS
<1>3. [f EXCEPT ![q][t] = @ + 1][q][t] = f[q][t] + 1
  BY <1>1, <1>2
<1> QED
  BY <1>1, <1>3

LEMMA SentPart ==
  ASSUME NEW r, SchedulerPart(r), r.phase = "lookup",
         \A p \in Qps, u \in WorkTypes : r.usage[p][u] >= 0,
         NEW t, t = r.current, NEW q, q = Head(r.wqs[t]), NEW bytesLeft \in BOOLEAN,
         ~(t = "response" /\ OverOrd(r, q)),
         NEW s, s = Sent(r, q, bytesLeft)
  PROVE  /\ t \in WorkTypes /\ q \in Qps /\ HasCredits(r, q, t) /\ r.credits[t] > 0
         /\ SchedulerPart(s) /\ Taken(r, s, q, t)
<1>1. /\ t \in WorkTypes /\ q \in Qps /\ HasCredits(r, q, t) /\ r.credits[t] > 0
      /\ Sched(s) /\ SendTyped(s) /\ s.phase = "run" /\ Taken(r, s, q, t)
      /\ \A p \in Qps, u \in WorkTypes : p # q /\ Covered(r, p, u) => Covered(s, p, u)
  BY SentKeeps DEF SchedulerPart
<1>2. Awake(s)
  BY <1>1 DEF Awake
<1>3. r.usage \in [Qps -> [WorkTypes -> Int]]
  BY DEF SchedulerPart, Sched, SchedulerStates
<1>4. s.usage = [r.usage EXCEPT ![q][t] = @ + 1]
  BY <1>1 DEF Taken
<1>5. NoneStranded(s)
  <2>1. s.usage[q][t] > 0
    <3>1. r.usage[q][t] >= 0 /\ q \in Qps /\ t \in WorkTypes
      BY <1>1
    <3> QED
      BY <1>3, <1>4, <3>1, UsageGrows
  <2>2. ASSUME NEW p \in Qps, p # q, NEW u \in WorkTypes, HasCredits(s, p, u)
        PROVE  Covered(s, p, u) \/ \E v \in WorkTypes : s.usage[p][v] > 0
    <3>1. s.usage[p] = r.usage[p]
      BY <1>1, <1>3, <1>4, <2>2
    <3>2. s.send[p] = r.send[p] /\ s.inbound[p] = r.inbound[p]
      BY <1>1, <2>2 DEF Taken
    <3>3. HasCredits(r, p, u)
      BY <2>2, <3>1, <3>2 DEF HasCredits
    <3>4. Covered(r, p, u) \/ \E v \in WorkTypes : r.usage[p][v] > 0
      BY <3>3 DEF SchedulerPart, NoneStranded
    <3> QED
      BY <1>1, <2>2, <3>1, <3>4
  <2> QED
    BY <1>1, <2>1, <2>2 DEF NoneStranded
<1> QED
  BY <1>1, <1>2, <1>5 DEF SchedulerPart

\* An op is queued, or a response: the queue pair has one more reason to be
\* looked at, and none has fewer.
Grown(r, a, q, t) ==
  /\ a.usage = r.usage /\ a.credits = r.credits /\ a.phase = r.phase /\ a.current = r.current
  /\ a.wqs = r.wqs /\ a.active = r.active /\ a.adds = r.adds /\ a.xoff = r.xoff
  /\ \A p \in Qps, u \in WorkTypes : HasCredits(r, p, u) => HasCredits(a, p, u)
  /\ \A p \in Qps, u \in WorkTypes :
       (p = q /\ u = t) \/ (HasCredits(a, p, u) => HasCredits(r, p, u))

LEMMA GrownPart ==
  ASSUME NEW r, SchedulerPart(r), NEW q \in Qps, NEW t \in WorkTypes, NEW a,
         a \in SchedulerStates, SendTyped(a), Grown(r, a, q, t), NEW now \in BOOLEAN,
         NEW c \in BOOLEAN, c \/ (HasCredits(a, q, t) => HasCredits(r, q, t)),
         NEW s, s = IF c THEN AddQpToScheduleSet(a, q, t, now) ELSE a
  PROVE  SchedulerPart(s) /\ Keeps(a, s)
<1>1. Sched(a)
  <2>1. \A u \in WorkTypes : r.active[u] \subseteq Qps
    BY DEF SchedulerPart, Sched, SchedulerStates
  <2>2. \A u \in WorkTypes : Listed(a, u)
    BY <2>1 DEF SchedulerPart, Sched, Listed, Grown
  <2>3. TurnComes(a)
    BY DEF SchedulerPart, Sched, TurnComes, Grown
  <2> QED
    BY <2>2, <2>3 DEF Sched
<1>2. Awake(a)
  BY DEF SchedulerPart, Awake, CanSend, Grown
<1>3. \A p \in Qps, u \in WorkTypes : Covered(r, p, u) <=> Covered(a, p, u)
  BY DEF Covered, Grown
<1>4. a.usage = r.usage
  BY DEF Grown
<1>5. \A p \in Qps, u \in WorkTypes :
        (p = q /\ u = t) \/ (HasCredits(a, p, u) =>
                            Covered(a, p, u) \/ \E v \in WorkTypes : a.usage[p][v] > 0)
  BY <1>3, <1>4 DEF SchedulerPart, NoneStranded, Grown
<1>6. CASE c
  <2>1. s = AddQpToScheduleSet(a, q, t, now)
    BY <1>6
  <2> QED
    BY <1>1, <1>2, <1>5, <2>1, LookedAtPart
<1>7. CASE ~c
  <2>1. s = a /\ (HasCredits(a, q, t) => HasCredits(r, q, t))
    BY <1>7
  <2>2. NoneStranded(a)
    BY <1>3, <1>4, <1>5, <2>1 DEF SchedulerPart, NoneStranded
  <2>3. Keeps(a, a)
    BY DEF Keeps, Frame
  <2> QED
    BY <1>1, <1>2, <2>1, <2>2, <2>3 DEF SchedulerPart
<1> QED
  BY <1>6, <1>7

\* Nothing changes beyond the scheduler.
LEMMA SchedulerOnly ==
  ASSUME WorkIInv, SchedulerPart(rdma'), UlpPart(rdma', posted', arrived'),
         rdma'.usage = rdma.usage, rdma'.credits = rdma.credits,
         UNCHANGED <<pipeline, falcon, finished, ulpVars>>
  PROVE  WorkIInv'
<1>1. /\ FalconPart(pipeline, falcon, finished) /\ UlpTypeOK
      /\ Accounted(rdma, pipeline, falcon) /\ Reserved(falcon, ulpTransactions)
      /\ PoolsBalanced(ulpCredits, ulpTransactions)
  BY IInvParts
<1>2. Accounted(rdma', pipeline', falcon')
  BY <1>1 DEF Accounted
<1>3. UlpTypeOK'
  BY <1>1 DEF UlpTypeOK, ulpVars
<1>4. FalconPart(pipeline', falcon', finished') /\ Reserved(falcon', ulpTransactions')
      /\ PoolsBalanced(ulpCredits', ulpTransactions')
  BY <1>1 DEF ulpVars
<1> QED
  BY <1>2, <1>3, <1>4, IInvFromPartsNext
-----------------------------------------------------------------------------
(* The actions. *)

LEMMA PostOpKeeps ==
  ASSUME WorkIInv, NEW q \in Qps, NEW now \in BOOLEAN, PostOp(q, now)
  PROVE  WorkIInv'
<1>1. SchedulerPart(rdma) /\ UlpPart(rdma, posted, arrived)
  BY IInvParts
<1>2. rdma \in SchedulerStates /\ rdma.send \in [Qps -> Seq(Nat)] /\ posted \in [Qps -> Nat]
      /\ Len(Ops[q]) \in Nat
  <2>1. Len(Ops[q]) \in Nat
    BY WorkAssumption
  <2> QED
    BY <1>1, <2>1 DEF SchedulerPart, Sched, SchedulerStates, UlpPart
<1>3. posted[q] < Len(Ops[q]) /\ posted' = [posted EXCEPT ![q] = @ + 1]
      /\ UNCHANGED <<arrived, pipeline, falcon, finished, ulpVars>>
  BY DEF PostOp
<1> DEFINE i == posted[q] + 1
           send == [rdma.send EXCEPT ![q] = Append(@, i)]
           a == [rdma EXCEPT !.send = send]
           c == Len(send[q]) = 1 /\ HasCredits(a, q, "request")
<1>4. rdma' = IF c THEN AddQpToScheduleSet(a, q, "request", now) ELSE a
  <2>1. posted'[q] = i
    BY <1>2, <1>3
  <2> DEFINE b == [rdma EXCEPT !.send[q] = Append(@, posted'[q])]
  <2>2. a = b /\ a.send = send
    BY <1>2, <2>1 DEF SchedulerStates
  <2>3. rdma' = IF Len(b.send[q]) = 1 /\ HasCredits(b, q, "request")
                THEN AddQpToScheduleSet(b, q, "request", now) ELSE b
    BY DEF PostOp
  <2> HIDE DEF a, b, send
  <2> QED
    BY <2>2, <2>3
<1>5. i \in Nat /\ i \in 1..Len(Ops[q])
  BY <1>2, <1>3
<1> HIDE DEF i
<1>6. /\ send \in [Qps -> Seq(Nat)] /\ send[q] = Append(rdma.send[q], i)
      /\ \A p \in Qps \ {q} : send[p] = rdma.send[p]
  BY <1>2, <1>5
<1> HIDE DEF send
<1>7. /\ a \in SchedulerStates /\ a.send = send /\ a.inbound = rdma.inbound
      /\ a.usage = rdma.usage /\ a.credits = rdma.credits /\ a.phase = rdma.phase
      /\ a.current = rdma.current /\ a.wqs = rdma.wqs /\ a.active = rdma.active
      /\ a.adds = rdma.adds /\ a.xoff = rdma.xoff
  BY <1>2, <1>6 DEF SchedulerStates
<1> HIDE DEF a
<1>8. /\ rdma.send[q] \in Seq(Nat) /\ Len(rdma.send[q]) \in Nat
      /\ Len(send[q]) = Len(rdma.send[q]) + 1 /\ send[q] # <<>>
      /\ send[q][Len(rdma.send[q]) + 1] = i
      /\ \A k \in 1..Len(rdma.send[q]) : send[q][k] = rdma.send[q][k]
  <2>1. rdma.send[q] \in Seq(Nat)
    BY <1>2
  <2>2. Len(send[q]) = Len(rdma.send[q]) + 1 /\ Len(rdma.send[q]) \in Nat
        /\ send[q] \in Seq(Nat)
    BY <1>5, <1>6, <2>1
  <2>3. send[q] # <<>>
    <3>1. Len(send[q]) # 0
      BY <2>2
    <3> QED
      BY <3>1, EmptySeq
  <2>4. /\ send[q][Len(rdma.send[q]) + 1] = i
        /\ \A k \in 1..Len(rdma.send[q]) : send[q][k] = rdma.send[q][k]
    BY <1>5, <1>6, <2>1, <2>2
  <2> QED
    BY <2>1, <2>2, <2>3, <2>4
<1>9. SendTyped(a)
  <2>1. \A k \in 1..Len(send[q]) : k \in 1..Len(rdma.send[q]) \/ k = Len(rdma.send[q]) + 1
    BY <1>8
  <2> QED
    BY ZenonT(60), <1>1, <1>5, <1>6, <1>7, <1>8, <2>1 DEF SchedulerPart, SendTyped
<1>10. Grown(rdma, a, q, "request")
  <2>1. \A p \in Qps : rdma.send[p] # <<>> => a.send[p] # <<>>
    BY <1>6, <1>7, <1>8
  <2> QED
    BY <1>6, <1>7, <2>1, TwoTypes DEF Grown, HasCredits
<1>11. c \/ (HasCredits(a, q, "request") => HasCredits(rdma, q, "request"))
  <2>1. ASSUME Len(send[q]) # 1 PROVE rdma.send[q] # <<>>
    BY <1>8, <2>1
  <2> QED
    BY <1>7, <2>1 DEF HasCredits
<1>12. SchedulerPart(rdma') /\ Keeps(a, rdma')
  <2>1. "request" \in WorkTypes /\ c \in BOOLEAN
    BY TwoTypes
  <2> HIDE DEF c
  <2> QED
    BY <1>1, <1>4, <1>7, <1>9, <1>10, <1>11, <2>1, GrownPart
<1>13. UlpPart(rdma', posted', arrived')
  <2>1. rdma'.inbound = rdma.inbound
    BY <1>7, <1>12 DEF Keeps, Frame
  <2>2. posted' \in [Qps -> Nat] /\ \A p \in Qps : posted'[p] <= Len(Ops[p])
    BY <1>1, <1>2, <1>3 DEF UlpPart
  <2> QED
    BY <1>1, <1>3, <2>1, <2>2 DEF UlpPart
<1> QED
  BY <1>3, <1>7, <1>12, <1>13, SchedulerOnly DEF Keeps, Frame

LEMMA EnqueueReadResponseKeeps ==
  ASSUME WorkIInv, NEW q \in Qps, NEW now \in BOOLEAN, EnqueueReadResponse(q, now)
  PROVE  WorkIInv'
<1>1. SchedulerPart(rdma) /\ UlpPart(rdma, posted, arrived)
  BY IInvParts
<1>2. rdma \in SchedulerStates /\ rdma.inbound \in [Qps -> Int] /\ arrived \in [Qps -> Nat]
      /\ Inbound[q] \in Nat
  <2>1. Inbound[q] \in Nat
    BY WorkAssumption
  <2> QED
    BY <1>1, <2>1 DEF SchedulerPart, Sched, SchedulerStates, UlpPart
<1>3. arrived[q] < Inbound[q] /\ arrived' = [arrived EXCEPT ![q] = @ + 1]
      /\ UNCHANGED <<posted, pipeline, falcon, finished, ulpVars>>
  BY DEF EnqueueReadResponse
<1> DEFINE inbound == [rdma.inbound EXCEPT ![q] = @ + 1]
           a == [rdma EXCEPT !.inbound = inbound]
           c == inbound[q] = 1 /\ HasCredits(a, q, "response")
<1>4. rdma' = IF c THEN AddQpToScheduleSet(a, q, "response", now) ELSE a
  <2> DEFINE b == [rdma EXCEPT !.inbound[q] = @ + 1]
  <2>1. a = b /\ a.inbound = inbound
    BY <1>2 DEF SchedulerStates
  <2>2. rdma' = IF b.inbound[q] = 1 /\ HasCredits(b, q, "response")
                THEN AddQpToScheduleSet(b, q, "response", now) ELSE b
    BY DEF EnqueueReadResponse
  <2> HIDE DEF a, b, inbound
  <2> QED
    BY <2>1, <2>2
<1>5. /\ inbound \in [Qps -> Int] /\ inbound[q] = rdma.inbound[q] + 1
      /\ \A p \in Qps \ {q} : inbound[p] = rdma.inbound[p]
      /\ rdma.inbound[q] \in Int
  BY <1>2
<1> HIDE DEF inbound
<1>6. /\ a \in SchedulerStates /\ a.inbound = inbound /\ a.send = rdma.send
      /\ a.usage = rdma.usage /\ a.credits = rdma.credits /\ a.phase = rdma.phase
      /\ a.current = rdma.current /\ a.wqs = rdma.wqs /\ a.active = rdma.active
      /\ a.adds = rdma.adds /\ a.xoff = rdma.xoff
  BY <1>2, <1>5 DEF SchedulerStates
<1> HIDE DEF a
<1>7. SendTyped(a)
  BY <1>1, <1>6 DEF SchedulerPart, SendTyped
<1>8. Grown(rdma, a, q, "response")
  <2>1. \A p \in Qps : rdma.inbound[p] > 0 => a.inbound[p] > 0
    BY <1>5, <1>6
  <2> QED
    BY <1>5, <1>6, <2>1, TwoTypes DEF Grown, HasCredits
<1>9. c \/ (HasCredits(a, q, "response") => HasCredits(rdma, q, "response"))
  <2>1. ASSUME inbound[q] # 1, inbound[q] > 0 PROVE rdma.inbound[q] > 0
    BY <1>5, <2>1
  <2> QED
    BY <1>6, <2>1 DEF HasCredits
<1>10. SchedulerPart(rdma') /\ Keeps(a, rdma')
  <2>1. "response" \in WorkTypes /\ c \in BOOLEAN
    BY TwoTypes
  <2> HIDE DEF c
  <2> QED
    BY <1>1, <1>4, <1>6, <1>7, <1>8, <1>9, <2>1, GrownPart
<1>11. UlpPart(rdma', posted', arrived')
  <2>1. rdma'.inbound = inbound
    BY <1>6, <1>10 DEF Keeps, Frame
  <2>2. arrived' \in [Qps -> Nat] /\ \A p \in Qps : arrived'[p] <= Inbound[p]
    BY <1>1, <1>2, <1>3 DEF UlpPart
  <2>3. ASSUME NEW p \in Qps PROVE rdma'.inbound[p] <= arrived'[p]
    <3>1. rdma.inbound[p] <= arrived[p]
      BY <1>1 DEF UlpPart
    <3>2. arrived'[p] = IF p = q THEN arrived[p] + 1 ELSE arrived[p]
      BY <1>2, <1>3
    <3>3. rdma'.inbound[p] = IF p = q THEN rdma.inbound[p] + 1 ELSE rdma.inbound[p]
      BY <1>5, <2>1
    <3> QED
      BY <1>2, <3>1, <3>2, <3>3
  <2> QED
    BY <1>1, <1>3, <2>2, <2>3 DEF UlpPart
<1> QED
  BY <1>3, <1>6, <1>10, <1>11, SchedulerOnly DEF Keeps, Frame

LEMMA RunEventKeeps ==
  ASSUME WorkIInv, RunEvent
  PROVE  WorkIInv'
<1>1. SchedulerPart(rdma) /\ UlpPart(rdma, posted, arrived)
  BY IInvParts
<1>2. Sched(rdma') /\ Awake(rdma') /\ Keeps(rdma, rdma')
  BY <1>1, RunKeeps DEF RunEvent, SchedulerPart
<1>3. SchedulerPart(rdma')
  BY <1>1, <1>2, KeptPart
<1>4. UlpPart(rdma', posted', arrived')
  BY <1>1, <1>2 DEF UlpPart, Keeps, Frame, RunEvent
<1> QED
  BY <1>2, <1>3, <1>4, SchedulerOnly DEF RunEvent, Keeps, Frame

LEMMA GapPassesKeeps ==
  ASSUME WorkIInv, NEW q \in Qps, GapPasses(q)
  PROVE  WorkIInv'
<1>1. SchedulerPart(rdma) /\ UlpPart(rdma, posted, arrived)
  BY IInvParts
<1> DEFINE limited == rdma.limited \ {q}
<1>2. rdma \in SchedulerStates /\ limited \in SUBSET Qps
  BY <1>1 DEF SchedulerPart, Sched, SchedulerStates
<1>3. rdma' = [rdma EXCEPT !.limited = limited]
      /\ UNCHANGED <<posted, arrived, pipeline, falcon, finished, ulpVars>>
  BY DEF GapPasses
<1> HIDE DEF limited
<1>4. /\ rdma' \in SchedulerStates /\ rdma'.inbound = rdma.inbound /\ rdma'.send = rdma.send
      /\ rdma'.usage = rdma.usage /\ rdma'.credits = rdma.credits /\ rdma'.phase = rdma.phase
      /\ rdma'.current = rdma.current /\ rdma'.wqs = rdma.wqs /\ rdma'.active = rdma.active
      /\ rdma'.adds = rdma.adds /\ rdma'.xoff = rdma.xoff
  BY <1>2, <1>3 DEF SchedulerStates
<1>5. \A p \in Qps, u \in WorkTypes : HasCredits(rdma', p, u) <=> HasCredits(rdma, p, u)
  BY <1>4 DEF HasCredits
<1>6. SchedulerPart(rdma')
  <2>1. \A u \in WorkTypes : rdma.active[u] \subseteq Qps
    BY <1>2 DEF SchedulerStates
  <2>2. \A u \in WorkTypes : Listed(rdma', u)
    BY <1>1, <1>4, <1>5, <2>1 DEF Listed, SchedulerPart, Sched
  <2>3. Sched(rdma')
    BY <1>1, <1>4, <2>2 DEF SchedulerPart, Sched, TurnComes
  <2>4. Awake(rdma')
    BY <1>1, <1>4 DEF SchedulerPart, Awake, CanSend
  <2>5. NoneStranded(rdma') /\ SendTyped(rdma')
    BY <1>1, <1>4, <1>5 DEF SchedulerPart, NoneStranded, SendTyped, Covered
  <2> QED
    BY <2>3, <2>4, <2>5 DEF SchedulerPart
<1>7. UlpPart(rdma', posted', arrived')
  BY <1>1, <1>3, <1>4 DEF UlpPart
<1> QED
  BY <1>3, <1>4, <1>6, <1>7, SchedulerOnly

LEMMA AddEventKeeps ==
  ASSUME WorkIInv, NEW q \in Qps, NEW t \in WorkTypes \cup {"current"}, NEW now \in BOOLEAN,
         AddEvent(q, t, now)
  PROVE  WorkIInv'
<1>1. SchedulerPart(rdma) /\ UlpPart(rdma, posted, arrived)
  BY IInvParts
<1> DEFINE adds == rdma.adds \ {<<q, t>>}
           a == [rdma EXCEPT !.adds = adds]
           u == IF t = "current" THEN rdma.current ELSE t
<1>2. rdma \in SchedulerStates /\ adds \in SUBSET (Qps \X (WorkTypes \cup {"current"}))
      /\ u \in WorkTypes
  BY <1>1 DEF SchedulerPart, Sched, SchedulerStates
<1>3. a.current = rdma.current /\ rdma' = AddQpToScheduleSet(a, q, u, now)
      /\ UNCHANGED <<posted, arrived, pipeline, falcon, finished, ulpVars>>
  BY DEF AddEvent
<1>4. \A p \in Qps, v \in WorkTypes : (p = q /\ v = u) \/ (<<p, v>> \in rdma.adds => <<p, v>> \in adds)
  <2>1. "current" \notin WorkTypes
    BY TwoTypes
  <2> QED
    BY <2>1
<1> HIDE DEF adds, u
<1>5. /\ a \in SchedulerStates /\ a.inbound = rdma.inbound /\ a.send = rdma.send
      /\ a.usage = rdma.usage /\ a.credits = rdma.credits /\ a.phase = rdma.phase
      /\ a.current = rdma.current /\ a.wqs = rdma.wqs /\ a.active = rdma.active
      /\ a.adds = adds /\ a.xoff = rdma.xoff
  BY <1>2 DEF SchedulerStates
<1> HIDE DEF a
<1>6. \A p \in Qps, v \in WorkTypes : HasCredits(a, p, v) <=> HasCredits(rdma, p, v)
  BY <1>5 DEF HasCredits
<1>7. Sched(a) /\ Awake(a) /\ SendTyped(a)
  <2>1. \A v \in WorkTypes : rdma.active[v] \subseteq Qps
    BY <1>2 DEF SchedulerStates
  <2>2. \A v \in WorkTypes : Listed(a, v)
    BY <1>1, <1>5, <1>6, <2>1 DEF Listed, SchedulerPart, Sched
  <2>3. Sched(a)
    BY <1>1, <1>5, <2>2 DEF SchedulerPart, Sched, TurnComes
  <2>4. Awake(a)
    BY <1>1, <1>5 DEF SchedulerPart, Awake, CanSend
  <2> QED
    BY <1>1, <1>5, <2>3, <2>4 DEF SchedulerPart, SendTyped
<1>8. SchedulerPart(rdma') /\ Keeps(a, rdma')
  <2>1. \A p \in Qps, v \in WorkTypes :
          (p = q /\ v = u) \/ (HasCredits(a, p, v) =>
                              Covered(a, p, v) \/ \E w \in WorkTypes : a.usage[p][w] > 0)
    BY <1>1, <1>5, <1>6, <1>4 DEF SchedulerPart, NoneStranded, Covered
  <2> QED
    BY <1>2, <1>3, <1>7, <2>1, LookedAtPart
<1>9. UlpPart(rdma', posted', arrived')
  BY <1>1, <1>3, <1>5, <1>8 DEF UlpPart, Keeps, Frame
<1> QED
  BY <1>3, <1>5, <1>8, <1>9, SchedulerOnly DEF Keeps, Frame

LEMMA StagesAre == Stages = {"network", "acked", "delivered"}
BY DEF Stages

LEMMA ProcessIncomingReadResponseKeeps ==
  ASSUME WorkIInv, NEW x \in OpIds, NEW now \in BOOLEAN, ProcessIncomingReadResponse(x, now)
  PROVE  WorkIInv'
<1>1. /\ SchedulerPart(rdma) /\ UlpPart(rdma, posted, arrived)
      /\ FalconPart(pipeline, falcon, finished) /\ UlpTypeOK
      /\ Accounted(rdma, pipeline, falcon) /\ Reserved(falcon, ulpTransactions)
      /\ PoolsBalanced(ulpCredits, ulpTransactions)
  BY IInvParts
<1>2. /\ falcon["delivered"][x] > 0 /\ falcon' = [falcon EXCEPT !["delivered"][x] = @ - 1]
      /\ finished' = [finished EXCEPT ![x] = @ + 1]
      /\ UNCHANGED <<posted, arrived, pipeline, ulpVars>>
  BY DEF ProcessIncomingReadResponse
<1>3. x \in Transactions /\ x[1] \in Qps /\ falcon \in FalconStates
  BY <1>1, KindsOfTransactions DEF Transactions, FalconPart
<1>4. /\ falcon' \in FalconStates /\ falcon'["network"] = falcon["network"]
      /\ falcon'["acked"] = falcon["acked"]
  <2>1. /\ falcon' \in FalconStates
        /\ \A w \in Stages \ {"delivered"} : falcon'[w] = falcon[w]
    <3>1. falcon' = Left(falcon, "delivered", x)
      BY <1>2 DEF Left
    <3>2. falcon["delivered"][x] > 0 /\ "delivered" \in Stages
      BY <1>2, StagesAre
    <3> QED
      BY <1>3, <3>1, <3>2, StageLeft
  <2> QED
    BY <2>1, StagesAre
<1>5. FalconPart(pipeline', falcon', finished')
  BY <1>1, <1>2, <1>3, <1>4 DEF FalconPart
<1>6. Reserved(falcon', ulpTransactions')
  BY <1>1, <1>2, <1>4 DEF Reserved, ulpVars
<1>7. PoolsBalanced(ulpCredits', ulpTransactions') /\ UlpTypeOK'
  BY <1>1, <1>2 DEF ulpVars, UlpTypeOK
<1> DEFINE q == x[1]
           reads == [rdma.reads EXCEPT ![q] = @ - 1]
           a == [rdma EXCEPT !.reads = reads]
           c == a.reads[q] < Ord /\ a.send[q] # <<>> /\ IsRead(<<q, Head(a.send[q])>>)
<1>8. rdma \in SchedulerStates /\ reads \in [Qps -> Int]
  <2>1. rdma \in SchedulerStates /\ rdma.reads \in [Qps -> Int]
    BY <1>1 DEF SchedulerPart, Sched, SchedulerStates
  <2> QED
    BY <1>3, <2>1
<1>9. rdma' = rdma \/ rdma' = IF c THEN AddQpToScheduleSet(a, q, "request", now) ELSE a
  <2> DEFINE b == [rdma EXCEPT !.reads[q] = @ - 1]
  <2>1. a = b
    BY <1>8 DEF SchedulerStates
  <2>2. rdma' = IF finished'[x] < Op(x).packets THEN rdma
                ELSE IF b.reads[q] < Ord /\ b.send[q] # <<>> /\ IsRead(<<q, Head(b.send[q])>>)
                THEN AddQpToScheduleSet(b, q, "request", now) ELSE b
    BY DEF ProcessIncomingReadResponse
  <2> HIDE DEF a, b, q
  <2> QED
    BY <2>1, <2>2
<1> HIDE DEF reads
<1>10. /\ a \in SchedulerStates /\ a.inbound = rdma.inbound /\ a.send = rdma.send
       /\ a.usage = rdma.usage /\ a.credits = rdma.credits /\ a.phase = rdma.phase
       /\ a.current = rdma.current /\ a.wqs = rdma.wqs /\ a.active = rdma.active
       /\ a.adds = rdma.adds /\ a.xoff = rdma.xoff
  BY <1>8 DEF SchedulerStates
<1> HIDE DEF a
<1>11. /\ SchedulerPart(rdma') /\ rdma'.inbound = rdma.inbound
       /\ rdma'.usage = rdma.usage /\ rdma'.credits = rdma.credits
  <2>1. CASE rdma' = rdma
    BY <1>1, <2>1
  <2>2. CASE rdma' = IF c THEN AddQpToScheduleSet(a, q, "request", now) ELSE a
    <3>1. SendTyped(a) /\ Grown(rdma, a, q, "request")
      BY <1>1, <1>10 DEF SchedulerPart, SendTyped, Grown, HasCredits
    <3>2. HasCredits(a, q, "request") => HasCredits(rdma, q, "request")
      BY <1>10 DEF HasCredits
    <3>3. c \in BOOLEAN /\ "request" \in WorkTypes /\ q \in Qps
      BY <1>3, TwoTypes DEF IsRead
    <3> HIDE DEF c, q
    <3>4. SchedulerPart(rdma') /\ Keeps(a, rdma')
      BY <1>1, <1>10, <2>2, <3>1, <3>2, <3>3, GrownPart
    <3> QED
      BY <1>10, <3>4 DEF Keeps, Frame
  <2> QED
    BY <1>9, <2>1, <2>2
<1>12. UlpPart(rdma', posted', arrived')
  BY <1>1, <1>2, <1>11 DEF UlpPart
<1>13. Accounted(rdma', pipeline', falcon')
  BY <1>1, <1>2, <1>4, <1>11 DEF Accounted, HeldIn
<1> QED
  BY <1>5, <1>6, <1>7, <1>11, <1>12, <1>13, IInvFromPartsNext

LEMMA SendTransactionKeeps ==
  ASSUME WorkIInv, ~ResponseAtOrd, NEW bytesLeft \in BOOLEAN, SendTransaction(bytesLeft)
  PROVE  WorkIInv'
<1>1. /\ SchedulerPart(rdma) /\ UlpPart(rdma, posted, arrived)
      /\ FalconPart(pipeline, falcon, finished) /\ UlpTypeOK
      /\ Accounted(rdma, pipeline, falcon) /\ Reserved(falcon, ulpTransactions)
      /\ PoolsBalanced(ulpCredits, ulpTransactions)
  BY IInvParts
<1> DEFINE t == rdma.current
           q == Head(rdma.wqs[t])
           y == <<q, IF t = "request" THEN Head(rdma.send[q]) ELSE 0>>
<1>2. /\ rdma.phase = "lookup" /\ pipeline' = Append(pipeline, y)
      /\ rdma' = Sent(rdma, q, bytesLeft)
      /\ UNCHANGED <<posted, arrived, falcon, finished, ulpVars>>
  BY DEF SendTransaction
<1>3. rdma \in SchedulerStates /\ pipeline \in Seq(Transactions) /\ falcon \in FalconStates
  BY <1>1 DEF SchedulerPart, Sched, FalconPart
<1>4. /\ t \in WorkTypes /\ q \in Qps /\ HasCredits(rdma, q, t) /\ rdma.credits[t] > 0
      /\ SchedulerPart(rdma') /\ Taken(rdma, rdma', q, t)
  <2>1. ~(t = "response" /\ OverOrd(rdma, q))
    BY <1>2 DEF ResponseAtOrd
  <2>2. \A p \in Qps, u \in WorkTypes : rdma.usage[p][u] >= 0
    BY <1>1, <1>3, HeldCounts, KindsOfTransactions DEF Accounted
  <2> QED
    BY <1>1, <1>2, <2>1, <2>2, SentPart
<1> HIDE DEF t, q
<1>5. y \in Transactions /\ TypeOf(y) = t /\ y[1] = q
  <2>1. CASE t = "request"
    <3> DEFINE i == Head(rdma.send[q])
    <3>1. rdma.send[q] # <<>> /\ rdma.send[q] \in Seq(Nat)
      BY <1>3, <1>4, <2>1 DEF HasCredits, SchedulerStates
    <3>2. 1 \in 1..Len(rdma.send[q]) /\ i = rdma.send[q][1]
      BY <3>1, EmptySeq
    <3>3. i \in 1..Len(Ops[q])
      BY <1>1, <1>4, <3>2 DEF SchedulerPart, SendTyped
    <3>4. y = <<q, i>>
      BY <2>1
    <3> HIDE DEF i, y
    <3>5. i # 0
      <4>1. Len(Ops[q]) \in Nat
        BY <1>4, WorkAssumption
      <4> QED
        BY <3>3, <4>1
    <3>6. <<q, i>> \in OpIds
      BY <1>4, <3>3 DEF OpIds
    <3> QED
      BY <2>1, <3>4, <3>5, <3>6 DEF Transactions, TypeOf
  <2>2. CASE t = "response"
    <3>1. y = <<q, 0>>
      BY <2>2
    <3> QED
      BY <1>4, <2>2, <3>1 DEF Transactions, TypeOf
  <2> QED
    BY <1>4, <2>1, <2>2, TwoTypes
<1> HIDE DEF y
<1>6. HeldGrows(pipeline, falcon, pipeline', falcon', y)
  <2> SUFFICES ASSUME NEW S \in SUBSET Transactions
               PROVE  HeldIn(pipeline', falcon, S) = HeldIn(pipeline, falcon, S) + One(y, S)
    BY <1>2 DEF HeldGrows
  <2>1. Cardinality(Places(pipeline', S)) = Cardinality(Places(pipeline, S)) + One(y, S)
    BY <1>2, <1>3, <1>5, PlacesAppend DEF One
  <2>2. /\ Cardinality(Places(pipeline, S)) \in Nat /\ One(y, S) \in Nat
        /\ Cardinality(Tokens(falcon["network"], S)) \in Nat
        /\ Cardinality(Tokens(falcon["acked"], S)) \in Nat
    BY <1>3, HeldCounts, TokensFinite, StagesAre DEF One, FalconStates
  <2> QED
    BY <2>1, <2>2 DEF HeldIn
<1>7. Accounted(rdma', pipeline', falcon')
  <2>1. Taken(rdma, rdma', y[1], TypeOf(y)) /\ rdma.credits[TypeOf(y)] > 0
    BY <1>4, <1>5
  <2> QED
    BY <1>1, <1>3, <1>5, <1>6, <2>1, CreditTaken
<1>8. FalconPart(pipeline', falcon', finished')
  BY <1>1, <1>2, <1>3, <1>5 DEF FalconPart
<1>9. UlpPart(rdma', posted', arrived')
  <2>1. ASSUME NEW p \in Qps PROVE rdma'.inbound[p] <= arrived'[p]
    <3>1. rdma'.inbound[p] \in Int /\ rdma.inbound[p] \in Int /\ arrived[p] \in Int
      BY <1>1, <1>3, <1>4 DEF SchedulerPart, Sched, SchedulerStates, UlpPart
    <3>2. rdma'.inbound[p] <= rdma.inbound[p] /\ rdma.inbound[p] <= arrived[p]
      BY <1>1, <1>4 DEF Taken, UlpPart
    <3> QED
      BY <1>2, <3>1, <3>2
  <2> QED
    BY <1>1, <1>2, <2>1 DEF UlpPart
<1>10. UlpTypeOK' /\ Reserved(falcon', ulpTransactions') /\ PoolsBalanced(ulpCredits', ulpTransactions')
  BY <1>1, <1>2 DEF ulpVars, UlpTypeOK
<1> QED
  BY <1>4, <1>7, <1>8, <1>9, <1>10, IInvFromPartsNext

\* What is in the pipeline has not reserved credits of Falcon yet.
LEMMA RoomForHead ==
  ASSUME FalconPart(pipeline, falcon, finished), Accounted(rdma, pipeline, falcon),
         Reserved(falcon, ulpTransactions), rdma \in SchedulerStates, pipeline # <<>>
  PROVE  /\ Head(pipeline) \in Transactions /\ Tail(pipeline) \in Seq(Transactions)
         /\ ulpTransactions[TypeOf(Head(pipeline))][1] < RdmaCredits[TypeOf(Head(pipeline))]
<1> DEFINE y == Head(pipeline)
           t == TypeOf(y)
           S == OfType(t)
<1>1. pipeline \in Seq(Transactions) /\ falcon \in FalconStates
  BY DEF FalconPart
<1>2. y \in Transactions /\ Tail(pipeline) \in Seq(Transactions)
  BY <1>1
<1>3. t \in WorkTypes /\ S \in SUBSET Transactions /\ y \in S
  BY <1>2, KindsOfTransactions DEF OfType
<1> HIDE DEF t, y
<1>4. /\ rdma.credits[t] + HeldIn(pipeline, falcon, S) = RdmaCredits[t]
      /\ rdma.credits[t] >= 0 /\ rdma.credits[t] \in Int
      /\ ulpTransactions[t][1] = Cardinality(Tokens(falcon["network"], S))
  BY <1>3 DEF Accounted, Reserved, SchedulerStates
<1>5. Cardinality(Places(pipeline, S)) = Cardinality(Places(Tail(pipeline), S)) + 1
  BY <1>1, <1>3, PlacesTail DEF y
<1>6. Cardinality(Places(Tail(pipeline), S)) \in Nat
  BY <1>2, PlacesFinite
<1>7. /\ HeldIn(pipeline, falcon, S) \in Nat
      /\ Cardinality(Tokens(falcon["network"], S)) \in Nat
      /\ HeldIn(pipeline, falcon, S)
           >= Cardinality(Places(pipeline, S)) + Cardinality(Tokens(falcon["network"], S))
  BY <1>1, <1>3, HeldCounts
<1> HIDE DEF S
<1>8. ulpTransactions[t][1] < RdmaCredits[t]
  BY <1>4, <1>5, <1>6, <1>7
<1> QED
  BY <1>2, <1>8 DEF t, y

LEMMA InitiateTransactionKeeps ==
  ASSUME WorkIInv, NEW now \in BOOLEAN, InitiateTransaction(now)
  PROVE  WorkIInv'
<1>1. /\ SchedulerPart(rdma) /\ UlpPart(rdma, posted, arrived)
      /\ FalconPart(pipeline, falcon, finished) /\ UlpTypeOK
      /\ Accounted(rdma, pipeline, falcon) /\ Reserved(falcon, ulpTransactions)
      /\ PoolsBalanced(ulpCredits, ulpTransactions)
  BY IInvParts
<1> DEFINE y == Head(pipeline)
           t == TypeOf(y)
<1>2. /\ pipeline # <<>> /\ pipeline' = Tail(pipeline)
      /\ ReserveUlpResources(t, 1) /\ falcon' = Entered(falcon, "network", y)
      /\ rdma' = SetXoff(rdma, UlpXoff(ulpCredits'), now)
      /\ UNCHANGED <<posted, arrived, finished>>
  BY DEF InitiateTransaction, Entered
<1>3. pipeline \in Seq(Transactions) /\ falcon \in FalconStates /\ rdma \in SchedulerStates
  BY <1>1 DEF FalconPart, SchedulerPart, Sched
<1>4. /\ y \in Transactions /\ pipeline' \in Seq(Transactions)
      /\ ulpTransactions[t][1] < RdmaCredits[t]
  BY <1>1, <1>2, <1>3, RoomForHead
<1>5. t \in WorkTypes
  BY <1>4, KindsOfTransactions
<1>6. \A S : Cardinality(Places(pipeline, S)) = Cardinality(Places(pipeline', S)) + One(y, S)
  BY <1>2, <1>3, PlacesTail DEF One
<1> HIDE DEF y
<1>7. /\ falcon' \in FalconStates /\ falcon'["acked"] = falcon["acked"]
      /\ \A S \in SUBSET Transactions :
           Cardinality(Tokens(falcon'["network"], S))
             = Cardinality(Tokens(falcon["network"], S)) + One(y, S)
  <2>1. "network" \in Stages /\ "acked" \in Stages \ {"network"}
    BY StagesAre
  <2>2. falcon' = Entered(falcon, "network", y)
    BY <1>2
  <2>3. /\ falcon' \in FalconStates
        /\ \A w \in Stages \ {"network"} : falcon'[w] = falcon[w]
        /\ \A S \in SUBSET Transactions :
             Cardinality(Tokens(falcon'["network"], S))
               = Cardinality(Tokens(falcon["network"], S)) + One(y, S)
    BY <1>3, <1>4, <2>1, <2>2, StageEntered
  <2> QED
    BY <2>1, <2>3
<1>8. /\ UlpTypeOK' /\ PoolsBalanced(ulpCredits', ulpTransactions')
      /\ ulpTransactions'[t][1] = ulpTransactions[t][1] + 1
      /\ \A u \in WorkTypes \ {t} : ulpTransactions'[u] = ulpTransactions[u]
  <2>1. t \in Kinds /\ (t = "response" => ulpTransactions["response"][1] < RdmaCredits["response"])
    BY <1>4, <1>5 DEF WorkTypes
  <2> HIDE DEF t
  <2> QED
    BY <1>1, <1>2, <2>1, PoolsReserved DEF WorkTypes
<1>9. SchedulerPart(rdma') /\ Keeps(rdma, rdma')
  BY <1>1, <1>2, XoffPart
<1>10. UlpPart(rdma', posted', arrived')
  BY <1>1, <1>2, <1>9 DEF UlpPart, Keeps, Frame
<1>11. FalconPart(pipeline', falcon', finished')
  BY <1>1, <1>2, <1>4, <1>7 DEF FalconPart
<1>12. Reserved(falcon', ulpTransactions')
  <2>1. ASSUME NEW u \in WorkTypes
        PROVE  ulpTransactions'[u][1] = Cardinality(Tokens(falcon'["network"], OfType(u)))
    <3>1. /\ ulpTransactions[u][1] = Cardinality(Tokens(falcon["network"], OfType(u)))
          /\ Cardinality(Tokens(falcon'["network"], OfType(u)))
               = Cardinality(Tokens(falcon["network"], OfType(u))) + One(y, OfType(u))
      BY <1>1, <1>7, KindsOfTransactions DEF Reserved
    <3>2. One(y, OfType(u)) = IF u = t THEN 1 ELSE 0
      BY <1>4, KindsOfTransactions
    <3>3. ulpTransactions[u][1] \in Int
      <4>1. falcon["network"] \in [Transactions -> Nat] /\ OfType(u) \in SUBSET Transactions
        BY <1>3, StagesAre, KindsOfTransactions DEF FalconStates
      <4> QED
        BY <3>1, <4>1, TokensFinite
    <3> HIDE DEF t
    <3> QED
      BY <1>8, <3>1, <3>2, <3>3
  <2> QED
    BY <2>1 DEF Reserved
<1>13. \A S \in SUBSET Transactions :
         HeldIn(pipeline', falcon', S) = HeldIn(pipeline, falcon, S)
  <2> SUFFICES ASSUME NEW S \in SUBSET Transactions
               PROVE  HeldIn(pipeline', falcon', S) = HeldIn(pipeline, falcon, S)
    OBVIOUS
  <2>1. /\ Cardinality(Places(pipeline', S)) \in Nat /\ One(y, S) \in Nat
        /\ Cardinality(Tokens(falcon["network"], S)) \in Nat
        /\ Cardinality(Tokens(falcon["acked"], S)) \in Nat
    BY <1>3, <1>4, PlacesFinite, TokensFinite, StagesAre DEF One, FalconStates
  <2>2. /\ Cardinality(Places(pipeline, S)) = Cardinality(Places(pipeline', S)) + One(y, S)
        /\ Cardinality(Tokens(falcon'["network"], S))
             = Cardinality(Tokens(falcon["network"], S)) + One(y, S)
    BY <1>6, <1>7
  <2> QED
    BY <1>7, <2>1, <2>2 DEF HeldIn
<1>14. Accounted(rdma', pipeline', falcon')
  BY <1>1, <1>9, <1>13, CreditKept DEF Keeps, Frame
<1> QED
  BY <1>8, <1>9, <1>10, <1>11, <1>12, <1>14, IInvFromPartsNext

\* A transaction that leaves the network returns its credit of Falcon.
LEMMA ReservedLess ==
  ASSUME NEW f \in FalconStates, NEW g \in FalconStates, NEW y \in Transactions,
         \A S \in SUBSET Transactions :
           Cardinality(Tokens(f["network"], S)) = Cardinality(Tokens(g["network"], S)) + One(y, S),
         NEW o, Reserved(f, o), NEW o2, o2[TypeOf(y)][1] = o[TypeOf(y)][1] - 1,
         \A u \in WorkTypes \ {TypeOf(y)} : o2[u] = o[u]
  PROVE  Reserved(g, o2)
<1> DEFINE t == TypeOf(y)
<1>1. o2[t][1] = o[t][1] - 1 /\ \A u \in WorkTypes \ {t} : o2[u] = o[u]
  OBVIOUS
<1>2. ASSUME NEW u \in WorkTypes
      PROVE  o2[u][1] = Cardinality(Tokens(g["network"], OfType(u)))
  <2>1. /\ o[u][1] = Cardinality(Tokens(f["network"], OfType(u)))
        /\ Cardinality(Tokens(f["network"], OfType(u)))
             = Cardinality(Tokens(g["network"], OfType(u))) + One(y, OfType(u))
    BY KindsOfTransactions DEF Reserved
  <2>2. One(y, OfType(u)) = IF u = t THEN 1 ELSE 0
    BY KindsOfTransactions
  <2>3. g["network"] \in [Transactions -> Nat] /\ OfType(u) \in SUBSET Transactions
    BY StagesAre, KindsOfTransactions DEF FalconStates
  <2>4. Cardinality(Tokens(g["network"], OfType(u))) \in Nat
    BY <2>3, TokensFinite
  <2> HIDE DEF t
  <2>5. CASE u = t
    BY <1>1, <2>1, <2>2, <2>4, <2>5
  <2>6. CASE u # t
    BY <1>1, <2>1, <2>2, <2>4, <2>6
  <2> QED
    BY <2>5, <2>6
<1> QED
  BY <1>2 DEF Reserved

LEMMA AckPullRequestKeeps ==
  ASSUME WorkIInv, NEW x \in Transactions, NEW now \in BOOLEAN, AckPullRequest(x, now)
  PROVE  WorkIInv'
<1>1. /\ SchedulerPart(rdma) /\ UlpPart(rdma, posted, arrived)
      /\ FalconPart(pipeline, falcon, finished) /\ UlpTypeOK
      /\ Accounted(rdma, pipeline, falcon) /\ Reserved(falcon, ulpTransactions)
      /\ PoolsBalanced(ulpCredits, ulpTransactions)
  BY IInvParts
<1> DEFINE f == Left(falcon, "network", x)
<1>2. /\ IsRead(x) /\ falcon["network"][x] > 0
      /\ ReleaseUlpResources("request", 1)
      /\ rdma' = SetXoff(rdma, UlpXoff(ulpCredits'), now)
      /\ UNCHANGED <<posted, arrived, pipeline, finished>>
  BY DEF AckPullRequest
<1>3. pipeline \in Seq(Transactions) /\ falcon \in FalconStates
  BY <1>1 DEF FalconPart
<1>4. falcon' = Entered(f, "acked", x)
  BY <1>3, StagesAre DEF AckPullRequest, Entered, Left, FalconStates
<1>5. TypeOf(x) = "request" /\ "request" \in WorkTypes
  BY <1>2, TwoTypes DEF TypeOf, IsRead
<1>6. /\ f \in FalconStates
      /\ \A w \in Stages \ {"network"} : f[w] = falcon[w]
      /\ \A S \in SUBSET Transactions :
           Cardinality(Tokens(falcon["network"], S)) = Cardinality(Tokens(f["network"], S)) + One(x, S)
  <2>1. "network" \in Stages /\ falcon["network"][x] > 0
    BY <1>2, StagesAre
  <2> HIDE DEF f
  <2>2. f = Left(falcon, "network", x)
    BY DEF f
  <2> QED
    BY <1>3, <2>1, <2>2, StageLeft
<1> HIDE DEF f
<1>7. /\ falcon' \in FalconStates
      /\ \A w \in Stages \ {"acked"} : falcon'[w] = f[w]
      /\ \A S \in SUBSET Transactions :
           Cardinality(Tokens(falcon'["acked"], S)) = Cardinality(Tokens(f["acked"], S)) + One(x, S)
  BY SMTT(30), <1>4, <1>6, StagesAre, StageEntered
<1>8. falcon'["network"] = f["network"] /\ f["acked"] = falcon["acked"]
  BY <1>6, <1>7, StagesAre
<1>9. /\ UlpTypeOK' /\ PoolsBalanced(ulpCredits', ulpTransactions')
      /\ ulpTransactions'["request"][1] = ulpTransactions["request"][1] - 1
      /\ \A u \in WorkTypes \ {"request"} : ulpTransactions'[u] = ulpTransactions[u]
  BY <1>1, <1>2, <1>5, PoolsReleased DEF WorkTypes
<1>10. SchedulerPart(rdma') /\ Keeps(rdma, rdma')
  BY <1>1, <1>2, XoffPart
<1>11. UlpPart(rdma', posted', arrived')
  BY <1>1, <1>2, <1>10 DEF UlpPart, Keeps, Frame
<1>12. FalconPart(pipeline', falcon', finished')
  <2>1. ASSUME NEW y \in Transactions, falcon'["acked"][y] > 0 PROVE IsRead(y)
    <3>1. y # x => falcon'["acked"][y] = f["acked"][y]
      BY <1>4, <1>6, StagesAre DEF Entered, FalconStates
    <3> QED
      BY <1>1, <1>2, <1>8, <2>1, <3>1 DEF FalconPart
  <2> QED
    BY <1>1, <1>2, <1>7, <2>1 DEF FalconPart
<1>13. Reserved(falcon', ulpTransactions')
  <2>1. \A S \in SUBSET Transactions :
          Cardinality(Tokens(falcon["network"], S))
            = Cardinality(Tokens(falcon'["network"], S)) + One(x, S)
    BY <1>6, <1>8
  <2> QED
    BY <1>1, <1>3, <1>5, <1>7, <1>9, <2>1, ReservedLess
<1>14. \A S \in SUBSET Transactions :
         HeldIn(pipeline', falcon', S) = HeldIn(pipeline, falcon, S)
  <2> SUFFICES ASSUME NEW S \in SUBSET Transactions
               PROVE  HeldIn(pipeline', falcon', S) = HeldIn(pipeline, falcon, S)
    OBVIOUS
  <2>1. /\ f["network"] \in [Transactions -> Nat] /\ falcon["acked"] \in [Transactions -> Nat]
    BY <1>3, <1>6, StagesAre DEF FalconStates
  <2>2. /\ Cardinality(Tokens(f["network"], S)) \in Nat
        /\ Cardinality(Tokens(falcon["acked"], S)) \in Nat
        /\ Cardinality(Places(pipeline, S)) \in Nat /\ One(x, S) \in Nat
    BY <1>3, <2>1, PlacesFinite, TokensFinite DEF One
  <2>3. /\ Cardinality(Tokens(falcon["network"], S))
             = Cardinality(Tokens(falcon'["network"], S)) + One(x, S)
        /\ Cardinality(Tokens(falcon'["acked"], S))
             = Cardinality(Tokens(falcon["acked"], S)) + One(x, S)
        /\ Cardinality(Tokens(falcon'["network"], S)) \in Nat
    BY <1>6, <1>7, <1>8, <2>2
  <2> QED
    BY <1>2, <2>2, <2>3 DEF HeldIn
<1>15. Accounted(rdma', pipeline', falcon')
  BY <1>1, <1>10, <1>14, CreditKept DEF Keeps, Frame
<1> QED
  BY <1>9, <1>10, <1>11, <1>12, <1>13, <1>15, IInvFromPartsNext

LEMMA DeliverPullDataKeeps ==
  ASSUME WorkIInv, NEW x \in Transactions, NEW now \in BOOLEAN, DeliverPullData(x, now)
  PROVE  WorkIInv'
<1>1. /\ SchedulerPart(rdma) /\ UlpPart(rdma, posted, arrived)
      /\ FalconPart(pipeline, falcon, finished) /\ UlpTypeOK
      /\ Accounted(rdma, pipeline, falcon) /\ Reserved(falcon, ulpTransactions)
      /\ PoolsBalanced(ulpCredits, ulpTransactions)
  BY IInvParts
<1> DEFINE f == Left(falcon, "acked", x)
<1>2. /\ falcon["acked"][x] > 0
      /\ rdma' = ReturnFalconCredit(rdma, x[1], "request", now)
      /\ UNCHANGED <<posted, arrived, pipeline, finished, ulpVars>>
  BY DEF DeliverPullData
<1>3. pipeline \in Seq(Transactions) /\ falcon \in FalconStates /\ rdma \in SchedulerStates
  BY <1>1 DEF FalconPart, SchedulerPart, Sched
<1>4. falcon' = Entered(f, "delivered", x)
  BY <1>3, StagesAre DEF DeliverPullData, Entered, Left, FalconStates
<1>5. /\ TypeOf(x) = "request" /\ "request" \in WorkTypes /\ x[1] \in Qps
  BY <1>1, <1>2, TwoTypes, KindsOfTransactions DEF TypeOf, IsRead, FalconPart
<1>6. /\ f \in FalconStates
      /\ \A w \in Stages \ {"acked"} : f[w] = falcon[w]
      /\ \A S \in SUBSET Transactions :
           Cardinality(Tokens(falcon["acked"], S)) = Cardinality(Tokens(f["acked"], S)) + One(x, S)
  <2>1. "acked" \in Stages /\ falcon["acked"][x] > 0
    BY <1>2, StagesAre
  <2> HIDE DEF f
  <2>2. f = Left(falcon, "acked", x)
    BY DEF f
  <2> QED
    BY <1>3, <2>1, <2>2, StageLeft
<1>7. \A y \in Transactions : f["acked"][y] > 0 => falcon["acked"][y] > 0
  <2>1. /\ falcon["acked"] \in [Transactions -> Nat]
        /\ f["acked"] = [falcon["acked"] EXCEPT ![x] = @ - 1]
    BY <1>3, StagesAre DEF Left, FalconStates
  <2> HIDE DEF f
  <2> QED
    BY <2>1
<1> HIDE DEF f
<1>8. falcon' \in FalconStates /\ \A w \in Stages \ {"delivered"} : falcon'[w] = f[w]
  BY SMTT(30), <1>4, <1>6, StagesAre, StageEntered
<1>9. falcon'["network"] = falcon["network"] /\ falcon'["acked"] = f["acked"]
  BY <1>6, <1>8, StagesAre
<1>10. /\ SchedulerPart(rdma') /\ rdma'.inbound = rdma.inbound
       /\ Returned(rdma, rdma', x[1], TypeOf(x))
  BY <1>1, <1>2, <1>5, ReturnedPart
<1>11. UlpPart(rdma', posted', arrived')
  BY <1>1, <1>2, <1>10 DEF UlpPart
<1>12. FalconPart(pipeline', falcon', finished')
  BY <1>1, <1>2, <1>8, <1>9, <1>7 DEF FalconPart
<1>13. /\ Reserved(falcon', ulpTransactions') /\ UlpTypeOK'
       /\ PoolsBalanced(ulpCredits', ulpTransactions')
  BY <1>1, <1>2, <1>9 DEF Reserved, ulpVars, UlpTypeOK
<1>14. HeldGrows(pipeline', falcon', pipeline, falcon, x)
  <2> SUFFICES ASSUME NEW S \in SUBSET Transactions
               PROVE  HeldIn(pipeline, falcon, S) = HeldIn(pipeline', falcon', S) + One(x, S)
    BY DEF HeldGrows
  <2>1. f["acked"] \in [Transactions -> Nat] /\ falcon["network"] \in [Transactions -> Nat]
    BY <1>3, <1>6, StagesAre DEF FalconStates
  <2>2. /\ Cardinality(Tokens(falcon["network"], S)) \in Nat
        /\ Cardinality(Tokens(f["acked"], S)) \in Nat
        /\ Cardinality(Places(pipeline, S)) \in Nat /\ One(x, S) \in Nat
    BY <1>3, <2>1, PlacesFinite, TokensFinite DEF One
  <2>3. Cardinality(Tokens(falcon["acked"], S)) = Cardinality(Tokens(f["acked"], S)) + One(x, S)
    BY <1>6
  <2> QED
    BY <1>2, <1>9, <2>2, <2>3 DEF HeldIn
<1>15. Accounted(rdma', pipeline', falcon')
  <2>1. pipeline' \in Seq(Transactions)
    BY <1>2, <1>3
  <2> QED
    BY <1>1, <1>3, <1>8, <1>10, <1>14, <2>1, CreditBack
<1> QED
  BY <1>10, <1>11, <1>12, <1>13, <1>15, IInvFromPartsNext

LEMMA CompleteKeeps ==
  ASSUME WorkIInv, NEW x \in Transactions, NEW now \in BOOLEAN, Complete(x, now)
  PROVE  WorkIInv'
<1>1. /\ SchedulerPart(rdma) /\ UlpPart(rdma, posted, arrived)
      /\ FalconPart(pipeline, falcon, finished) /\ UlpTypeOK
      /\ Accounted(rdma, pipeline, falcon) /\ Reserved(falcon, ulpTransactions)
      /\ PoolsBalanced(ulpCredits, ulpTransactions)
  BY IInvParts
<1> DEFINE t == TypeOf(x)
           r == ReturnFalconCredit(rdma, x[1], t, now)
<1>2. /\ falcon["network"][x] > 0 /\ finished' = [finished EXCEPT ![x] = @ + 1]
      /\ ReleaseUlpResources(t, 1)
      /\ rdma' = SetXoff(r, UlpXoff(ulpCredits'), now)
      /\ UNCHANGED <<posted, arrived, pipeline>>
  BY DEF Complete
<1>3. pipeline \in Seq(Transactions) /\ falcon \in FalconStates /\ rdma \in SchedulerStates
      /\ finished \in [Transactions -> Nat]
  BY <1>1 DEF FalconPart, SchedulerPart, Sched
<1>4. falcon' = Left(falcon, "network", x)
  BY DEF Complete, Left
<1>5. t \in WorkTypes /\ x[1] \in Qps
  BY KindsOfTransactions
<1>6. /\ falcon' \in FalconStates
      /\ \A w \in Stages \ {"network"} : falcon'[w] = falcon[w]
      /\ \A S \in SUBSET Transactions :
           Cardinality(Tokens(falcon["network"], S))
             = Cardinality(Tokens(falcon'["network"], S)) + One(x, S)
  <2>1. "network" \in Stages /\ falcon["network"][x] > 0
    BY <1>2, StagesAre
  <2> QED
    BY <1>3, <1>4, <2>1, StageLeft
<1>7. falcon'["acked"] = falcon["acked"]
  BY <1>6, StagesAre
<1>8. SchedulerPart(r) /\ r.inbound = rdma.inbound /\ Returned(rdma, r, x[1], t)
  <2> HIDE DEF t
  <2> QED
    BY <1>1, <1>5, ReturnedPart
<1>9. /\ UlpTypeOK' /\ PoolsBalanced(ulpCredits', ulpTransactions')
      /\ ulpTransactions'[t][1] = ulpTransactions[t][1] - 1
      /\ \A u \in WorkTypes \ {t} : ulpTransactions'[u] = ulpTransactions[u]
  <2> HIDE DEF t
  <2> QED
    BY <1>1, <1>2, <1>5, PoolsReleased DEF WorkTypes
<1> HIDE DEF r
<1>10. SchedulerPart(rdma') /\ Keeps(r, rdma')
  BY <1>2, <1>8, XoffPart
<1>11. rdma'.inbound = rdma.inbound /\ Returned(rdma, rdma', x[1], t)
  BY <1>8, <1>10 DEF Keeps, Frame, Returned
<1>12. UlpPart(rdma', posted', arrived')
  BY <1>1, <1>2, <1>11 DEF UlpPart
<1>13. FalconPart(pipeline', falcon', finished')
  <2>1. finished' \in [Transactions -> Nat]
    BY <1>2, <1>3
  <2> QED
    BY <1>1, <1>2, <1>6, <1>7, <2>1 DEF FalconPart
<1>14. Reserved(falcon', ulpTransactions')
  BY SMTT(30), <1>1, <1>3, <1>6, <1>9, ReservedLess
<1>15. HeldGrows(pipeline', falcon', pipeline, falcon, x)
  <2> SUFFICES ASSUME NEW S \in SUBSET Transactions
               PROVE  HeldIn(pipeline, falcon, S) = HeldIn(pipeline', falcon', S) + One(x, S)
    BY DEF HeldGrows
  <2>1. falcon'["network"] \in [Transactions -> Nat] /\ falcon["acked"] \in [Transactions -> Nat]
    BY <1>3, <1>6, StagesAre DEF FalconStates
  <2>2. /\ Cardinality(Tokens(falcon'["network"], S)) \in Nat
        /\ Cardinality(Tokens(falcon["acked"], S)) \in Nat
        /\ Cardinality(Places(pipeline, S)) \in Nat /\ One(x, S) \in Nat
    BY <1>3, <2>1, PlacesFinite, TokensFinite DEF One
  <2>3. Cardinality(Tokens(falcon["network"], S))
          = Cardinality(Tokens(falcon'["network"], S)) + One(x, S)
    BY <1>6
  <2> QED
    BY <1>2, <1>7, <2>2, <2>3 DEF HeldIn
<1>16. Accounted(rdma', pipeline', falcon')
  <2>1. pipeline' \in Seq(Transactions)
    BY <1>2, <1>3
  <2> QED
    BY <1>1, <1>3, <1>6, <1>11, <1>15, <2>1, CreditBack
<1> QED
  BY <1>9, <1>10, <1>12, <1>13, <1>14, <1>16, IInvFromPartsNext

LEMMA UnchangedKeeps ==
  ASSUME WorkIInv, UNCHANGED workVars
  PROVE  WorkIInv'
<1>1. /\ SchedulerPart(rdma) /\ UlpPart(rdma, posted, arrived)
  BY IInvParts
<1>2. UNCHANGED <<rdma, posted, arrived>> /\ UNCHANGED <<pipeline, falcon, finished, ulpVars>>
  BY DEF workVars
<1>3. SchedulerPart(rdma') /\ UlpPart(rdma', posted', arrived')
      /\ rdma'.usage = rdma.usage /\ rdma'.credits = rdma.credits
  BY <1>1, <1>2
<1> QED
  BY <1>2, <1>3, SchedulerOnly

LEMMA NextKeeps ==
  ASSUME WorkIInv, ~ResponseAtOrd, [WorkNext]_workVars
  PROVE  WorkIInv'
<1>1. ASSUME NEW now \in BOOLEAN, NEW q \in Qps, PostOp(q, now) \/ EnqueueReadResponse(q, now)
      PROVE  WorkIInv'
  BY <1>1, PostOpKeeps, EnqueueReadResponseKeeps
<1>2. CASE Event
  <2>1. ASSUME NEW now \in BOOLEAN, NEW q \in Qps, NEW t \in WorkTypes \cup {"current"},
               AddEvent(q, t, now)
        PROVE  WorkIInv'
    BY <2>1, AddEventKeeps
  <2>2. ASSUME NEW now \in BOOLEAN, NEW x \in OpIds, ProcessIncomingReadResponse(x, now)
        PROVE  WorkIInv'
    BY <2>2, ProcessIncomingReadResponseKeeps
  <2>3. ASSUME NEW now \in BOOLEAN, NEW x \in Transactions,
               AckPullRequest(x, now) \/ DeliverPullData(x, now) \/ Complete(x, now)
        PROVE  WorkIInv'
    BY <2>3, AckPullRequestKeeps, DeliverPullDataKeeps, CompleteKeeps
  <2>4. ASSUME NEW now \in BOOLEAN, InitiateTransaction(now) \/ SendTransaction(now)
        PROVE  WorkIInv'
    BY <2>4, InitiateTransactionKeeps, SendTransactionKeeps
  <2>5. CASE RunEvent
    BY <2>5, RunEventKeeps
  <2>6. ASSUME NEW q \in Qps, GapPasses(q) PROVE WorkIInv'
    BY <2>6, GapPassesKeeps
  <2> QED
    BY <1>2, <2>1, <2>2, <2>3, <2>4, <2>5, <2>6 DEF Event
<1>3. CASE UNCHANGED workVars
  BY <1>3, UnchangedKeeps
<1>4. CASE Quiescent
  BY <1>4, UnchangedKeeps DEF Quiescent
<1> QED
  BY <1>1, <1>2, <1>3, <1>4 DEF WorkNext
-----------------------------------------------------------------------------
(* The theorems. *)

LEMMA InitSound ==
  ASSUME WorkInit
  PROVE  WorkIInv
<1>1. /\ rdma.wqs = [t \in WorkTypes |-> <<>>] /\ rdma.active = [t \in WorkTypes |-> {}]
      /\ rdma.current = "request" /\ rdma.quanta = [t \in WorkTypes |-> 0]
      /\ rdma.phase = "idle" /\ rdma.xoff = [t \in WorkTypes |-> FALSE]
      /\ rdma.credits = RdmaCredits /\ rdma.usage = [q \in Qps |-> [t \in WorkTypes |-> 0]]
      /\ rdma.send = [q \in Qps |-> <<>>] /\ rdma.cut = [q \in Qps |-> 0]
      /\ rdma.inbound = [q \in Qps |-> 0] /\ rdma.reads = [q \in Qps |-> 0]
      /\ rdma.limited = {} /\ rdma.adds = {}
  BY DEF WorkInit
<1>2. RdmaCredits \in [WorkTypes -> Int]
  BY WorkAssumption
<1>3. rdma \in SchedulerStates
  BY <1>2, TwoTypes DEF WorkInit, SchedulerStates
<1>4. SchedulerPart(rdma)
  <2>1. \A t \in WorkTypes : Listed(rdma, t)
    <3>1. Members(<<>>) = {} /\ NoRepeats(<<>>)
      BY DEF Members, NoRepeats
    <3> QED
      BY <1>1, <3>1 DEF Listed
  <2>2. Sched(rdma)
    BY <1>1, <1>3, <2>1 DEF Sched, TurnComes
  <2>3. Awake(rdma)
    BY <1>1 DEF Awake, CanSend
  <2>4. NoneStranded(rdma)
    BY <1>1, TwoTypes DEF NoneStranded, HasCredits
  <2>5. SendTyped(rdma)
    BY <1>1 DEF SendTyped
  <2> QED
    BY <2>2, <2>3, <2>4, <2>5 DEF SchedulerPart
<1>5. UlpPart(rdma, posted, arrived)
  <2>1. \A q \in Qps : Len(Ops[q]) \in Nat /\ Inbound[q] \in Nat
    BY WorkAssumption
  <2>2. posted = [q \in Qps |-> 0] /\ arrived = [q \in Qps |-> 0]
    BY DEF WorkInit
  <2> QED
    BY <1>1, <2>1, <2>2 DEF UlpPart
<1>6. /\ pipeline = <<>> /\ falcon = [s \in Stages |-> [x \in Transactions |-> 0]]
      /\ finished = [x \in Transactions |-> 0]
  BY DEF WorkInit
<1>7. FalconPart(pipeline, falcon, finished)
  BY <1>6, StagesAre DEF FalconPart, FalconStates
<1>8. ASSUME NEW S \in SUBSET Transactions
      PROVE  /\ HeldIn(pipeline, falcon, S) = 0
             /\ Cardinality(Tokens(falcon["network"], S)) = 0
  <2>1. \A x \in S : falcon["network"][x] = 0 /\ falcon["acked"][x] = 0
    BY <1>6, StagesAre
  <2>2. Cardinality(Tokens(falcon["network"], S)) = 0 /\ Cardinality(Tokens(falcon["acked"], S)) = 0
    BY <2>1, NoTokens
  <2>3. Cardinality(Places(pipeline, S)) = 0
    <3>1. Places(pipeline, S) = {}
      BY <1>6 DEF Places
    <3> QED
      BY <3>1, FS_EmptySet
  <2> QED
    BY <2>2, <2>3 DEF HeldIn
<1>9. Accounted(rdma, pipeline, falcon)
  <2>1. \A t \in WorkTypes : RdmaCredits[t] \in Nat
    BY PoolTypes
  <2> QED
    BY <1>1, <1>8, <2>1, KindsOfTransactions DEF Accounted
<1>10. /\ ulpCredits = [p \in UlpPools |-> [requests |-> MaxUlpRequests[p], data |-> MaxUlpData[p]]]
       /\ ulpTransactions = [k \in Kinds |-> [s \in Sizes |-> 0]]
  BY DEF WorkInit, UlpInit
<1>11. \A t \in WorkTypes : ulpTransactions[t][1] = 0
  BY <1>10, PoolTypes DEF WorkTypes
<1>12. Reserved(falcon, ulpTransactions)
  BY <1>8, <1>11, KindsOfTransactions DEF Reserved
<1>13. UlpTypeOK /\ PoolsBalanced(ulpCredits, ulpTransactions)
  <2>1. \A p \in UlpPools : MaxUlpRequests[p] \in Nat /\ MaxUlpData[p] \in Nat
    BY PoolTypes
  <2>2. UlpTypeOK
    BY <1>10, <2>1 DEF UlpTypeOK
  <2>3. \A p \in UlpPools : /\ ulpCredits[p].requests = MaxUlpRequests[p]
                            /\ ulpCredits[p].data = MaxUlpData[p]
    BY <1>10
  <2> QED
    BY <1>11, <2>1, <2>2, <2>3, TwoTypes DEF PoolsBalanced, Balanced
<1> QED
  BY <1>4, <1>5, <1>7, <1>9, <1>12, <1>13, IInvFromParts

\* Every function of the work scheduler, every call that ends in it and every
\* step of Falcon keep the invariant: lists and marks, turns, credits, pools.
\* Queue pairs may read and answer reads; the one thing to lose it is a turn of a
\* response that finds its queue pair over the ORD limit (SendTransaction).
THEOREM Invariance == WorkSpec => []WorkIInv \/ <>ResponseAtOrd
<1>1. WorkInit => WorkIInv
  BY InitSound
<1>2. WorkIInv /\ ~ResponseAtOrd /\ [WorkNext]_workVars => WorkIInv'
  BY NextKeeps
<1> QED
  BY <1>1, <1>2, PTL DEF WorkSpec

\* No wakeup is lost: RunWorkScheduler goes idle only when nothing may be sent,
\* and a queue pair with work and credits is on its list, has an event that
\* puts it there, or has credits outstanding whose return looks at it again; at
\* least until a response's turn finds its queue pair over the ORD limit.
THEOREM NoWakeupLost == WorkSpec => []NoStrandedWork \/ <>ResponseAtOrd
<1>1. WorkIInv => NoStrandedWork
  BY DEF WorkIInv
<1> QED
  BY <1>1, Invariance, PTL

\* A list without repetitions is as long as the set of its members.
LEMMA LengthOfList ==
  ASSUME NEW w \in Seq(Qps), NoRepeats(w)
  PROVE  Len(w) = Cardinality(Members(w))
<1>1. Len(w) \in Nat /\ IsFiniteSet(1..Len(w)) /\ Cardinality(1..Len(w)) = Len(w)
  BY OneToN
<1> DEFINE f == [i \in 1..Len(w) |-> w[i]]
<1>2. f \in Bijection(1..Len(w), Members(w))
  <2>1. f \in [1..Len(w) -> Members(w)]
    BY DEF Members
  <2>2. f \in Injection(1..Len(w), Members(w))
    BY <2>1 DEF Injection, IsInjective, NoRepeats
  <2>3. f \in Surjection(1..Len(w), Members(w))
    BY <2>1 DEF Surjection, Members
  <2> QED
    BY <2>2, <2>3 DEF Bijection
<1>3. ExistsBijection(1..Len(w), Members(w))
  BY <1>2 DEF ExistsBijection
<1> QED
  BY <1>1, <1>3, FS_Bijection

\* A pool with fewer transactions than it was promised has a credit left.
LEMMA RoomLeft ==
  ASSUME NEW c \in [requests : Int, data : Int], NEW max \in Nat, NEW maxData \in Nat,
         NEW i \in Nat, NEW j \in Nat, Balanced(c, max, maxData, i, j), i <= max, j <= maxData
  PROVE  /\ i < max => UlpWithin("request", 1, c)
         /\ j < maxData => UlpWithin("response", 1, c)
<1>1. c.requests \in Int /\ c.data \in Int
  OBVIOUS
<1> QED
  BY <1>1 DEF Balanced, UlpWithin

LEMMA FalconRoom ==
  ASSUME WorkIInv
  PROVE  FalconHasRoom
<1>1. /\ FalconPart(pipeline, falcon, finished) /\ UlpTypeOK /\ SchedulerPart(rdma)
      /\ Accounted(rdma, pipeline, falcon) /\ Reserved(falcon, ulpTransactions)
      /\ PoolsBalanced(ulpCredits, ulpTransactions)
  BY IInvParts
<1> SUFFICES ASSUME pipeline # <<>>, NEW p \in UlpPools
             PROVE  UlpWithin(TypeOf(Head(pipeline)), 1, ulpCredits[p])
  BY DEF FalconHasRoom
<1> DEFINE t == TypeOf(Head(pipeline))
<1>2. /\ Head(pipeline) \in Transactions /\ ulpTransactions[t][1] < RdmaCredits[t]
      /\ t \in WorkTypes
  BY <1>1, RoomForHead, KindsOfTransactions DEF SchedulerPart, Sched
<1> HIDE DEF t
<1>3. \A u \in WorkTypes : ulpTransactions[u][1] \in Nat /\ ulpTransactions[u][1] <= RdmaCredits[u]
  <2> SUFFICES ASSUME NEW u \in WorkTypes
               PROVE  ulpTransactions[u][1] \in Nat /\ ulpTransactions[u][1] <= RdmaCredits[u]
    OBVIOUS
  <2>1. /\ rdma.credits[u] + HeldIn(pipeline, falcon, OfType(u)) = RdmaCredits[u]
        /\ rdma.credits[u] >= 0 /\ rdma.credits[u] \in Int
        /\ ulpTransactions[u][1] = Cardinality(Tokens(falcon["network"], OfType(u)))
    BY <1>1 DEF Accounted, Reserved, SchedulerPart, Sched, SchedulerStates
  <2>2. pipeline \in Seq(Transactions) /\ falcon \in FalconStates
        /\ OfType(u) \in SUBSET Transactions
    BY <1>1, KindsOfTransactions DEF FalconPart
  <2>3. /\ HeldIn(pipeline, falcon, OfType(u)) \in Nat
        /\ Cardinality(Places(pipeline, OfType(u))) \in Nat
        /\ Cardinality(Tokens(falcon["network"], OfType(u))) \in Nat
        /\ HeldIn(pipeline, falcon, OfType(u))
             >= Cardinality(Places(pipeline, OfType(u)))
                + Cardinality(Tokens(falcon["network"], OfType(u)))
    BY <2>2, HeldCounts
  <2> QED
    BY <2>1, <2>3
<1>4. /\ ulpCredits[p] \in [requests : Int, data : Int]
      /\ Balanced(ulpCredits[p], MaxUlpRequests[p], MaxUlpData[p],
                  ulpTransactions["request"][1], ulpTransactions["response"][1])
  BY <1>1 DEF UlpTypeOK, PoolsBalanced
<1>5. /\ RdmaCredits["request"] \in Nat /\ RdmaCredits["response"] \in Nat
      /\ MaxUlpRequests[p] \in Nat /\ MaxUlpData[p] \in Nat
      /\ RdmaCredits["request"] <= MaxUlpRequests[p] /\ RdmaCredits["response"] <= MaxUlpData[p]
  BY PoolTypes, TwoTypes
<1>6. UlpWithin(t, 1, ulpCredits[p])
  <2>1. /\ ulpTransactions["request"][1] \in Nat /\ ulpTransactions["response"][1] \in Nat
        /\ ulpTransactions["request"][1] <= RdmaCredits["request"]
        /\ ulpTransactions["response"][1] <= RdmaCredits["response"]
    BY <1>3, TwoTypes
  <2>2. /\ ulpTransactions["request"][1] <= MaxUlpRequests[p]
        /\ ulpTransactions["response"][1] <= MaxUlpData[p]
    BY <1>5, <2>1
  <2>3. /\ ulpTransactions["request"][1] < MaxUlpRequests[p]
             => UlpWithin("request", 1, ulpCredits[p])
        /\ ulpTransactions["response"][1] < MaxUlpData[p]
             => UlpWithin("response", 1, ulpCredits[p])
    BY <1>4, <1>5, <2>1, <2>2, RoomLeft
  <2>4. CASE t = "request"
    <3>1. ulpTransactions["request"][1] < MaxUlpRequests[p]
      BY <1>2, <1>5, <2>1, <2>4
    <3> QED
      BY <2>3, <2>4, <3>1
  <2>5. CASE t = "response"
    <3>1. ulpTransactions["response"][1] < MaxUlpData[p]
      BY <1>2, <1>5, <2>1, <2>5
    <3> QED
      BY <2>3, <2>5, <3>1
  <2> QED
    BY <1>2, <2>4, <2>5, TwoTypes
<1> QED
  BY <1>6 DEF t

\* What the scheduler counts on holds: request_qp_set_ and response_qp_set_ are
\* copies of the lists, and the LOG(FATAL) of InitiateTransaction, for which
\* Falcon has no room, is never reached with credits that fit Falcon's pools; at
\* least until a response's turn finds its queue pair over the ORD limit.
THEOREM SchedulerIsSound == WorkSpec => []SchedulerSound \/ <>ResponseAtOrd
<1>1. WorkIInv => ActiveSetsAgree
  <2> SUFFICES ASSUME WorkIInv, NEW t \in WorkTypes
               PROVE  /\ Members(rdma.wqs[t]) = rdma.active[t]
                      /\ Len(rdma.wqs[t]) = Cardinality(rdma.active[t])
    BY DEF ActiveSetsAgree
  <2>1. /\ Members(rdma.wqs[t]) = rdma.active[t] /\ NoRepeats(rdma.wqs[t])
        /\ rdma.wqs[t] \in Seq(Qps)
    BY DEF WorkIInv, Listed, WorkTypeOK, SchedulerStates
  <2> QED
    BY <2>1, LengthOfList
<1>2. WorkIInv => SchedulerSound
  BY <1>1, FalconRoom DEF SchedulerSound
<1> QED
  BY <1>2, Invariance, PTL
=============================================================================
