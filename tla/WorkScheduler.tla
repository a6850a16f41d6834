--------------------------- MODULE WorkScheduler ---------------------------
(***************************************************************************)
(* The RDMA work scheduler and the credits it shares with Falcon: queue    *)
(* pairs with requests and read responses to send, round robin under       *)
(* quanta, the limits on credits and outstanding reads (ORD), XOFF, the    *)
(* pipeline into Falcon, and the credits on their way back.                *)
(*                                                                         *)
(* Source: host/rdma/rdma_falcon_work_scheduler.cc, host/rdma/             *)
(* rdma_falcon_model.cc (PostOp, credits, read responses), InitiateTransaction *)
(* of host/falcon/falcon_model.cc; Falcon's side is ResourceCredits.       *)
(*                                                                         *)
(* A credit stands for the packet and buffer credits of one transaction of *)
(* a work type.  The scheduler's state is one record, so that a handler    *)
(* that calls others is a composition of functions on it.  `now' says      *)
(* whether the scheduler may run at once: chip cycle and token bucket.     *)
(***************************************************************************)
EXTENDS ResourceCredits, Sequences, FiniteSets

CONSTANTS
  Qps,          \* queue pairs
  Ops,          \* Ops[q]: sequence of [kind, packets] the ULP posts
  Inbound,      \* Inbound[q]: read requests that arrive for q
  RdmaCredits,  \* RdmaCredits[t]: global_credits of work type t
  QpCredits,    \* QpCredits[t]: per_qp_credits
  XoffLimit,    \* XoffLimit[t]: ulp_xoff_thresholds
  Quanta,       \* kMaxOpsPerQuanta
  Ord           \* outbound_read_queue_depth

WorkTypes == Kinds
Other(t) == IF t = "request" THEN "response" ELSE "request"

\* The credits promised to RDMA are there, and XOFF is not permanent.
ASSUME CreditAssumption ==
  /\ Sizes = {1} /\ Quanta \in Nat \ {0} /\ Ord \in Nat \ {0}
  /\ \A p \in UlpPools : /\ RdmaCredits.request <= MaxUlpRequests[p]
                         /\ RdmaCredits.response <= MaxUlpData[p]
                         /\ XoffLimit.request <= MaxUlpRequests[p]
                         /\ XoffLimit.response <= MaxUlpRequests[p] + MaxUlpData[p]
  /\ \A t \in WorkTypes : QpCredits[t] \in Nat \ {0} /\ RdmaCredits[t] \in Nat \ {0}

ASSUME WorkAssumption ==
  /\ IsFiniteSet(Qps)
  /\ Ops \in [Qps -> Seq([kind : {"read", "write"}, packets : Nat \ {0}])]
  /\ Inbound \in [Qps -> Nat] /\ RdmaCredits \in [WorkTypes -> Nat]

VARIABLES
  rdma,      \* scheduler and queue pairs, see Init
  posted,    \* posted[q]: ops posted so far
  arrived,   \* arrived[q]: inbound read requests so far
  pipeline,  \* transactions on their way into Falcon
  falcon,    \* falcon[s][x]: transactions x at stage s beyond it
  finished   \* finished[x]: n_pkt_finished of op x; responses acknowledged

workVars == <<rdma, posted, arrived, pipeline, falcon, finished, ulpVars>>

\* A transaction is named by its op, <<q, i>>; all responses of q are <<q, 0>>.
OpIds == UNION {{q} \X (1..Len(Ops[q])) : q \in Qps}
Transactions == OpIds \cup (Qps \X {0})
Op(x) == Ops[x[1]][x[2]]
TypeOf(x) == IF x[2] = 0 THEN "response" ELSE "request"
IsRead(x) == x[2] # 0 /\ Op(x).kind = "read"
Stages == {"network", "acked", "delivered"}

WorkInit ==
  /\ rdma = [wqs      |-> [t \in WorkTypes |-> <<>>],  \* request_wqs_, response_wqs_
             active   |-> [t \in WorkTypes |-> {}],    \* request_qp_set_, response_qp_set_
             current  |-> "request",                   \* current_work_type_
             quanta   |-> [t \in WorkTypes |-> 0],     \* remaining_quanta_
             phase    |-> "idle",                      \* idle, run or lookup pending
             xoff     |-> [t \in WorkTypes |-> FALSE], \* request_xoff_, global_xoff_
             credits  |-> RdmaCredits,                 \* remaining_global_credits_
             usage    |-> [q \in Qps |-> [t \in WorkTypes |-> 0]],
             send     |-> [q \in Qps |-> <<>>],        \* send_queue
             cut      |-> [q \in Qps |-> 0],           \* packets cut from its head
             inbound  |-> [q \in Qps |-> 0],           \* inbound_read_request_queue
             reads    |-> [q \in Qps |-> 0],           \* outbound_read_requests
             limited  |-> {},                          \* next_schedule_time in the future
             adds     |-> {}]                          \* AddQpToScheduleSet events
  /\ posted = [q \in Qps |-> 0] /\ arrived = [q \in Qps |-> 0]
  /\ pipeline = <<>>
  /\ falcon = [s \in Stages |-> [x \in Transactions |-> 0]]
  /\ finished = [x \in Transactions |-> 0]
  /\ UlpInit
-----------------------------------------------------------------------------
(* The scheduler, as functions of its state r. *)

HasCredits(r, q, t) ==
  /\ IF t = "request" THEN r.send[q] # <<>> ELSE r.inbound[q] > 0
  /\ r.usage[q][t] < QpCredits[t]

\* A plausible bug: the scheduler relies on XOFF alone.
CanSendUnlessXoff(r, t) ==
  /\ r.wqs[t] # <<>>
  /\ ~r.xoff["response"] /\ (t = "request" => ~r.xoff["request"])

\* CanSendRequest, CanSendResponse.
CanSend(r, t) ==
  /\ r.wqs[t] # <<>>
  /\ ~r.xoff["response"] /\ (t = "request" => ~r.xoff["request"])
  /\ r.credits[t] > 0

\* Picks the work type; SendTransaction follows after the QP lookup.
RunWorkScheduler(r, now) ==
  IF ~now THEN [r EXCEPT !.phase = "run"]
  ELSE IF ~\E t \in WorkTypes : CanSend(r, t) THEN [r EXCEPT !.phase = "idle"]
  ELSE LET t == IF CanSend(r, r.current) THEN r.current ELSE Other(r.current)
       IN [r EXCEPT !.phase = "lookup", !.current = t,
                    !.quanta[t] = IF @ = 0 THEN Quanta ELSE @]

RunIfIdle(r, now) == IF r.phase = "idle" THEN RunWorkScheduler(r, now) ELSE r

AddQpToScheduleSet(r, q, t, now) ==
  IF q \in r.limited THEN [r EXCEPT !.adds = @ \cup {<<q, t>>}]
  ELSE IF ~HasCredits(r, q, t) \/ q \in r.active[t] THEN r
  ELSE RunIfIdle([r EXCEPT !.wqs[t] = Append(@, q), !.active[t] = @ \cup {q}], now)

\* SetXoff, which Falcon calls only when the status has changed.
SetXoff(r, xoff, now) ==
  IF xoff = r.xoff THEN r ELSE RunIfIdle([r EXCEPT !.xoff = xoff], now)

\* A plausible bug: a queue pair is not looked at again when credits return.
ReturnFalconCreditQuietly(r, q, t, now) ==
  RunIfIdle([r EXCEPT !.usage[q][t] = @ - 1, !.credits[t] = @ + 1], now)

\* ReturnFalconCredit of the RDMA model and ReturnFalconCredits of the scheduler.
ReturnFalconCredit(r, q, t, now) ==
  LET returned == [r EXCEPT !.usage[q][t] = @ - 1]
      request  == IF HasCredits(returned, q, "request")
                  THEN AddQpToScheduleSet(returned, q, "request", now) ELSE returned
      response == IF HasCredits(request, q, "response")
                  THEN AddQpToScheduleSet(request, q, "response", now) ELSE request
  IN RunIfIdle([response EXCEPT !.credits[t] = @ + 1], now)

UpdateWorkType(r) ==
  IF CanSend(r, Other(r.current)) THEN [r EXCEPT !.current = Other(@)] ELSE r

\* CreateRequestPacket, CreateResponsePacket and the credits they take.
Created(r, q, t) ==
  LET x    == <<q, Head(r.send[q])>>
      last == r.cut[q] + 1 = Op(x).packets
      spent == [r EXCEPT !.usage[q][t] = @ + 1, !.credits[t] = @ - 1,
                         !.limited = @ \cup {q}]
  IN IF t = "response" THEN [spent EXCEPT !.inbound[q] = @ - 1]
     ELSE [spent EXCEPT !.send[q] = IF last THEN Tail(@) ELSE @,
                        !.cut[q] = IF last THEN 0 ELSE @ + 1,
                        !.reads[q] = IF IsRead(x) THEN @ + 1 ELSE @]

\* The head of the send queue is a read and the ORD limit is reached.
OverOrd(r, q) ==
  r.reads[q] >= Ord /\ r.send[q] # <<>> /\ IsRead(<<q, Head(r.send[q])>>)

\* The ORD branch takes the front off request_wqs_, whatever the work type;
\* with nothing there the deque is in an undefined state.
RemoveOverOrd(r, q) ==
  IF r.wqs["request"] = <<>> THEN [r EXCEPT !.phase = "undefined"]
  ELSE UpdateWorkType([r EXCEPT !.wqs["request"] = Tail(@), !.active["request"] = @ \ {q},
                                !.quanta[r.current] = 0, !.phase = "run"])

\* A plausible bug: the turn ends without clearing the queue pair's mark.
EndTurnKeepsMark(r, q) ==
  LET t == r.current
  IN UpdateWorkType(
       [r EXCEPT !.wqs[t] = Tail(@), !.quanta[t] = 0, !.phase = "run",
                 !.adds = IF HasCredits(r, q, t) THEN @ \cup {<<q, "current">>} ELSE @])

\* The end of a turn: out of credits or quanta.  The event that adds the queue
\* pair again takes the work type that is current when it runs.
EndTurn(r, q) ==
  LET t == r.current
  IN UpdateWorkType(
       [r EXCEPT !.wqs[t] = Tail(@), !.active[t] = @ \ {q}, !.quanta[t] = 0, !.phase = "run",
                 !.adds = IF HasCredits(r, q, t) THEN @ \cup {<<q, "current">>} ELSE @])

\* SendTransaction; bytesLeft: the byte quantum is not used up by this packet.
Sent(r, q, bytesLeft) ==
  LET t == r.current
      s == Created(r, q, t)
      used == [s EXCEPT !.quanta[t] = IF bytesLeft THEN @ - 1 ELSE 0]
  IN IF OverOrd(used, q) THEN RemoveOverOrd(used, q)
     ELSE IF used.quanta[t] > 0 /\ HasCredits(used, q, t) THEN [used EXCEPT !.phase = "run"]
     ELSE EndTurn(used, q)
-----------------------------------------------------------------------------
(* The ULP. *)

PostOp(q, now) ==
  /\ posted[q] < Len(Ops[q])
  /\ posted' = [posted EXCEPT ![q] = @ + 1]
  /\ LET r == [rdma EXCEPT !.send[q] = Append(@, posted'[q])]
     IN rdma' = IF Len(r.send[q]) = 1 /\ HasCredits(r, q, "request")
                THEN AddQpToScheduleSet(r, q, "request", now) ELSE r
  /\ UNCHANGED <<arrived, pipeline, falcon, finished, ulpVars>>

\* The end of ProcessIncomingReadRequest: the response is ready to be sent.
EnqueueReadResponse(q, now) ==
  /\ arrived[q] < Inbound[q]
  /\ arrived' = [arrived EXCEPT ![q] = @ + 1]
  /\ LET r == [rdma EXCEPT !.inbound[q] = @ + 1]
     IN rdma' = IF r.inbound[q] = 1 /\ HasCredits(r, q, "response")
                THEN AddQpToScheduleSet(r, q, "response", now) ELSE r
  /\ UNCHANGED <<posted, pipeline, falcon, finished, ulpVars>>

\* Only the last response of an op lowers the count of outstanding reads.
ProcessIncomingReadResponse(x, now) ==
  /\ falcon["delivered"][x] > 0
  /\ falcon' = [falcon EXCEPT !["delivered"][x] = @ - 1]
  /\ finished' = [finished EXCEPT ![x] = @ + 1]
  /\ LET q == x[1]
         r == [rdma EXCEPT !.reads[q] = @ - 1]
     IN rdma' = IF finished'[x] < Op(x).packets THEN rdma
                ELSE IF r.reads[q] < Ord /\ r.send[q] # <<>> /\ IsRead(<<q, Head(r.send[q])>>)
                THEN AddQpToScheduleSet(r, q, "request", now) ELSE r
  /\ UNCHANGED <<posted, arrived, pipeline, ulpVars>>
-----------------------------------------------------------------------------
(* Events of the scheduler. *)

RunEvent ==
  /\ rdma.phase = "run"
  /\ rdma' = RunWorkScheduler(rdma, TRUE)
  /\ UNCHANGED <<posted, arrived, pipeline, falcon, finished, ulpVars>>

SendTransaction(bytesLeft) ==
  /\ rdma.phase = "lookup"
  /\ LET t == rdma.current
         q == Head(rdma.wqs[t])
     IN /\ pipeline' = Append(pipeline, <<q, IF t = "request" THEN Head(rdma.send[q]) ELSE 0>>)
        /\ rdma' = Sent(rdma, q, bytesLeft)
  /\ UNCHANGED <<posted, arrived, falcon, finished, ulpVars>>

\* The gap between two ops of a queue pair has passed.  An event that adds it
\* before that reschedules itself, and a second one adds nothing more.
GapPasses(q) ==
  /\ q \in rdma.limited
  /\ rdma' = [rdma EXCEPT !.limited = @ \ {q}]
  /\ UNCHANGED <<posted, arrived, pipeline, falcon, finished, ulpVars>>

AddEvent(q, t, now) ==
  /\ <<q, t>> \in rdma.adds /\ q \notin rdma.limited
  /\ rdma' = AddQpToScheduleSet([rdma EXCEPT !.adds = @ \ {<<q, t>>}], q,
                                IF t = "current" THEN rdma.current ELSE t, now)
  /\ UNCHANGED <<posted, arrived, pipeline, falcon, finished, ulpVars>>
-----------------------------------------------------------------------------
(* Falcon. *)

\* CheckUlpRequestXoff on credits c.
UlpXoff(c) ==
  [t \in WorkTypes |-> \E p \in UlpPools : ~UlpWithin(t, XoffLimit[t], c[p])]

InitiateTransaction(now) ==
  /\ pipeline # <<>>
  /\ pipeline' = Tail(pipeline)
  /\ ReserveUlpResources(TypeOf(Head(pipeline)), 1)
  /\ falcon' = [falcon EXCEPT !["network"][Head(pipeline)] = @ + 1]
  /\ rdma' = SetXoff(rdma, UlpXoff(ulpCredits'), now)
  /\ UNCHANGED <<posted, arrived, finished>>

\* The ACK of a pull request releases Falcon's credits, RDMA waits for the data.
AckPullRequest(x, now) ==
  /\ IsRead(x) /\ falcon["network"][x] > 0
  /\ falcon' = [falcon EXCEPT !["network"][x] = @ - 1, !["acked"][x] = @ + 1]
  /\ ReleaseUlpResources("request", 1)
  /\ rdma' = SetXoff(rdma, UlpXoff(ulpCredits'), now)
  /\ UNCHANGED <<posted, arrived, pipeline, finished>>

\* Pull data is handed to RDMA and the credits of the read are returned.
DeliverPullData(x, now) ==
  /\ falcon["acked"][x] > 0
  /\ falcon' = [falcon EXCEPT !["acked"][x] = @ - 1, !["delivered"][x] = @ + 1]
  /\ rdma' = ReturnFalconCredit(rdma, x[1], "request", now)
  /\ UNCHANGED <<posted, arrived, pipeline, finished, ulpVars>>

\* A write or a response is complete: both sides' credits are returned.
Complete(x, now) ==
  /\ ~IsRead(x) /\ falcon["network"][x] > 0
  /\ falcon' = [falcon EXCEPT !["network"][x] = @ - 1]
  /\ finished' = [finished EXCEPT ![x] = @ + 1]
  /\ ReleaseUlpResources(TypeOf(x), 1)
  /\ rdma' = SetXoff(ReturnFalconCredit(rdma, x[1], TypeOf(x), now), UlpXoff(ulpCredits'), now)
  /\ UNCHANGED <<posted, arrived, pipeline>>

\* Everything is posted and no event is left.
Quiescent ==
  /\ \A q \in Qps : posted[q] = Len(Ops[q]) /\ arrived[q] = Inbound[q]
  /\ pipeline = <<>> /\ \A s \in Stages, x \in Transactions : falcon[s][x] = 0
  /\ rdma.phase \in {"idle", "undefined"} /\ rdma.limited = {} /\ rdma.adds = {}
  /\ UNCHANGED workVars

\* What happens without the ULP posting more: an event of the simulation.
Event ==
  \/ \E now \in BOOLEAN :
       \/ \E q \in Qps, t \in WorkTypes \cup {"current"} : AddEvent(q, t, now)
       \/ \E x \in OpIds : ProcessIncomingReadResponse(x, now)
       \/ \E x \in Transactions :
            AckPullRequest(x, now) \/ DeliverPullData(x, now) \/ Complete(x, now)
       \/ InitiateTransaction(now)
       \/ SendTransaction(now)
  \/ RunEvent
  \/ \E q \in Qps : GapPasses(q)

WorkNext ==
  \/ \E now \in BOOLEAN, q \in Qps : PostOp(q, now) \/ EnqueueReadResponse(q, now)
  \/ Event
  \/ Quiescent

WorkSpec == WorkInit /\ [][WorkNext]_workVars

\* The simulation runs while it has events; the network completes what Falcon
\* has accepted.
WorkFairness == WF_workVars(Event)

FairWorkSpec == WorkSpec /\ WorkFairness
-----------------------------------------------------------------------------
(* Properties. *)

Members(w) == {w[i] : i \in 1..Len(w)}

\* rdma_falcon_work_scheduler.h: the sets are a redundant copy of the lists, so
\* a queue pair marked as scheduled has its turn coming, and only one.
ActiveSetsAgree ==
  \A t \in WorkTypes : /\ Members(rdma.wqs[t]) = rdma.active[t]
                        /\ Len(rdma.wqs[t]) = Cardinality(rdma.active[t])

\* No wakeup is lost: an idle scheduler has nothing it may send, and a queue
\* pair with work and credits is scheduled, about to be, or has credits
\* outstanding whose return will schedule it.
NoStrandedWork ==
  /\ rdma.phase = "idle" => \A t \in WorkTypes : ~CanSend(rdma, t)
  /\ \A q \in Qps, t \in WorkTypes :
       HasCredits(rdma, q, t) =>
         \/ q \in rdma.active[t] \/ <<q, t>> \in rdma.adds
         \/ \E u \in WorkTypes : rdma.usage[q][u] > 0

\* The LOG(FATAL) of InitiateTransaction: whatever is still in the pipeline
\* when XOFF comes finds the credits RDMA counted on, although Falcon's
\* oversubscribed pools are returned to in another order than RDMA's.
FalconHasRoom ==
  pipeline # <<>> =>
    \A p \in UlpPools : UlpWithin(TypeOf(Head(pipeline)), 1, ulpCredits[p])

\* What the scheduler counts on is true: its sets and lists of queue pairs agree,
\* and Falcon has room for whatever is in the pipeline.
SchedulerSound == ActiveSetsAgree /\ FalconHasRoom

\* Every posted op is finally complete.  Ops are only ever added and packets of
\* an op only ever finished, so it is enough that again and again all that has
\* been posted is complete.
EveryOpCompletes ==
  []<>(\A x \in OpIds : posted[x[1]] >= x[2] => finished[x] = Op(x).packets)
-----------------------------------------------------------------------------
(* The inductive invariant. *)

\* The turn of a response of a queue pair whose next op is a read over the ORD
\* limit: it will end in the ORD branch, at the front of request_wqs_ (see
\* RemoveOverOrd).  The invariant is good up to the first such turn.
ResponseAtOrd ==
  /\ rdma.phase = "lookup" /\ rdma.current = "response"
  /\ OverOrd(rdma, Head(rdma.wqs["response"]))

SchedulerStates ==
  [wqs : [WorkTypes -> Seq(Qps)], active : [WorkTypes -> SUBSET Qps],
   current : WorkTypes, quanta : [WorkTypes -> Int],
   phase : {"idle", "run", "lookup"}, xoff : [WorkTypes -> BOOLEAN],
   credits : [WorkTypes -> Int], usage : [Qps -> [WorkTypes -> Int]],
   send : [Qps -> Seq(Nat)], cut : [Qps -> Int], inbound : [Qps -> Int],
   reads : [Qps -> Int], limited : SUBSET Qps,
   adds : SUBSET (Qps \X (WorkTypes \cup {"current"}))]

WorkTypeOK ==
  /\ rdma \in SchedulerStates
  /\ \A q \in Qps : \A i \in 1..Len(rdma.send[q]) : rdma.send[q][i] \in 1..Len(Ops[q])
  /\ posted \in [Qps -> Nat] /\ arrived \in [Qps -> Nat]
  /\ \A q \in Qps : posted[q] <= Len(Ops[q]) /\ arrived[q] <= Inbound[q]
                    /\ rdma.inbound[q] <= arrived[q]
  /\ pipeline \in Seq(Transactions)
  /\ falcon \in [Stages -> [Transactions -> Nat]]
  /\ \A x \in Transactions : falcon["acked"][x] > 0 => IsRead(x)
  /\ finished \in [Transactions -> Nat]
  /\ UlpTypeOK

NoRepeats(w) == \A i, j \in 1..Len(w) : w[i] = w[j] => i = j

\* The list of a work type holds the queue pairs marked as scheduled, each once,
\* and these have work and credits.
Listed(r, t) ==
  /\ Members(r.wqs[t]) = r.active[t] /\ NoRepeats(r.wqs[t])
  /\ \A q \in r.active[t] : HasCredits(r, q, t)

\* The queue pair that is looked up is there when its turn comes.
TurnComes(r) == r.phase = "lookup" => r.wqs[r.current] # <<>> /\ r.credits[r.current] > 0

Awake(r) == r.phase = "idle" => \A t \in WorkTypes : ~CanSend(r, t)

\* Transactions of S, counted one by one: at a stage beyond the pipeline, in
\* the pipeline, and where they hold credits of RDMA.
At(s, S) == Cardinality(UNION {{x} \X (1..falcon[s][x]) : x \in S})
InPipeline(S) == Cardinality({i \in 1..Len(pipeline) : pipeline[i] \in S})
Held(S) == InPipeline(S) + At("network", S) + At("acked", S)
OfType(t) == {x \in Transactions : TypeOf(x) = t}
OfQp(q, t) == {x \in OfType(t) : x[1] = q}

\* Every credit RDMA has spent is held by a transaction, and so is every
\* credit Falcon has reserved.
CreditsHeld ==
  /\ \A t \in WorkTypes : /\ rdma.credits[t] + Held(OfType(t)) = RdmaCredits[t]
                           /\ rdma.credits[t] >= 0
                           /\ ulpTransactions[t][1] = At("network", OfType(t))
  /\ \A q \in Qps, t \in WorkTypes : rdma.usage[q][t] = Held(OfQp(q, t))

\* A response returns to ulp_requests what it did not take from there, never
\* the other way round: requests keep what they were promised.
PoolsBalance ==
  \A p \in UlpPools :
    /\ ulpCredits[p].requests + ulpCredits[p].data
         + ulpTransactions["request"][1] + ulpTransactions["response"][1]
         = MaxUlpRequests[p] + MaxUlpData[p]
    /\ ulpCredits[p].requests + ulpTransactions["request"][1] >= MaxUlpRequests[p]
    /\ ulpCredits[p].data >= 0

WorkIInv ==
  /\ WorkTypeOK
  /\ \A t \in WorkTypes : Listed(rdma, t)
  /\ TurnComes(rdma) /\ Awake(rdma) /\ NoStrandedWork
  /\ CreditsHeld /\ PoolsBalance
=============================================================================
