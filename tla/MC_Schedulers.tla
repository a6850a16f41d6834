---------------------------- MODULE MC_Schedulers ----------------------------
(***************************************************************************)
(* What decides who sends next.  The transmit side of Falcon on small      *)
(* instances: event-based with two workloads, polling with the plain and   *)
(* with the weighted policy; the rate update engine that sets its windows, *)
(* of a Gen1 connection; and the ports of a router under PFC.              *)
(* `focus' says which one a behaviour is about; the others rest.           *)
(***************************************************************************)
EXTENDS NetworkRouter, TLC

CONSTANTS
  Foci,       \* the instances that are explored
  Work,       \* the transactions of the event-based one, in RSN order per connection
  Limits,     \* its admission control
  MaxChanges

VARIABLES
  focus,
  s, started, failed, changes,                              \* the schedulers
  now, meta, acked, outstanding, lastEvent, events,         \* the engine
  responses, scheduled, callbacks, rue, everEvents, decreasedAt

scheduling == <<s, started, failed, changes>>
engine == <<now, meta, acked, outstanding, lastEvent, events, responses, scheduled,
            callbacks, rue, everEvents, decreasedAt>>
vars == <<focus, scheduling, engine, routerVars>>

Work1 == <<"solicited", "unsolicited">>
Work2 == <<"pulled", "granted">>

\* Values of Work: two data packets can be outstanding; two pulls compete for
\* admission with a phantom request.
GateWork == << <<"pull">>, Work1>>
AdmissionWork == << <<"pull", "pull", "unsolicited">>, Work1>>

Event == INSTANCE FalconTx WITH
  Conns <- {1, 2}, Ordered <- {1, 2}, Ops <- Work,
  Fast <- TRUE, Weighted <- TRUE,
  MaxCwnd <- 2, Ncwnd <- 1, Controls <- Limits, AdmissionWindow <- 1, Burst <- 1,
  Normalizer <- 1

\* Unsolicited data behind the request of another transaction.
Behind == INSTANCE FalconTx WITH
  Conns <- {1, 2}, Ordered <- {1, 2}, Ops <- << <<"pull", "unsolicited">>, <<"solicited">> >>,
  Fast <- TRUE, Weighted <- TRUE,
  MaxCwnd <- 2, Ncwnd <- 1, Controls <- Limits, AdmissionWindow <- 1, Burst <- 1,
  Normalizer <- 1

Polling == INSTANCE FalconTx WITH
  Conns <- {1, 2}, Ordered <- {1}, Ops <- <<Work1, Work2>>, Fast <- FALSE, Weighted <- FALSE,
  MaxCwnd <- 2, Ncwnd <- 1, Controls <- {"rx_window"}, AdmissionWindow <- 1, Burst <- 1,
  Normalizer <- 1

WeightedPolling == INSTANCE FalconTx WITH
  Conns <- {1, 2}, Ordered <- {1}, Ops <- <<Work1, <<"solicited">> >>, Fast <- FALSE,
  Weighted <- TRUE, MaxCwnd <- 2, Ncwnd <- 2, Controls <- {"rx_rate", "tx_rate"},
  AdmissionWindow <- 1, Burst <- 1, Normalizer <- 1

\* A packet is 4 units of a window in the datapath, 8 in the algorithm.
Parameters ==
  [min_fcwnd |-> 2, max_fcwnd |-> 16, min_ncwnd |-> 8, max_ncwnd |-> 16,
   fabric_ai |-> 8, nic_ai |-> 8, fabric_mdf |-> 80, max_fabric_md |-> 50,
   nic_mdf |-> 80, max_nic_md |-> 50, rtt_alpha |-> 50, delay_alpha |-> 0,
   topo_per_hop |-> 1, min_rto |-> 2, rto_scalar |-> 2, retransmit_limit |-> 2,
   randomize_path |-> TRUE, base_delay |-> 1, delay_select |-> "full",
   ipg_scalar |-> 100, max_decrease_on_drop |-> TRUE, target_level |-> 2,
   plb_multiplier |-> 100, plb_threshold |-> 50, plb_attempts |-> 1,
   calc_rtt_smooth |-> TRUE]

Scaling(w) == IF w >= 16 THEN 0 ELSE 1

\* A packet and its ACK that meet no queue, and ones that do.
Ways == {[out |-> 0, hold |-> 1, back |-> 0, hops |-> 0, level |-> 0],
         [out |-> 2, hold |-> 0, back |-> 1, hops |-> 1, level |-> 3]}

Engine == INSTANCE RateUpdateEngine WITH
  Gen2 <- FALSE, Flows <- {0}, One <- 4, Grain <- 2, TimeMod <- 64, MaxGap <- 15,
  MaxWeight <- 3, FlowScaling <- Scaling, P <- Parameters, Conns <- {1}, Paths <- Ways,
  Labels <- {1}, Threshold1 <- 1, Threshold2 <- 2, Threshold3 <- 2, QueueSize <- 3,
  TimeGap <- 2, AckCount <- 1, MaxReported <- 1, InitialFcwnd <- 8, InitialNcwnd <- 2,
  InitialRto <- 4, InitialRtt <- 2, MaxAcked <- 1, MaxEvents <- 3, MaxTime <- 4

ASSUME Event!QueuesAssumption /\ Behind!QueuesAssumption
       /\ Polling!QueuesAssumption /\ WeightedPolling!QueuesAssumption
       /\ Engine!EngineAssumption /\ RouterAssumption

Init ==
  /\ focus \in Foci
  /\ Engine!EngineInit /\ RouterInit
  /\ focus \in {"event", "engine", "router"} => Event!Init
  /\ focus = "behind" => Behind!Init
  /\ focus = "polling" => Polling!Init
  /\ focus = "weighted" => WeightedPolling!Init

Next ==
  /\ UNCHANGED focus
  /\ \/ /\ UNCHANGED <<engine, routerVars>>
        /\ \/ focus = "event" /\ Event!Next
           \/ focus = "behind" /\ Behind!Next
           \/ focus = "polling" /\ Polling!Next
           \/ focus = "weighted" /\ WeightedPolling!Next
     \/ focus = "engine" /\ Engine!EngineNext /\ UNCHANGED <<scheduling, routerVars>>
     \/ focus = "router" /\ RouterNext /\ UNCHANGED <<scheduling, engine>>

Spec == Init /\ [][Next]_vars

\* FalconTx: no CHECK of the event-based scheduler or of the arbiter fails.
NoCheckFails == Event!NoCheckFails

\* The round-robin policies know exactly the connections that may send.
PoliciesFresh ==
  /\ focus = "event" => Event!PoliciesFresh
  /\ focus = "behind" => Behind!PoliciesFresh
  /\ focus = "polling" => Polling!PoliciesFresh
  /\ focus = "weighted" => WeightedPolling!PoliciesFresh

\* The arbiter is awake while a scheduler has work it may send.
ArbiterAwake ==
  /\ focus = "event" => Event!ArbiterAwake
  /\ focus = "behind" => Behind!ArbiterAwake
  /\ focus = "polling" => Polling!ArbiterAwake
  /\ focus = "weighted" => WeightedPolling!ArbiterAwake

\* The schedulers' counters agree with their queues.
CountsMatchQueues ==
  /\ focus = "event" => Event!CountsMatchQueues
  /\ focus = "behind" => Behind!CountsMatchQueues
  /\ focus = "polling" => Polling!CountsMatchQueues
  /\ focus = "weighted" => WeightedPolling!CountsMatchQueues

\* On an ordered connection no data overtakes an earlier request.
OrderedDataFollowsRequests ==
  /\ focus = "event" => Event!OrderedDataFollowsRequests
  /\ focus = "behind" => Behind!OrderedDataFollowsRequests
  /\ focus = "polling" => Polling!OrderedDataFollowsRequests
  /\ focus = "weighted" => WeightedPolling!OrderedDataFollowsRequests

\* RateUpdateEngine with one path: a connection's window is lowered at most once
\* in a round trip.
OneDecreasePerRoundTrip == [][focus = "engine" => Engine!DecreaseIsDue]_engine
=============================================================================
