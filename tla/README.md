# Isekai / Falcon: TLA+ models, checks and proofs

Isekai is a discrete-event network simulator whose centre is a model of the
Falcon transport: a NIC protocol that carries RDMA operations over a lossy,
reordering network with selective acknowledgement, hardware resource pools and
congestion control. The simulator is single-threaded. Its concurrency is that
of its event queue: every timer, scheduler cycle, packet arrival and ULP answer
is an event, events cannot be cancelled, and between two events of one
component any others may run. That interleaving, together with loss,
duplication and reordering in the network, is what the modules explore.

All paths below are relative to `src/isekai/`.

## Inventory

| Component | State | Operations | Hard behaviour | Correct when |
|---|---|---|---|---|
| Packet reliability manager (`host/falcon/falcon_protocol_packet_reliability_manager.cc`) | TX and RX window per packet class: base and next PSN, bitmaps, outstanding packets and contexts, counters, timers | transmit, receive, ACK / EACK / NACK / piggyback / implicit ACK, RTO, TLP, RACK, ULP ACK and NACK | loss, copies, reordering; stale ACKs; stale timers; PSN wrap | each packet admitted once, completed only after the receiver acknowledged it, never forgotten |
| ACK coalescing engine (`..._ack_coalescing_engine.cc`) | counter, timer, implicit count, drop flag per entry | piggyback, explicit ACK, NACK, timeout | stale timers, reset by piggyback | an owed ACK always has a timer and is sent in time |
| Buffer reorder engine (`..._buffer_reorder_engine.cc`) | next RSN/SSN and buffers at initiator and target, RNR state | insert, deliver, RNR rewind, retry, ULP ACK | requests in flight while delivery is rewound | the ULP sees RSN order; nothing is left behind |
| Resource manager (`..._resource_manager.cc`, `falcon_resource_credits.cc`) | global credits, per-connection use, XOFF | reserve, release, zone admission | connections block each other; release in any order | credits balance; head of line is always admitted in the end |
| Falcon model, transaction state (`falcon_model.cc`, `falcon_connection_state.cc`) | transactions with their stage | initiate, receive, reorder callback, ULP ACK/NACK | stages advanced by network and ULP independently | the CHECKs of UpdateState hold |
| RDMA over Falcon (`host/rdma/rdma_falcon_model.cc`) | queue pairs: next RSN, RNR, read queue | process incoming send / write / read, completion | out-of-order arrival during RNR | no fatal out-of-order RSN |
| RDMA work scheduler (`host/rdma/rdma_falcon_work_scheduler.cc`) | active QPs, credits, XOFF | schedule, send, return credits | operations in the pipeline when XOFF comes | Falcon never gets more than it has room for |
| Inter-host RX scheduler, host RX buffers, memory interface | queues, XOFF, PCIe queue per host | enqueue, schedule, push, wake up | lost wakeups, overtaking | order per host, no packet stuck |
| Connection and retransmission schedulers, arbiter, traffic shaper | queues per type and connection, cached eligibility, round-robin state | enqueue, recompute eligibility, pick, send, XOFF | gates that open and close while work is queued; phantom requests of ordered connections | whoever may send is known to the policies; the arbiter never sleeps on work |
| Admission control manager | admitted bytes, token buckets | reserve, refund, refill | refund order | conservation |
| Rate update engine, RUE (`rue/algorithm/swift.h`) | outstanding event per connection or flow, mailbox, windows and time markers | event, processing, response | responses late, snapshots stale when applied | one event of a key in flight, windows add up, one decrease per round trip |
| Gen2 / Gen3 | flow labels and weights, per-flow congestion state, DRAM buffers, bundles | multipath, repathing, batch scheduling | out-of-order across paths | as Gen1 per flow |
| Fabric (`fabric/`) | shared buffer cells, PFC state, ports, routing tables | receive, route, enqueue, dequeue, pause, resume | counters shared by ports; a pause that nobody ends | cells balance; a paused peer is released; no port sleeps on a packet |
| RoCE, DCQCN (`host/rdma/rdma_roce_model.cc`, `rdma_roce_cc_dcqcn.cc`) | PSN registers, send queue and next op, read queue, timers, rate | send, ACK, NAK, read response, RTO, PFC; CNP, alpha, increase, decrease | go-back-N while answers are on their way; timers that cannot be cancelled | ops complete in order after the target took them; the rate recovers |
| Traffic generator, connection manager, packet builder, statistics, configuration | | | | |

How they interact: RDMA posts an operation to Falcon (`InitiateTransaction`),
which reserves resources and queues it at the connection scheduler; the
reliability manager assigns PSNs and sends; the peer's reliability manager
admits the packet if its window and its resource manager allow, the reorder
engine restores RSN order, the inter-host scheduler hands it to RDMA, and
RDMA's answer (`AckTransaction`) comes back through the transaction state, the
reliability manager (which acknowledges push data only now) and the reorder
engine.

`PROJECT.json` lists all components with their status, and the hazards with
the line where each bites and the properties that would catch it.

## Modules

| Module | Models | State and actions |
|---|---|---|
| `SlidingWindow` | one TX window, the paired RX window, the network | registers and bitmaps as PSNs and sets of PSNs; one action per handler (`TransmitNew`, `Retransmit`, `HandleRetransmitTimeout`, `HandleACK`, `HandleNack`, `AcceptPacket`, ...); `net` holds packets that may be lost, copied and reordered |
| `ReliableChannel` | the abstract promise of a window pair | `Send`, `Admit`, `Acknowledge`, `Complete` |
| `Windows_proofs` | proofs about `SlidingWindow` and `RetransmitTimer` | |
| `SharedAcks` | both windows of a direction and the ACK packets they share | justifies looking at one window at a time |
| `SerialNumbers` | registers modulo 2^32 and bitmap indices | registers of width `2*Half` next to history variables with the true PSNs |
| `RequestCounters` | ORC and ORRC with their gates | unsigned counters modulo `Modulus`; a solicited write is followed into its data packet |
| `AckCoalescing` | one coalescing entry with a clock | events that cannot be cancelled are a set of times |
| `Registers_proofs` | proofs about the three modules above | |
| `RetransmitTimer` | RTO, RACK, RNR delay and TLP of a connection, with a clock | as above; one timer for the packets of both windows |
| `ReceiverNotReady` | target reorder engine, RX queue, queue pair, ULP answers | retry times abstracted to new / in flight / waiting / due |
| `NetworkAdmission` | admission zones, profiles and network-request credits of competing ordered connections | a request moves wire -> held -> granted -> arrived -> ulp -> done |
| `ResourceCredits` | arithmetic of the oversubscribed ULP pools | reserve and release of requests and responses in any order |
| `ResourceManager`, `ResourceManager_proofs` | the two composed | the ULP's response to an admitted and acknowledged pull request takes TX credits, in competition with its own requests |
| `WorkScheduler`, `WorkScheduler_proofs` (+ `MC_`) | RDMA work scheduler and queue pairs, the pipeline into Falcon, XOFF and the credits on their way back; composes `ResourceCredits` | the scheduler is one record and its functions call each other as in the code; one action per event: `PostOp`, `EnqueueReadResponse`, `RunEvent`, `SendTransaction`, `AddEvent`, `InitiateTransaction`, `AckPullRequest`, `DeliverPullData`, `Complete`, `ProcessIncomingReadResponse` |
| `HostRxPath` | inter-host scheduler, RDMA pipeline, host RX buffer, PCIe queue | one action per scheduled event |
| `HostReceive_proofs` | proofs about `ReceiverNotReady` and `HostRxPath` | |
| `TransactionLifecycle`, `TransactionLifecycle_proofs` | the metadata of transactions at both hosts, the initiator's RSN and SSN order | one action per handler of either host; the state a CHECK refuses sets `failed`; the windows are sets of packets sent, received and acknowledged |
| `SchedulerQueues` | what both kinds of connection scheduler share: queues, holds, gates, admission | functions on one record, composed as the handlers call each other |
| `FastScheduler` | event-based connection and retransmission scheduler | the policies' caches are part of the record; `RecomputeEligibility` after each change of a gating variable |
| `PolledScheduler` | polling connection and retransmission scheduler, plain and weighted | lists in round-robin order; a scan is the rotation it leaves |
| `RoundRobin` | weighted round-robin policy with its four lists | functions on its state |
| `FalconTx` | a scheduler of either kind, the ACK/NACK scheduler, the arbiter, the events that change gates | one action per event |
| `Swift` | the algorithm from event to response, Gen1 and Gen2 formats | pure; doubles are multiples of a fraction of the datapath's fixed-point unit |
| `RateUpdateEngine` | events, mailbox, processing, delayed responses, their application | composes `Swift`; keys are connections (Gen1) or flows (Gen2) |
| `Rates_proofs` | proofs about `SharedAcks` and `RateUpdateEngine` with `Swift` | |
| `NetworkRouter`, `NetworkRouter_proofs` | ports, packet queues, arbiter, memory management unit, PFC of a router | a self-message that is scheduled is an event; pause and refreshment are separate |
| `Routing` | IPv6 trie, neighbour and VRF tables, static routes, weighted choice of a port | one action per route inserted; lookups are operators |
| `RoceTransport` | one RoCE queue pair, requester and responder | a record per host; packets may be lost, never reordered |
| `Dcqcn` | DCQCN in integers | timers are an agenda of events with relative times |

The modules that TLC runs put instances side by side:

| Module | Instances |
|---|---|
| `MC_Windows` | `SlidingWindow`, and `RetransmitTimer` with a packet in each window or two in one |
| `MC_Registers` | `SerialNumbers`, `RequestCounters`, `AckCoalescing`, and `SlidingWindow` under fairness |
| `MC_Hosts`, `MC_Network` | `ResourceManager`, `ReceiverNotReady`, `HostRxPath`, `TransactionLifecycle`; and `Routing`, two `RoceTransport`s, `Dcqcn` |
| `MC_WorkScheduler` | `WorkScheduler`, alone in run `ord` |
| `MC_Schedulers` | `FalconTx` event-based (two workloads), polling and polling with weights; `RateUpdateEngine` with one path (Gen1); `NetworkRouter` |
| `MC_Rates` | `SharedAcks`; `RateUpdateEngine` with two paths (Gen2); `MC_WorkScheduler` |
| `MC_Roce` | `RoceTransport` alone |

Components that interact are composed (`ResourceManager`, `WorkScheduler`,
`FalconTx`, `RateUpdateEngine`). Those that share nothing are put in one run by
a variable `focus`: a behaviour follows the component that `focus` names and
the others rest, so every behaviour of each is explored and no product of
them. A property then reads "if `focus` is x, ...". Fairness is stated of
`focus = "x" /\ A`, which is weak fairness of A in the behaviours that follow x
and nothing in the others. Liveness of the form "everything is done in the
end" is `[]<>(focus = "x" => Done)`: being done is final, so it says the same
as `<>[]Done`, and leaves TLC one temporal formula to test instead of one per
component.

A definition named as a plausible bug, or marked "Mutant", is not part of any
specification: it is the deliberately wrong variant that shows a property
would notice.

## Runs

Every bound is a CONSTANT named in its module.

| Run | Bounds, and why they suffice | Shows |
|---|---|---|
| `windows` | window: 3 packets, TX window 3, RX window 2, 2 in flight, one push data, two with responses: the RX window is smaller than what is sent, so out-of-window drops, holes and slides all happen. Timer: a packet in each window, and two in one, so that there is one behind the head of line; clock to 3, two RTO values and a jitter, RACK and TLP on: several generations of stale timers | all invariants of the proofs and the refinement hold; the timer is never lost, and late for a head of line only in the two ways that "Seen while modelling" names |
| `registers` | number space 8, window 3, 20 PSNs: more than two wraps; a pull, a solicited write and two unsolicited ones, `Ncwnd` 1, 3 transmissions each; coalescing of 4 packets, clock to 6, timeout 2; a window of 2 packets, RX window 1, without EACK-based recovery | registers stand for the true PSNs; ORC agrees with the requests it stands for, ORRC in windows without push requests (see `push`), and their gates never stall; an owed ACK has a timer; NACK loop, timeouts and ACKs complete every packet |
| `network` | admission: 2 connections x 3 requests, pools smaller than the demand of either; ULP pools of 3 packet and 4 buffer credits: both connections block at once, all zones are reached, both ULP counts run dry. RNR: 4 RSNs, pulls and pushes mixed, both ordering modes: refusal while two or more successors are in flight. Path: 2 hosts x 5 packets, PCIe queue 2, buffer 1: XOFF of both hosts at once with packets in the pipeline. Life: workloads of two transactions of different types, both ordering modes, one fault, one RNR refusal: each type is once the first and once the second, and the reorder buffers are used. Routes: 2-bit addresses, 2 routes of any prefix, VRF and group. RoCE: 3 ops (write, read, write; read, write, read), PSN space 16 from 13 so that they wrap, 2 losses, one PFC pause. DCQCN: line rate 12, 4 CNPs, 2 sends | credits balance, requests and packets stay in order, no wakeup or release is lost, no CHECK on transactions fails, the trie answers the longest prefix, and everything that is started ends |
| `schedulers` | 2 connections; event-based: a pull against a solicited and an unsolicited push (two data packets outstanding, so that an out-of-window pause lasts), and unsolicited data behind a pull against a solicited push; polling: 2 + 2 transactions, with weights 2 + 1; window 2, request window 1 (2 with weights); one change of a window, loss, notification, XOFF or ACK at any moment: one change is what the caches must follow, between any two steps of the schedulers. Engine: a connection of one path, 3 events, round trips and clock as in `rates`: a second and a third event may lower the window while the first decrease is not a round trip old. Router: 2 ports, 3 packets of one cell, a shared pool of 1 cell, guarantee 1, headroom 2, two PFC frames from peers, pause or X-on: a port triggers PFC and is itself paused, an X-on ends a pause that has just sent it idle, and packets that come in at one of the ports (`Unroutable`) may have no route and are discarded. | policies are exact after every event, the arbiter is awake while something may be sent, counters agree with queues, ordered data stays behind earlier requests; a window is lowered once in a round trip; cells balance, only an X-on frame lets a port sleep on work, a pause has a packet inside to end it |
| `rates` | Shared ACKs: 2 packets in each window, 2 packets in flight, enough for an ACK to be overtaken by another and by an implicit ACK. Engine: a connection of 2 paths; round trips 1 and 3, 2 events, an event queue of 2 with its three thresholds at 1, clock to 4: the second flow's event finds the queue past the thresholds and is refused until it has rested and has something acknowledged, and responses arrive in between; that the queue fills up is left to the proof. Work: 2 queue pairs: two reads under ORD 1; a write of two packets and a read to answer; 2 request and 1 response credits, XOFF at the last: ORD, credits and XOFF each stop the scheduler, alone and together, and each of the five callbacks wakes it; byte quanta end turns early | an ACK dropped as stale has no base PSN the other window lacks; a key's flag is set exactly while an event of it is under way, the window in use is the sum of the flows'; no queue pair with work is stranded, Falcon has room for what comes, every op completes |

Larger instances were run once and are not kept: `TransactionLifecycle` with
workloads of three transactions, `SharedAcks` with three packets per window,
`WorkScheduler` with a queue pair that writes, reads and answers a read.

A deadlock is checked where the system must go on or end as it should (`windows`,
`registers`, and the work scheduler in `rates`, which may stop only when nothing
is left to do); in the others a bounded workload ends, and liveness properties
say that it ends well.

Runs that are expected to end in a violation record where the code and a
comment of the code disagree (see "findings" in `PROJECT.json`):

* `oow`: the pause after an out-of-window drop is not lifted by an implicit ACK.
* `push`: the retransmission counter of a push request can be decremented twice.
* `ord`: a queue pair at its ORD limit that sends a read response takes another
  queue pair's entry off the list of requests, and that one is never scheduled
  again.
* `gating`: a phantom or ordered push request at the head of one connection
  makes the packet type eligible for all, and a pull request that admission
  control refuses is picked: the CHECK on `CanSend` fails.
* `roce`: after an RTO has rewound the send queue, a late ACK completes the op at
  its head and decrements `next_op_index` below zero.
* `straddle`: a packet that fits the minimal guarantee only in part is tagged
  with no cell of it; the CHECK on its tag fails when it leaves.
* `leak`: a packet that the routing pipeline deletes (`network_routing.cc:101`,
  `:117`) keeps its ingress cells, although `memory_management_unit.h:89` says
  that they are restored. When it was the last of a peer that is paused, nothing
  is left that could end the pause.

Seen while modelling, and not the subject of a run:

* `HandleImplicitAck` (reliability manager, line 1219) tests "acked already"
  with a plain less-than. After a PSN wrap a late response for a PSN before the
  wrap passes it and fails the bounds CHECK of the bitmap: `SerialNumbers` sets
  `crashed` there and stops.
* The EACK-OWN scan limit (line 1411) is an absolute PSN kept in an `int` and
  compared with bitmap indices: from PSN 2^31 on it is negative.
* The retransmission timer is late for a head of line in two ways: when the
  head's timeout had already passed as it became the head, by the jitter, and
  after a tail loss probe took the packet before it. `HandleTlpTimeout` (line
  2239) sets no timer, so that the packet behind, which may time out earlier (it
  was sent before a head that is itself a retransmission, or has an RNR timeout
  of its own), waits until the probe is sent.
* `operator+=` of the credits (`falcon_resource_credits.cc:128`) refills
  `ulp_requests` with a response's credits even when requests hold what is
  missing there, so requests can take more than `max_ulp_requests`.
* `rdma_per_host_rx_buffers.cc:41` compares an unsigned difference of lengths
  with zero, which is always true.
* `outbound_read_requests` is incremented for every packet of a read and
  decremented once per op (`rdma_falcon_model.cc:459`): a read of several
  packets uses up ORD for good. `rates` reads single packets.
* `ReturnFalconCredit` puts a queue pair back on the list without looking at
  ORD, so that ORD can be exceeded by one read per returned credit; and the
  event at the end of a turn adds the queue pair for the work type that is
  current when it fires, not the one it had.
* Refunding admission window (`falcon_model.cc:372`, `:253`) and refilling
  admission tokens recompute no connection's eligibility: in the event-based
  scheduler a connection found ineligible for want of window waits for another
  event of its own. And `HasWork` answers TRUE for a phantom request while
  `CanSendPacket` is FALSE, so that under XOFF another type can go.
* With two paths, a response for one flow writes back the marker of flow 0 that
  its event carried (`swift.h:1785`), older than what another response may have
  stored: two decreases within a round trip, against the comment at
  `swift.h:855`. The timeout guard of every flow uses the RTT of flow 0
  (`:912`, `:1891`). The inter-packet gap is computed in timing-wheel units and
  applied with `FromFalconTimeUnits`; `ar_rate` is computed and never applied.
* An X-on frame (`memory_management_unit.cc:579-592`), which this router sends
  itself, cancels the refreshment and wakes nobody: a port that the pause sent
  idle sleeps until its next packet. `SleepsOnlyAfterXon` says that this is the
  only way. With a guarantee of 0 cells a port can stay triggered with nothing
  queued (`LeavesFullPool`). A second PFC frame within `rx_pfc_delay` schedules a
  message that is scheduled already, a runtime error (`ReceivedPfc` sets
  `stopped`). A group whose weights sum to 0 is a division by zero in the port
  selection.
* RoCE: `highest_psn_with_ack_req` is the first PSN of a read of several packets
  (`rdma_roce_model.cc:571`), so that the loss of the last responses with no
  later traffic is never noticed; `RoceQueueSound` excepts that case. The end of
  a PFC pause starts a second chain of scheduler events. A length that is a
  multiple of the MTU gives a last packet of payload 0.
* DCQCN: the increase timer tests whether it is stale before it looks the queue
  pair up and acts afterwards (`rdma_roce_cc_dcqcn.cc:133-139`), so that two
  chains of increases can run. `SentBytes` has no caller in the simulator. Integer
  division leaves the rate one below its target, hence the bound in
  `RateRecovers`.

### Fairness

Weak fairness stands for an event that the simulator has scheduled: the event
queue runs every event. It is assumed of timers, schedulers and ULP answers.
Strong fairness is assumed of the network (a packet sent again and again
arrives at last; `SlidingWindow`) and of the receiver (a request offered again
and again is accepted at last; `ReceiverNotReady`): without either no protocol
makes progress. No fairness is assumed of packet loss, of refusals, of NACKs or
of spontaneous traffic in the other direction. In `WorkScheduler`
and `TransactionLifecycle` the only assumption is that some event runs while
there is one: every event of theirs takes the bounded workload forward. In
`NetworkAdmission`, weak fairness of `ReserveResources` says that a NACKed
request is resent and finds room once there is room for good. In
`RoceTransport` packets on the wire arrive (losses are bounded, so no strong
fairness is needed), scheduler events, RTO and coalescing timers fire, and a PFC
pause ends. In `Dcqcn` the events on the agenda are run. The router, the
schedulers and the rate update engine have safety properties that say what
wakes whom (`SleepsOnlyAfterXon`, `PauseHasRelease`, `ArbiterAwake`,
`EventsAccounted`) instead of liveness.

## Proofs

Of `SlidingWindow`, `Windows_proofs` shows, for every window width, threshold and number of
packets, that `Spec => []IInv`, and from it the type invariant, `AdmittedOnce`,
`WaitsInOnePlace`, `CompletedIsAcknowledged`, `BaseIsUnacknowledged`,
`BasesOrdered`, and that `SlidingWindow` implements `ReliableChannel`. The
assumptions are the ASSUMEs of the module: sizes are positive naturals, a PSN
is not both push data and answered by a response.

Why the invariant is needed: that the transmitter completes only what is
acknowledged is not inductive, because an ACK in the network could say
anything. `IInv` adds that packets are truthful (a base PSN or a bitmap bit in
flight was true when sent, and what is acknowledged stays so), that bases are
ordered (TX base <= RX base <= next), that a completed packet is below the TX
base or marked in its bitmap, and that a received PSN has been sent. The step
lemmas go through one handler each; handlers that acknowledge share
`AcknowledgeStep`, those of the receiver `ReceiverStep`. Run `windows`
checks `IInv` first.

`Registers_proofs` treats three modules. Of `SerialNumbers` it shows that for
every even number space, SeqLT and SeqGT on wrapped PSNs agree with the order of
the PSNs when these are less than half the space apart (`SeqComparesPsns`), and that registers and bitmap always stand
for the true PSNs (`WrapIsInvisible`). This is what allows the other modules to
use natural numbers for PSNs. The assumption is that the window and the lag of
an ACK in flight are below half the number space.

Of `RequestCounters` it shows for any requests, congestion window and register
width above the number of requests that ORC is the number of requests sent and
not complete and ORRC that of the retransmissions outstanding, each the
cardinality of a set of requests (`GatesSeeTrueCounts`): a handler that settles
a request it did not count would break it, and no unsigned counter wraps. ORRC
of a window with push requests is excepted, as in the run: there it does not
hold (see `push`). The lemma the proof turns on, `RequestMoves`, says what the
step of one request does to both counts.

Of `AckCoalescing` it shows, for every threshold, timeout, RX window and clock,
that an owed ACK is never forgotten (`AcksNotForgotten`: its timer is in the
event queue, a base advance is told within one timeout, an unreported drop keeps
an ACK pending). The bound on the delay is not inductive: nothing in it ties the
age of the news to the timer. `IInv` adds that the timer runs exactly while
something is coalesced, that its event is queued, and that news not yet told is
no older than the timer (`TimerRuns`); since the clock cannot pass a queued
event, the bound follows.

`Rates_proofs` treats what a transmitter learns from ACKs. Of `SharedAcks` it
shows for every size of the windows that a packet discarded because one of its
two base PSNs is stale holds no news of the other window, and that a base which an implicit ACK moves by one packet never rests on an
acknowledged packet (`SharedAcksSound`). `IInv` adds that the base pairs in
flight form a chain (of two packets one is older in both windows), that what
they report is true, and that a PSN reported out of order is no base, here or
in flight, at any time: the receiver's base steps over it (`NeverBoth`).

Of `RateUpdateEngine` it shows, for any connections, paths, flows, queue
thresholds and parameters of `Swift`, that flags, mailbox, answers and callbacks
agree (`EventsAccounted`), that the datapath's window is the sum of its flows'
once the connection's answers are applied (`WindowIsSumOfFlows`), and that with
one path a window is lowered at most once in a round trip (`DecreaseIsDue`). None
of these follows from the step that matters: an answer is computed from a
snapshot taken earlier and applied later. `EngineIInv` adds what is true of what
is under way: the latest answer of a connection says the sum of its flows'
windows, and the metadata do when there is none (`WholeTracked`); and the fabric
marker of the event, the answer or, without either, the metadata of a connection
covers its last decrease: whenever the clock is read later, the marker's age in
the modular time of the datapath is at most the age of that decrease
(`Covered`). A marker that is moved without a decrease goes to a round trip ago,
and only when it was older: it stays no older than the decrease. The lemmas below it go through Swift: windows stay within their
bounds through smoothing, division among the flows and rounding to fixed point
(`NewFabricWindowIs`, `WholeIs`), and each answer either leaves window and
marker, or does not lower the window, or lowers it when it may (`AckNackAnswers`,
`RetransmitAnswers` and their counterparts for flows). `EngineAssumption` says
what the code's configuration grants: the clock is narrower than the datapath's
time field (`ToFalconTimeUnits` checks it), the initial window lies within
Swift's bounds and is divided among the flows without remainder
(`event_response_format_adapter.cc:501-510`), percentages and lengths are what
their fields hold.

`HostReceive_proofs` treats two modules. Of `ReceiverNotReady` it shows for any number of requests, any mix of pulls and
pushes and both ordering modes that the fatal out-of-order branch of
`IsRsnAcceptable` is never reached, that stages follow each other and the head
of line is not passed (`RequestsInOrder`), and that no refused request is left
behind (`NothingLeftBehind`). Two components count for themselves, the engine's
next RSN and the queue pair's; `RnrIInv` says what ties them: the places a request
can be in exclude each other (`PlacesAgree`, `OnePlaceEach`), from the awaited
request on the RX queue is a run that ends where the engine stands
(`QueueEndsInRun`), and the awaited request is the engine's next, or queued, or
refused with the refusal on its way (`ExpectedIsComing`), which is why a rewind
finds everything it has to send again.

Of `HostRxPath` it shows for any number of hosts, packets, sizes of RX buffer
and of PCIe queue that no host with packets is left out of the round and the
scheduler is awake while there is one (`NoLostWakeup`), that a paused host has a
completion to come that releases it (`XoffHasRelease`), and that packets stay in
order (`InOrder`). The three are inductive only together: `Push` writes past the
RX buffer, which keeps the order only because a buffered packet means a full
PCIe queue; and the scheduler takes the packet the order speaks of only because
the round holds no host without one.

`ResourceManager_proofs` shows for any connections, requests, pools and sizes
that credits of network and ULP pools balance and none is overdrawn, and that
what waits behind a missing request stays below the green threshold plus one
request (`AdmissionSound`); and from it that a request others wait for always
fits in its pools next to them (`RoomIsLeft`), the reason why admission does not
deadlock. `IInv` adds what an admission decision relies on: the number of ULP
ACKs, which is `next_target_network_rsn`, never passes a missing request,
because what is delivered is a prefix of the connection. Sums over requests are
cardinalities of sets of tokens, one for each credit held, since a fold cannot
be reasoned about here. The assumptions are the ASSUMEs of the modules; the one
with content is `ThresholdAssumption`: the zones above green have room
for the largest request.

`WorkScheduler_proofs` shows for any queue pairs, operations, quanta, ORD limit
and credits that no queue pair with work is stranded (`NoStrandedWork`), that
the sets which copy the lists agree with them and that the LOG(FATAL) of a
transaction for which Falcon has no room is not reached (`SchedulerSound`).
Queue pairs may read, write and answer reads. The theorems have the form
`[]P \/ <>ResponseAtOrd`: the one thing that ends the promise is the turn of a
response whose queue pair is over its ORD limit. The ORD branch of that turn
takes the front of the list of requests, whoever it belongs to: the defect that
run `ord` records, after which the sets need not agree.
`WorkIInv` says what a wakeup relies on: the list of a work type holds exactly the
queue pairs marked as scheduled, each once, and these have work and credits
(`Listed`); when a turn is to be given, its list is not empty (`TurnComes`); an
idle scheduler has nothing it may send (`Awake`). For Falcon's room it
counts credits transaction by transaction: what the scheduler has spent is held
by a transaction in the pipeline or beyond (`CreditsHeld`), and the
oversubscribed pools, returned to in another order than they were taken from,
keep what was promised to requests (`PoolsBalance`). The assumption is that
Falcon's pools are no smaller than RDMA's credits (`CreditAssumption`,
`WorkAssumption`).

Of `RetransmitTimer`, `Windows_proofs` shows for any packets in both windows, timeouts, jitter
and thresholds that while a packet is outstanding the event of the current
expiration time is still to come, and is in time (`TimerSound`). `TimerIInv` adds that
an expiration time has its event whether packets are outstanding or not, since
`SetupRetransmitTimer` returns early without any and trusts the old time later,
and that the number of transmissions bounds the number of early
retransmissions. The proof found the second of the two ways in which the timer is
late (above): the invariant first stated was not inductive where a probe takes
the head of line, and TLC then showed the state with two packets in one
window.

`NetworkRouter_proofs` shows for any ports, pools, thresholds and packet sizes
that the MMU's counters are, each of them, the cells that packets account for
(`CellsConserved`), that a port falls asleep on a PFC frame or on a packet it may
send only by an X-on frame (`SleepsOnlyAfterXon`), and that a peer that is kept
paused will be released (`PauseHasRelease`). A counter is compared with a sum over
packets in the routing pipeline, in the queues and among those deleted; sums are
again cardinalities of sets of tokens, and the lemmas `BookedEnters`,
`BookedQueued`, `BookedDeleted` and `BookedLeaves` say what each movement of a
packet does to them. Conservation is inductive with the types alone, and holds
with packets that straddle the guarantee too, because it asks of the guarantee's
counter only what the tags book nowhere else: the tag of such a packet is wrong
(run `straddle`) but its release is stopped by a CHECK.

`SleepsOnlyAfterXon` is an action property and makes no assumption about the
peers' frames: whichever step leaves a port without an output event while it has
a frame, or a packet it may send and no refreshment to come, is the step in which
an X-on frame takes effect and cancels that refreshment. `AwakeInv` adds that a
pause that lasts has its refreshment scheduled. `PauseHasRelease` counts
the packets inside and no deleted ones, of ports where every packet has a route;
the run has a port of the other kind beside it, and run `leak` shows that the
property fails there. It follows from its reading in terms of counters
(`ReleaseInv`): PFC is triggered by a packet that is counted at once or finds
cells counted already, and a dequeue that leaves none counted is below the limit
and ends the pause, unless the limit is 0. The theorem says so for every guarantee
(`[]PauseHasRelease \/ <>LeavesFullPool`), and that with a guarantee of a cell at
least the limit is never 0 and a pause always has its end.

`TransactionLifecycle_proofs` shows for every sequence of operations, either
ordering mode and any number of faults and receiver-not-ready NACKs that no CHECK
on a transaction fails and no credit is kept or returned twice
(`TransactionsSound`), and that nothing completes at the initiator before it has
happened at the target (`CompletedAtTheTarget`). Transactions meet only in the
reorder engine, so the invariant is stated of one transaction at a time: `View(r)`
collects its metadata at both hosts and the places its packets are in, and
`Sound` says, for each type of transaction, which state goes with which places,
contexts, reserved packets and credits. A copy of a packet can be late by any
time; what keeps it harmless is that a packet on its way or received proves how
far its sender has come, and the window bit how far the receiver has. An
action moves the view of its transaction in one of a dozen ways, each shown to
keep it sound in a lemma that speaks of one view only (`PacketSent`,
`PacketAccepted`, `UlpAcked`, ...); what the engine lets go on account of another
transaction moves a view in one way more (`LetThrough`), and changes nothing else.
That an insertion in an ordered connection lets go a run of RSNs, which the RX
queue receives in order, is argued with cardinalities, since there is no
induction here. The only assumption is `LifecycleAssumption`: workloads are
sequences of the three types, modes are the two there are. That every transaction
ends (`EveryTransactionEnds`) stays with TLC.

TLC checked each inductive invariant on the instance of its run before it was
proved. The runs keep the invariants the components promise, which the theorems
state in the same words: the module of a run EXTENDS the components proved about
(names like `PathInit`, `EngineNext` and `PsnSpec` keep them apart) and takes
instances of the others.

Only model-checked: the liveness properties (fairness and ENABLED are outside
the prover's reach), and for now the invariants of the other modules: the
schedulers (`PoliciesFresh`, `ArbiterAwake`, `CountsMatchQueues`,
`OrderedDataFollowsRequests`), `RoceTransport`, `Dcqcn` and `Routing`. The
library's induction theorems take an operator as a parameter, which the provers
cannot instantiate; where a least or a largest element is enough, the proofs
argue with a minimal counterexample instead. What the recursive parts compute
(the trie of `Routing`, walked bit by bit, and the scans of `PolledScheduler`)
stays with TLC.

## Abstractions

* One event is one action. Delays become interleaving, except in
  `AckCoalescing` and `RetransmitTimer`, where times are compared and a clock
  is part of the state.
* Congestion windows are nondeterministic parameters of the transmit actions.
* `NetworkAdmission` treats the FIRST_PHASE_RESERVATION mode and ordered
  connections; on an unordered one every request counts as head of line.
* `HostRxPath` gives all packets the same size. Pacing of scheduler and
  pipeline is left out, so more packets may be in the pipeline than with real
  timings.
* In `WorkScheduler` every transaction takes one credit of its work type; chip
  cycle and token bucket only decide whether a run is at once or later; RX
  credits of reads follow the TX credits.
* `TransactionLifecycle` follows one connection, never runs short of credits and
  meets receiver-not-ready refusals only on unordered connections; the other
  cases are those of `NetworkAdmission` and `ReceiverNotReady`.
* In `SchedulerQueues` every solicited transfer has the size of one request, the
  admission window and burst are counted in requests, and a refill of tokens is
  an event. Queueing delays are left out.
* `Swift` computes in rational steps: factors are per cent, `alpha / sqrt(cwnd) +
  beta` is a step function of the window. The properties compare windows and
  markers and hold for any such function.
* `NetworkRouter` has one priority, as `GetPacketPriority` answers 0 for every
  packet, and cells instead of bytes. Whether a packet has a route is decided as
  it comes in; `Routing` is a module of its own.
* `RoceTransport` has one queue pair; the path of a flow is fixed, so packets are
  lost and never reordered. In `network`, ACKs are not lost and no RTO fires with
  an answer on its way (see `roce`).
* A property about bitmap news of `AckCoalescing` is limited to the base: a
  piggybacked packet carries only base PSNs and still resets the counter.

## Plan

Modelled: the sliding window and its recovery, numbering, counters, timers,
coalescing, RNR, admission and credits, transactions at both hosts, connection
and retransmission schedulers with arbiter and admission control, rate update
engine and Swift in both generations, the credit loop of the RDMA work
scheduler, the host receive path, router memory, PFC and routing, RoCE and DCQCN.
Next, in this order:

1. Proofs: the event-based scheduler, then `RoceTransport`, then the trie of
   `Routing` as far as it can be had without induction.
2. Gen2: per-flow ACK coalescing and the reorder engine over SRAM and DRAM.
3. Gen3: the batch scheduler over the connections of a bundle.
4. WRED marking in the fabric, several priorities.

## Not modelled

* The traffic shaper, a timing wheel that delays a packet to the slot of its
  timestamp: what follows it, the network, delays and reorders anyway.
* Gen3: wrappers around Gen2 and the choice of a connection of a bundle; below it
  each connection behaves as one of Gen2.
* The traffic generator: random workloads; every module lets its operations come
  at any time.
* Statistics and histograms: counters no decision reads, except the
  per-connection use of credits, which is part of `NetworkAdmission`.
* Configuration defaults and profiles, construction of the simulation, packet
  formatting and OMNeT++ glue: data and I/O.
* Resync packets of the reliability manager, tearing a connection down
  (`DeleteConnection` of the reorder engine), completion queues, the smoothed
  buffer occupancy reported to the initiator.
