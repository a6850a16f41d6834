----------------------------- MODULE HostRxPath -----------------------------
(***************************************************************************)
(* The receive path from Falcon to the memory of several hosts that share  *)
(* one NIC: the inter-host RX scheduler with its round robin, the RDMA     *)
(* pipeline, a host's RX buffer, and the PCIe write queue, with XOFF from  *)
(* the buffer back to the scheduler.                                       *)
(*                                                                         *)
(* Source: host/falcon/falcon_inter_host_rx_scheduler.cc,                  *)
(* host/falcon/falcon_inter_host_rx_round_robin_policy.cc,                 *)
(* host/rdma/rdma_falcon_model.cc (the pipeline),                          *)
(* host/rdma/rdma_per_host_rx_buffers.cc, host/rnic/memory_interface.cc.   *)
(*                                                                         *)
(* Packets of a host are numbered and of equal size, the unit of the RX    *)
(* buffer; the pacing of scheduler and pipeline is left to interleaving.   *)
(***************************************************************************)
EXTENDS Integers, Sequences

CONSTANTS
  Hosts,       \* bifurcation ids
  BufferSize,  \* max_size_bytes_ of a host's RX buffer, in packets
  QueueSize,   \* max_queue_size_packets_ of the PCIe write queue
  MaxPackets   \* bound: packets of a host

\* The sizes a configuration can have.
PathAssumption ==
  /\ BufferSize \in Nat \ {0} /\ QueueSize \in Nat \ {0} /\ MaxPackets \in Nat

VARIABLES
  sent,      \* sent[h]: packets Falcon has enqueued for h
  queue,     \* hosts_queue_
  hasWork,   \* hosts with is_active
  xoff,      \* hosts with is_xoff
  active,    \* active_hosts_, in the order of service
  running,   \* is_running_: a ScheduleWork event is pending
  pipeline,  \* the RDMA pipeline: <<host, packet>>
  rxBuffer,  \* rx_buffer_
  txQueue,   \* tx_queue_ of the write queue
  busy,      \* hosts whose tx_machine_state_ is BUSY
  written    \* history: packets given to the host's PCIe link

schedulerVars == <<queue, hasWork, xoff, active, running>>
memoryVars == <<txQueue, busy, written>>
pathVars == <<sent, schedulerVars, pipeline, rxBuffer, memoryVars>>

PathInit ==
  /\ sent = [h \in Hosts |-> 0]
  /\ queue = [h \in Hosts |-> <<>>]
  /\ hasWork = {} /\ xoff = {} /\ active = <<>> /\ running = FALSE
  /\ pipeline = <<>>
  /\ rxBuffer = [h \in Hosts |-> <<>>]
  /\ txQueue = [h \in Hosts |-> <<>>] /\ busy = {}
  /\ written = [h \in Hosts |-> <<>>]
-----------------------------------------------------------------------------
(* Scheduler. *)

\* active_hosts_ once h has been served: behind the others or, with its last
\* packet, taken out.
SelectHost(h) == Append(Tail(active), h)
MarkHostInactive == Tail(active)

\* The iterator kept with a host, and active_hosts_ once it is erased there.
Iterator(h) == CHOOSE i \in 1..Len(active) : active[i] = h
Without(h) ==
  [i \in 1..(Len(active) - 1) |-> IF i < Iterator(h) THEN active[i] ELSE active[i + 1]]

MarkHostActive(h) ==
  /\ hasWork' = hasWork \cup {h}
  /\ active' = IF h \in hasWork \cup xoff THEN active ELSE Append(active, h)

\* A packet of host h; starts the scheduler if it is idle.
Enqueue(h) ==
  /\ sent[h] < MaxPackets
  /\ sent' = [sent EXCEPT ![h] = @ + 1]
  /\ queue' = [queue EXCEPT ![h] = Append(@, sent[h])]
  /\ MarkHostActive(h)
  /\ running' = TRUE
  /\ UNCHANGED <<xoff, pipeline, rxBuffer, memoryVars>>

\* Serves the host at the front; runs again as long as any host is active.
ScheduleWork ==
  /\ running
  /\ IF active = <<>>
     THEN running' = FALSE /\ UNCHANGED <<queue, hasWork, active, pipeline>>
     ELSE LET h == Head(active)
              last == Tail(queue[h]) = <<>>
          IN /\ pipeline' = Append(pipeline, <<h, Head(queue[h])>>)
             /\ queue' = [queue EXCEPT ![h] = Tail(@)]
             /\ hasWork' = IF last THEN hasWork \ {h} ELSE hasWork
             /\ active' = IF last THEN MarkHostInactive ELSE SelectHost(h)
             /\ running' = (active' # <<>>)
  /\ UNCHANGED <<sent, xoff, rxBuffer, memoryVars>>

XoffHost(h) ==
  /\ xoff' = xoff \cup {h}
  /\ active' = IF h \in hasWork \ xoff THEN Without(h) ELSE active
  /\ UNCHANGED <<queue, hasWork, running>>

\* A plausible bug: XON makes the host eligible but does not start the
\* scheduler.
XonHostIdle(h) ==
  /\ xoff' = xoff \ {h}
  /\ active' = IF h \in xoff \cap hasWork THEN Append(active, h) ELSE active
  /\ UNCHANGED <<queue, hasWork, running>>

\* SetXoff(false): XonHost, and start the scheduler if there is work.
XonHost(h) ==
  /\ xoff' = xoff \ {h}
  /\ active' = IF h \in xoff \cap hasWork THEN Append(active, h) ELSE active
  /\ running' = (running \/ active' # <<>>)
  /\ UNCHANGED <<queue, hasWork>>
-----------------------------------------------------------------------------
(* Memory interface and RX buffer. *)

\* A plausible bug: the limit is off by one.
CanWriteToMemoryOneMore(h) == Len(txQueue[h]) <= QueueSize

CanWriteToMemory(h) == Len(txQueue[h]) # QueueSize

\* EnqueuePacket for the packets of s in turn, on a queue that holds q: an
\* idle link takes the first of them at once.
WriteToMemory(h, q, idle, s) ==
  LET all == q \o s
      start == idle /\ all # <<>>
  IN /\ txQueue' = [txQueue EXCEPT ![h] = IF start THEN Tail(all) ELSE all]
     /\ written' = IF start THEN [written EXCEPT ![h] = Append(@, Head(all))] ELSE written
     /\ busy' = IF start THEN busy \cup {h} ELSE IF idle THEN busy \ {h} ELSE busy

\* A plausible bug: every packet stops its host, whatever the buffer holds.
PushXoffEarly(h, p) ==
  IF CanWriteToMemory(h)
  THEN /\ WriteToMemory(h, txQueue[h], h \notin busy, <<p>>)
       /\ XoffHost(h)
       /\ UNCHANGED rxBuffer
  ELSE /\ rxBuffer' = [rxBuffer EXCEPT ![h] = Append(@, p)]
       /\ XoffHost(h)
       /\ UNCHANGED memoryVars

Push(h, p) ==
  IF CanWriteToMemory(h)
  THEN /\ WriteToMemory(h, txQueue[h], h \notin busy, <<p>>)
       /\ UNCHANGED <<rxBuffer, schedulerVars>>
  ELSE /\ rxBuffer' = [rxBuffer EXCEPT ![h] = Append(@, p)]
       /\ IF Len(rxBuffer'[h]) >= BufferSize THEN XoffHost(h) ELSE UNCHANGED schedulerVars
       /\ UNCHANGED memoryVars

PipelineDequeue ==
  /\ pipeline # <<>>
  /\ pipeline' = Tail(pipeline)
  /\ Push(Head(pipeline)[1], Head(pipeline)[2])
  /\ UNCHANGED sent

\* How many buffered packets a wakeup moves into a queue that holds q: until
\* it is full again, or the buffer empty.
Moved(h, q, idle) ==
  LET room == (QueueSize - Len(q)) + (IF idle THEN 1 ELSE 0)
  IN IF Len(rxBuffer[h]) < room THEN Len(rxBuffer[h]) ELSE room

\* The wakeup callback; q and idle are the state of the write queue.
Wakeup(h, q, idle) ==
  LET n == Moved(h, q, idle)
  IN /\ WriteToMemory(h, q, idle, SubSeq(rxBuffer[h], 1, n))
     /\ rxBuffer' = [rxBuffer EXCEPT ![h] = SubSeq(@, n + 1, Len(@))]
     /\ IF Len(rxBuffer'[h]) < BufferSize THEN XonHost(h) ELSE UNCHANGED schedulerVars

\* A plausible bug: the user is woken only when the queue has run dry.
TransmitCompleteWakesLate(h) ==
  /\ h \in busy
  /\ IF txQueue[h] = <<>>
     THEN Wakeup(h, <<>>, TRUE)
     ELSE /\ WriteToMemory(h, txQueue[h], TRUE, <<>>)
          /\ UNCHANGED <<rxBuffer, schedulerVars>>
  /\ UNCHANGED <<sent, pipeline>>

\* The user is woken when the queue was full or the link falls idle.
TransmitComplete(h) ==
  /\ h \in busy
  /\ CASE txQueue[h] = <<>> -> Wakeup(h, <<>>, TRUE)
       [] Len(txQueue[h]) = QueueSize -> Wakeup(h, txQueue[h], TRUE)
       [] OTHER -> /\ WriteToMemory(h, txQueue[h], TRUE, <<>>)
                   /\ UNCHANGED <<rxBuffer, schedulerVars>>
  /\ UNCHANGED <<sent, pipeline>>

PathNext ==
  \/ \E h \in Hosts : Enqueue(h) \/ TransmitComplete(h)
  \/ ScheduleWork
  \/ PipelineDequeue

PathSpec == PathInit /\ [][PathNext]_pathVars

\* ScheduleWork, PipelineDequeue and TransmitComplete are scheduled events.
PathFairness ==
  /\ WF_pathVars(ScheduleWork) /\ WF_pathVars(PipelineDequeue)
  /\ \A h \in Hosts : WF_pathVars(TransmitComplete(h))

PathFairSpec == PathSpec /\ PathFairness
-----------------------------------------------------------------------------
(* Properties. *)

\* Types; the write queue never holds more than its configured size.
PathTypeOK ==
  /\ sent \in [Hosts -> 0..MaxPackets]
  /\ queue \in [Hosts -> Seq(Nat)]
  /\ hasWork \subseteq Hosts /\ xoff \subseteq Hosts /\ busy \subseteq Hosts
  /\ active \in Seq(Hosts) /\ running \in BOOLEAN
  /\ pipeline \in Seq(Hosts \X Nat)
  /\ rxBuffer \in [Hosts -> Seq(Nat)]
  /\ txQueue \in [Hosts -> Seq(Nat)] /\ written \in [Hosts -> Seq(Nat)]
  /\ \A h \in Hosts : Len(txQueue[h]) <= QueueSize

\* Packets that the host's link, its write queue and its RX buffer have taken,
\* and packets the scheduler has let go.
Taken(h) == Len(written[h]) + Len(txQueue[h]) + Len(rxBuffer[h])
Released(h) == sent[h] - Len(queue[h])

\* s holds the numbers from n on.
Consecutive(s, n) == \A i \in 1..Len(s) : s[i] = n + i - 1

\* Of host h the pipeline s holds exactly the packets from a up to b - 1, in
\* order among the packets of others.
At(s, h) == {i \in 1..Len(s) : s[i][1] = h}
Carries(s, h, a, b) ==
  /\ a <= b
  /\ {s[i][2] : i \in At(s, h)} = a..(b - 1)
  /\ \A i, j \in At(s, h) : i < j => s[i][2] < s[j][2]

\* However XOFF, wakeups and the direct path past the RX buffer interleave, the
\* packets of a host reach it in order, none lost and none twice: each place
\* on the way continues the numbers of the place after it.
InOrder ==
  \A h \in Hosts :
    /\ Consecutive(written[h], 0)
    /\ Consecutive(txQueue[h], Len(written[h]))
    /\ Consecutive(rxBuffer[h], Len(written[h]) + Len(txQueue[h]))
    /\ Carries(pipeline, h, Taken(h), Released(h))
    /\ Consecutive(queue[h], Released(h))

\* The round robin serves exactly the hosts that have packets and are not
\* XOFFed, each once per round, and as long as there is one the scheduler is
\* going to run: XON and Enqueue never leave work without a wakeup.
NoLostWakeup ==
  /\ {active[i] : i \in 1..Len(active)} = hasWork \ xoff
  /\ \A i, j \in 1..Len(active) : active[i] = active[j] => i = j
  /\ hasWork = {h \in Hosts : queue[h] # <<>>}
  /\ active # <<>> => running

\* A host stays XOFFed only while its RX buffer is at the limit, and a packet
\* waits there only while the PCIe queue is full and its link at work, whose
\* completion will wake the buffer; a link at rest has nothing queued.
XoffHasRelease ==
  \A h \in Hosts :
    /\ h \in xoff <=> Len(rxBuffer[h]) >= BufferSize
    /\ rxBuffer[h] # <<>> => Len(txQueue[h]) = QueueSize /\ h \in busy
    /\ h \notin busy => txQueue[h] = <<>>

\* Every packet given to the scheduler finally reaches its host.
Settled == \A h \in Hosts : Len(written[h]) = sent[h]
AllWritten == []<>Settled
=============================================================================
