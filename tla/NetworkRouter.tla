---------------------------- MODULE NetworkRouter ----------------------------
(***************************************************************************)
(* A router of the fabric: its ports, the packet queue and the arbiter of   *)
(* each, and the memory management unit (MMU) that counts buffer cells and  *)
(* runs priority flow control (PFC).  GetPacketPriority answers 0 for every *)
(* packet, so a port has one queue that is ever used and one PFC class.     *)
(*                                                                         *)
(* Time is left out: an OMNeT++ self-message that is scheduled is an        *)
(* event that may fire.  `paused' is unpause_time > now; it ends by itself  *)
(* and the refreshment message scheduled for that instant is an event of    *)
(* its own, so that others may come between.  The routing delay is the same *)
(* for every packet: the pipeline is a FIFO.                                *)
(***************************************************************************)
EXTENDS Integers, Sequences, FiniteSets, SequencesExt, FiniteSetsExt

CONSTANTS
  Ports,          \* connected ports
  Pfc,            \* support_pfc_
  Xon,            \* pfc_xon_: send a frame of pause time 0 to end a pause
  PeerFrames,     \* what the peers send: a subset of {"pause", "xon"}
  CellSizes,      \* sizes of packets, in cells
  Unroutable,     \* ports where packets come in that have no route, or no TTL left
  IngressPool, EgressPool, Guarantee, Headroom,  \* cells
  AlphaIn,        \* per-queue ingress alpha
  AlphaOut,       \* per-port and per-queue egress alpha, the smaller
  MaxEntered, MaxFrames  \* bounds: packets and PFC frames received

VARIABLES
  routing,        \* packets waiting for their routing delay
  queues,         \* port -> packets of its queue
  ingressFree, egressFree,            \* ingress/egress_pool_free_cells_
  ingressOcc, minOcc, headroomOcc,    \* port -> cells, by ingress port
  egressOcc,      \* port -> cells
  triggered,      \* pfc_sending_triggered_
  sendPause,      \* pfc_send_pause_messages_ scheduled
  setPaused,      \* pfc_set_paused_messages_: pause carried, None if not scheduled
  paused,         \* IsPaused
  refreshment,    \* pfc_refreshment_messages_ scheduled
  pfcQueue,       \* the PFC frame waiting to be sent, or None
  portActive,     \* port_state_ = kActive
  output,         \* output_schedule_messages_ scheduled
  entered, frames,    \* what came in, for the bounds
  discarded,      \* ghost: packets the routing pipeline deleted
  stopped         \* a CHECK or a LOG(FATAL) stopped the program

mmu == <<ingressFree, ingressOcc, minOcc, headroomOcc>>
egress == <<egressFree, egressOcc>>
pfcPauses == <<setPaused, paused, refreshment>>
sending == <<triggered, sendPause, pfcQueue>>
lines == <<portActive, output>>
inputs == <<entered, frames>>
routerVars ==
  <<routing, queues, mmu, egress, pfcPauses, sending, lines, inputs, discarded, stopped>>

None == "none"
NoRoute == "no route"
RouterAssumption ==
  /\ IsFiniteSet(Ports) /\ NoRoute \notin Ports
  /\ {Pfc, Xon} \subseteq BOOLEAN /\ PeerFrames \subseteq {"pause", "xon"}
  /\ Unroutable \subseteq Ports
  /\ {IngressPool, EgressPool, Guarantee, Headroom, AlphaIn, AlphaOut} \subseteq Nat
  /\ CellSizes \subseteq 1..Headroom /\ {MaxEntered, MaxFrames} \subseteq Nat

RoutedPackets == [in : Ports, to : Ports \cup {NoRoute}, size : CellSizes,
            min : Nat, shared : Nat, headroom : Nat]

\* The sum of f over S, as the number of tokens of which x has f[x].
Tokens(f, S) == UNION {{x} \X (1..f[x]) : x \in S}
Tally(f, S) == Cardinality(Tokens(f, S))

\* What the tags of packets that came in at a port of P say of `field': in one
\* sequence, and in the router.
Amounts(packets, P, field) ==
  [n \in 1..Len(packets) |-> IF packets[n].in \in P THEN packets[n][field] ELSE 0]
Cells(packets, P, field) == Tally(Amounts(packets, P, field), 1..Len(packets))
InQueues(queue, P, field) == Tally([q \in Ports |-> Cells(queue[q], P, field)], Ports)
Inside(P, field) == Cells(routing, P, field) + InQueues(queues, P, field)

\* What is still counted of them: a packet that the routing pipeline deletes
\* leaves its cells behind.
Booked(P, field) == Inside(P, field) + Cells(discarded, P, field)

RouterTypeOK ==
  /\ {routing, discarded} \subseteq Seq(RoutedPackets)
  /\ queues \in [Ports -> Seq(RoutedPackets)]
  /\ ingressFree \in Int /\ egressFree \in Int
  /\ {ingressOcc, minOcc, headroomOcc, egressOcc} \subseteq [Ports -> Int]
  /\ {triggered, sendPause, paused, refreshment, portActive, output}
       \subseteq [Ports -> BOOLEAN]
  /\ setPaused \in [Ports -> {"pause", "xon", None}]
  /\ pfcQueue \in [Ports -> {"pause", "xon", None}]
  /\ entered \in 0..MaxEntered /\ frames \in 0..MaxFrames /\ stopped \in BOOLEAN

RouterInit ==
  /\ routing = <<>> /\ queues = [p \in Ports |-> <<>>]
  /\ ingressFree = IngressPool /\ egressFree = EgressPool
  /\ ingressOcc = [p \in Ports |-> 0] /\ minOcc = [p \in Ports |-> 0]
  /\ headroomOcc = [p \in Ports |-> 0] /\ egressOcc = [p \in Ports |-> 0]
  /\ triggered = [p \in Ports |-> FALSE] /\ sendPause = [p \in Ports |-> FALSE]
  /\ setPaused = [p \in Ports |-> None] /\ paused = [p \in Ports |-> FALSE]
  /\ refreshment = [p \in Ports |-> FALSE] /\ pfcQueue = [p \in Ports |-> None]
  /\ portActive = [p \in Ports |-> FALSE] /\ output = [p \in Ports |-> FALSE]
  /\ entered = 0 /\ frames = 0 /\ stopped = FALSE
  /\ discarded = <<>>
-----------------------------------------------------------------------------
(* Output of a port. *)

\* An idle port becomes active and schedules an output event.
Wake(p) ==
  /\ portActive' = [portActive EXCEPT ![p] = TRUE]
  /\ output' = [output EXCEPT ![p] = @ \/ ~portActive[p]]

\* A plausible bug: a frame made while the port is idle waits for a packet.
GeneratePfcAsleep(p, time) ==
  /\ pfcQueue' = [pfcQueue EXCEPT ![p] = time]
  /\ UNCHANGED lines

\* One frame waits at most: a later one for the same class replaces its time.
GeneratePfc(p, time) ==
  /\ pfcQueue' = [pfcQueue EXCEPT ![p] = time]
  /\ Wake(p)

\* A frame is generated and the next one is scheduled, in place of the one
\* that an earlier trigger may have left scheduled.
SendPfc(p) ==
  /\ GeneratePfc(p, "pause")
  /\ sendPause' = [sendPause EXCEPT ![p] = TRUE]

EnablePfcSending(p) ==
  /\ triggered' = [triggered EXCEPT ![p] = TRUE]
  /\ SendPfc(p)

\* The event of the next frame stays scheduled; it will find nothing to do.
DisablePfcSending(p) ==
  /\ triggered' = [triggered EXCEPT ![p] = FALSE]
  /\ UNCHANGED sendPause
  /\ IF Xon THEN pfcQueue' = [pfcQueue EXCEPT ![p] = "xon"] ELSE UNCHANGED pfcQueue
-----------------------------------------------------------------------------
(* Packets come in. *)

TriggerLimit(p) == ingressFree * AlphaIn + Guarantee

\* PFC starts when the queue reaches its limit or the pool has no room.
Triggers(p, size) == ~triggered[p] /\ (ingressOcc[p] >= TriggerLimit(p) \/ ingressFree < size)

\* Where the cells of a packet go, and what its ingress tag says.  A packet
\* that straddles the guarantee fills it; the tag's share of the guarantee is
\* computed after that assignment, and is 0.
Carve(p, size) ==
  IF triggered[p] \/ Triggers(p, size)
  THEN [min |-> 0, shared |-> 0, headroom |-> size]
  ELSE IF ingressOcc[p] >= Guarantee THEN [min |-> 0, shared |-> size, headroom |-> 0]
  ELSE IF minOcc[p] + size <= Guarantee THEN [min |-> size, shared |-> 0, headroom |-> 0]
  ELSE [min |-> 0, shared |-> minOcc[p] + size - Guarantee, headroom |-> 0]

\* The guarantee's occupancy after the packet.
GuaranteeAfter(p, size, carve) ==
  IF carve.headroom > 0 \/ ingressOcc[p] >= Guarantee THEN minOcc[p]
  ELSE Min({minOcc[p] + size, Guarantee})

\* Without PFC nothing is counted at ingress.
Unchecked == [min |-> 0, shared |-> 0, headroom |-> 0]

\* A packet the headroom cannot take is dropped, after PFC was started for it.
ReceivedData(p, size, to) ==
  LET carve == IF Pfc THEN Carve(p, size) ELSE Unchecked
      drop  == headroomOcc[p] + carve.headroom > Headroom
  IN /\ IF Pfc /\ Triggers(p, size) THEN EnablePfcSending(p)
        ELSE UNCHANGED <<sending, lines>>
     /\ IF drop \/ ~Pfc THEN UNCHANGED mmu
        ELSE /\ ingressFree' = ingressFree - carve.shared
             /\ ingressOcc' = [ingressOcc EXCEPT ![p] = @ + size]
             /\ minOcc' = [minOcc EXCEPT ![p] = GuaranteeAfter(p, size, carve)]
             /\ headroomOcc' = [headroomOcc EXCEPT ![p] = @ + carve.headroom]
     /\ routing' = IF drop THEN routing
                    ELSE Append(routing,
                      [in |-> p, to |-> to, size |-> size, min |-> carve.min,
                       shared |-> carve.shared, headroom |-> carve.headroom])
     /\ stopped' = (Pfc /\ ~drop /\ ingressFree < carve.shared)

\* A data packet no larger than the MTU arrives and is tagged.
ReceivePacket(p) ==
  /\ ~stopped /\ entered < MaxEntered
  /\ \E size \in CellSizes, to \in Ports \cup (IF p \in Unroutable THEN {NoRoute} ELSE {}) :
       ReceivedData(p, size, to)
  /\ entered' = entered + 1
  /\ UNCHANGED <<queues, egress, pfcPauses, frames, discarded>>

\* A PFC frame arrives; it takes effect after rx_pfc_delay_.  The port has one
\* message for that: a frame that comes sooner schedules it again, which
\* OMNeT++ answers with a runtime error.
ReceivedPfc(p) ==
  /\ ~stopped /\ Pfc /\ frames < MaxFrames
  /\ \E time \in PeerFrames : setPaused' = [setPaused EXCEPT ![p] = time]
  /\ frames' = frames + 1
  /\ stopped' = (setPaused[p] # None)
  /\ UNCHANGED <<routing, queues, mmu, egress, paused, refreshment, sending, lines,
                 entered, discarded>>
-----------------------------------------------------------------------------
(* Routing and queueing. *)

OverLimit(p, size) == egressOcc[p] + size >= egressFree * AlphaOut

\* The routing pipeline deletes a packet without TTL or route; its ingress
\* cells stay counted.  A packet over the port's or the queue's limit is
\* dropped, which is fatal under PFC.
RoutePacket ==
  /\ ~stopped /\ routing # <<>>
  /\ routing' = Tail(routing)
  /\ LET k == Head(routing) IN
     IF k.to = NoRoute
     THEN /\ discarded' = Append(discarded, k)
          /\ UNCHANGED <<queues, egress, lines, stopped>>
     ELSE /\ UNCHANGED discarded
          /\ IF OverLimit(k.to, k.size)
             THEN stopped' = Pfc /\ UNCHANGED <<queues, egress, lines>>
             ELSE /\ queues' = [queues EXCEPT ![k.to] = Append(@, k)]
                  /\ egressFree' = egressFree - k.size
                  /\ egressOcc' = [egressOcc EXCEPT ![k.to] = @ + k.size]
                  /\ Wake(k.to)
                  /\ stopped' = (egressFree < k.size)
  /\ UNCHANGED <<mmu, pfcPauses, sending, inputs>>
-----------------------------------------------------------------------------
(* Packets go out. *)

CanTransmit(p) == queues[p] # <<>> /\ ~(Pfc /\ paused[p])

\* A plausible bug: every cell goes back to the shared pool.
ReleaseToPool(k) ==
  /\ ingressFree' = ingressFree + k.size
  /\ ingressOcc' = [ingressOcc EXCEPT ![k.in] = @ - k.size]
  /\ minOcc' = [minOcc EXCEPT ![k.in] = @ - k.min]
  /\ headroomOcc' = [headroomOcc EXCEPT ![k.in] = @ - k.headroom]
  /\ stopped' = (k.size # k.min + k.shared + k.headroom)

\* The tag must account for the whole packet (CHECK_EQ); then the counters of
\* the packet's ingress port go down by what the tag says.
IngressAccountingRelease(k) ==
  /\ ingressFree' = ingressFree + k.shared
  /\ ingressOcc' = [ingressOcc EXCEPT ![k.in] = @ - k.size]
  /\ minOcc' = [minOcc EXCEPT ![k.in] = @ - k.min]
  /\ headroomOcc' = [headroomOcc EXCEPT ![k.in] = @ - k.headroom]
  /\ stopped' = (k.size # k.min + k.shared + k.headroom)

\* A plausible bug: the limit that ends a pause is taken without the guarantee.
PauseOverWithoutGuarantee(k) ==
  triggered[k.in] /\ ingressOcc[k.in] - k.size < (ingressFree + k.shared) * AlphaIn

\* The pause of the packet's ingress port ends once it is below its limit.
PauseOver(k) ==
  triggered[k.in] /\ ingressOcc[k.in] - k.size < (ingressFree + k.shared) * AlphaIn + Guarantee

\* The port that dequeues has more to send and stays active; ending a pause
\* may wake the ingress port.
DequeuedPacket(p, k) ==
  /\ IF Pfc THEN IngressAccountingRelease(k) ELSE UNCHANGED <<mmu, stopped>>
  /\ egressFree' = egressFree + k.size
  /\ egressOcc' = [egressOcc EXCEPT ![p] = @ - k.size]
  /\ IF Pfc /\ PauseOver(k) THEN DisablePfcSending(k.in) ELSE UNCHANGED sending

\* The effect of ScheduleOutput on a port that is active: the waiting PFC
\* frame first, then the queue's head, and every transmission schedules the
\* next output; with nothing to send the port goes idle.
Transmit(p) ==
  IF pfcQueue[p] # None
  THEN /\ pfcQueue' = [pfcQueue EXCEPT ![p] = None]
       /\ portActive' = [portActive EXCEPT ![p] = TRUE] /\ output' = [output EXCEPT ![p] = TRUE]
       /\ UNCHANGED <<queues, mmu, egress, triggered, sendPause, stopped>>
  ELSE IF CanTransmit(p)
  THEN LET k == Head(queues[p])
           woken == IF Pfc /\ PauseOver(k) /\ Xon THEN {p, k.in} ELSE {p} IN
       /\ queues' = [queues EXCEPT ![p] = Tail(@)]
       /\ DequeuedPacket(p, k)
       /\ portActive' = [q \in Ports |-> portActive[q] \/ q \in woken]
       /\ output' = [q \in Ports |-> output[q] \/ q = p \/ (q \in woken /\ ~portActive[q])]
  ELSE /\ portActive' = [portActive EXCEPT ![p] = FALSE] /\ output' = [output EXCEPT ![p] = FALSE]
       /\ UNCHANGED <<queues, mmu, egress, sending, stopped>>

\* The output event of a port.
ScheduleOutput(p) ==
  /\ ~stopped /\ output[p]
  /\ Transmit(p)
  /\ UNCHANGED <<routing, pfcPauses, inputs, discarded>>
-----------------------------------------------------------------------------
(* The events of PFC. *)

\* The pause takes effect, or ends (a pause of length 0); the refreshment of an
\* earlier pause is cancelled.
SetPfcPaused(p) ==
  /\ ~stopped /\ setPaused[p] # None
  /\ setPaused' = [setPaused EXCEPT ![p] = None]
  /\ paused' = [paused EXCEPT ![p] = setPaused[p] = "pause"]
  /\ refreshment' = [refreshment EXCEPT ![p] = setPaused[p] = "pause"]
  /\ UNCHANGED <<routing, queues, mmu, egress, sending, lines, inputs, discarded, stopped>>

\* Time reaches the end of the pause.
PauseEnds(p) ==
  /\ ~stopped /\ paused[p]
  /\ paused' = [paused EXCEPT ![p] = FALSE]
  /\ UNCHANGED <<routing, queues, mmu, egress, setPaused, refreshment, sending, lines,
                 inputs, discarded, stopped>>

\* A plausible bug: a port that is idle when its pause ends stays idle.
ResumeOutputLost(p) ==
  /\ ~stopped /\ refreshment[p] /\ ~paused[p]
  /\ refreshment' = [refreshment EXCEPT ![p] = FALSE]
  /\ UNCHANGED <<routing, queues, mmu, egress, setPaused, paused, sending, lines, inputs,
                 discarded, stopped>>

\* The refreshment event: a port that the pause sent idle looks again.
ResumeOutput(p) ==
  /\ ~stopped /\ refreshment[p] /\ ~paused[p]
  /\ refreshment' = [refreshment EXCEPT ![p] = FALSE]
  /\ IF portActive[p] THEN UNCHANGED <<queues, mmu, egress, sending, lines, stopped>>
     ELSE Transmit(p)
  /\ UNCHANGED <<routing, setPaused, paused, inputs, discarded>>

\* A plausible bug: the event of the next frame does not schedule another.
PfcPauseSendOnce(p) ==
  /\ ~stopped /\ sendPause[p]
  /\ sendPause' = [sendPause EXCEPT ![p] = FALSE]
  /\ IF triggered[p] THEN GeneratePfc(p, "pause") ELSE UNCHANGED <<pfcQueue, lines>>
  /\ UNCHANGED <<routing, queues, mmu, egress, pfcPauses, triggered, inputs, discarded, stopped>>

\* The next pause frame is due; nothing is sent when the pause is over.
PfcPauseSend(p) ==
  /\ ~stopped /\ sendPause[p]
  /\ IF triggered[p] THEN SendPfc(p)
     ELSE sendPause' = [sendPause EXCEPT ![p] = FALSE] /\ UNCHANGED <<pfcQueue, lines>>
  /\ UNCHANGED <<routing, queues, mmu, egress, pfcPauses, triggered, inputs, discarded, stopped>>
-----------------------------------------------------------------------------
Events(p) ==
  \/ ScheduleOutput(p) \/ SetPfcPaused(p) \/ PauseEnds(p) \/ ResumeOutput(p)
  \/ PfcPauseSend(p)

RouterNext ==
  \/ RoutePacket
  \/ \E p \in Ports : Events(p) \/ ReceivePacket(p) \/ ReceivedPfc(p)

RouterSpec == RouterInit /\ [][RouterNext]_routerVars
-----------------------------------------------------------------------------
(* Properties. *)

\* Every cell that leaves the egress pool is in the queue of a port.
EgressConserved ==
  /\ egressFree = EgressPool - Tally(egressOcc, Ports)
  /\ \A p \in Ports : egressOcc[p] = Cells(queues[p], Ports, "size")

\* The ingress counters are the sums of the tags.
IngressConserved ==
  /\ ingressFree = IngressPool - Booked(Ports, "shared")
  /\ \A p \in Ports :
       /\ ingressOcc[p] = Booked({p}, "size")
       /\ headroomOcc[p] = Booked({p}, "headroom")
       /\ minOcc[p] = Booked({p}, "size") - Booked({p}, "shared") - Booked({p}, "headroom")

\* The MMU's counters account for every cell (ReceivedData, RequestEnqueue,
\* DequeuedPacket, IngressAccountingRelease): each ingress counter is the sum of
\* what the tags of the packets inside say, the guarantee holds what the tags
\* book nowhere else, the pools hold the rest, and only the packets deleted by
\* the routing pipeline stay counted.  Without this a port's PFC trigger drifts
\* for the rest of the run.
CellsConserved ==
  RouterTypeOK /\ EgressConserved /\ (Pfc /\ ~stopped => IngressConserved)

\* "Check if the ingress packet metadata carries the correct packet memory
\* occupancy": the tag accounts for the whole packet (ReceivedData).
TagAccountsForPacket ==
  Pfc => \A s \in {routing} \cup Range(queues) : \A k \in Range(s) :
           k.size = k.min + k.shared + k.headroom

\* A port without an output event that has a PFC frame waiting, or a packet it
\* may send and no refreshment of an ended pause about to wake it.
AsleepOnWork(p) ==
  /\ ~output[p]
  /\ portActive[p] \/ pfcQueue[p] # None \/ (CanTransmit(p) /\ ~refreshment[p])

\* An X-on frame ends a pause and takes the refreshment with it.
XonCancelsRefreshment(p) == setPaused[p] = "xon" /\ refreshment[p] /\ SetPfcPaused(p)

\* No port falls asleep on work (EnqueuePacket, GeneratePfc, ResumeOutput) but in
\* one way: an X-on frame ends the pause of a port that is idle, and cancels the
\* refreshment that would have woken it ("it is an X-on PFC frame. So no need to
\* refresh the PFC pause state"); the port sleeps until a packet or frame comes.
SleepsOnlyAfterXon ==
  [][\A p \in Ports : AsleepOnWork(p)' => AsleepOnWork(p) \/ XonCancelsRefreshment(p)]_routerVars

\* A pause always has an end (EnablePfcSending, DequeuedPacket): while a port
\* keeps its peer paused, a packet of that peer is inside, whose dequeue will look
\* at the limit again, and the next pause frame is scheduled.  It holds at ports
\* where every packet has a route, whatever the others lose; DroppedCellsRestored
\* is about the others.
PauseHasRelease ==
  \A p \in Ports \ Unroutable :
    triggered[p] /\ ~stopped => sendPause[p] /\ Inside({p}, "size") > 0

\* The one way it may end otherwise: the last packet left while no cell was free,
\* so that a port without a guarantee had the limit 0, and the pause stayed.
LeavesFullPool ==
  \E p \in Ports \ Unroutable :
    triggered[p] /\ ~stopped /\ Inside({p}, "size") = 0 /\ TriggerLimit(p) = 0

\* "Restores the ingress counting if packet is dropped": a port that pauses its
\* peer and has nothing of it inside has no cells of it counted either
\* (IngressAccountingRelease, RoutePacket).  The routing pipeline deletes packets
\* and restores nothing: with no packet of the peer left no dequeue looks at the
\* limit again, and the peer stays paused for ever.
DroppedCellsRestored ==
  Pfc /\ ~stopped =>
    \A p \in Ports : triggered[p] /\ Inside({p}, "size") = 0 => ingressOcc[p] = 0
=============================================================================
