-------------------------- MODULE RateUpdateEngine --------------------------
(***************************************************************************)
(* The rate update engine: ACKs, NACKs and retransmission timeouts become  *)
(* events with a snapshot of the connection's congestion control metadata, *)
(* wait in the mailbox, are processed by Swift one at a time, and their    *)
(* responses overwrite the metadata later still.  At most one event of a   *)
(* key is in flight: a key is a connection in Gen1, a flow of a connection *)
(* in Gen2, where several events of one connection can be under way.       *)
(*                                                                         *)
(* Latencies (processing, mailbox) are any; the clock advances at will.    *)
(***************************************************************************)
EXTENDS Swift, Sequences

CONSTANTS
  Conns,            \* connections
  Paths,            \* [out, hold, back, hops, level]: times of a packet and its ACK on
                    \* their way, hops, and the receive buffer level the ACK reports
  Labels,           \* flow labels (what is left of one without the flow ID)
  Threshold1, Threshold2, Threshold3, QueueSize,   \* of the event queue
  TimeGap, AckCount,       \* predicate_1_time_threshold_, predicate_2_...
  MaxReported,             \* 2^kNumPacketsAckedBits - 1
  InitialFcwnd, InitialNcwnd, InitialRto, InitialRtt,
  MaxAcked, MaxEvents, MaxTime   \* bounds: unreported packets, events, clock

\* What the instance must be: a configuration the engine accepts, with an
\* initial window within the bounds that the flows can share.
EngineAssumption ==
  /\ SwiftAssumption
  /\ MaxTime < TimeMod      \* ToFalconTimeUnits checks the width of the clock
  /\ Flows # {0} => Gen2
  /\ {AckCount, MaxReported, InitialFcwnd, InitialRtt, MaxAcked, MaxEvents, MaxTime} \subseteq Nat
  /\ Labels # {}
  /\ \A p \in Paths : {p.out, p.hold, p.back, p.hops, p.level} \subseteq Nat
  /\ FixedToFloat(InitialFcwnd) \in P.min_fcwnd..P.max_fcwnd
  /\ \E share \in 0..InitialFcwnd : InitialFcwnd = share * Cardinality(Flows)

VARIABLES
  now,              \* the clock, in Falcon units
  meta,             \* congestion_control_metadata, by connection
  acked,            \* num_acked, by key
  outstanding,      \* outstanding_rue_event, by key
  lastEvent,        \* last_rue_event_time, by key (-MaxTime: never)
  events,           \* the mailbox (event_queue_)
  responses,        \* the algorithm's answers (response_queue_)
  scheduled,        \* queue_scheduled_: a ProcessNextEvent is scheduled
  callbacks,        \* HandleNextResponse callbacks that are scheduled
  rue,              \* the engine's memory of multipath connections
  everEvents,       \* history: events ever queued
  decreasedAt       \* history: the last decrease of a key's window

engineVars == <<now, meta, acked, outstanding, lastEvent, events, responses, scheduled,
                callbacks, rue, everEvents, decreasedAt>>

Keys == Conns \X Flows
Multipath == Flows # {0}
Never == -MaxTime

\* In Gen1 with path selection the delay state field holds the PLB counters.
InitialDelayState == IF ~Gen2 /\ P.randomize_path THEN NoPlb ELSE P.base_delay

InitialMetadata ==
  [fcwnd |-> InitialFcwnd, ncwnd |-> InitialNcwnd, gap |-> 0, rto |-> InitialRto,
   fmarker |-> 0, nmarker |-> 0, dir |-> "decrease", dstate |-> InitialDelayState,
   rtt |-> InitialRtt, plb |-> NoPlb, alphas |-> RetransmitAlphas,
   labels |-> [f \in Flows |-> CHOOSE l \in Labels : TRUE],
   weights |-> [f \in Flows |-> 1]]

InitialRueState ==
  [fcwnd |-> [f \in Flows |-> InitialFcwnd \div Cardinality(Flows)],
   flows |-> [f \in Flows \ {0} |-> InitialFlow(InitialRtt)]]

EngineInit ==
  /\ now = 0
  /\ meta = [c \in Conns |-> InitialMetadata]
  /\ acked = [k \in Keys |-> 0]
  /\ outstanding = [k \in Keys |-> FALSE]
  /\ lastEvent = [k \in Keys |-> Never]
  /\ events = <<>> /\ responses = <<>>
  /\ scheduled = FALSE /\ callbacks = 0
  /\ rue = [c \in Conns |-> InitialRueState]
  /\ everEvents = 0
  /\ decreasedAt = [k \in Keys |-> Never]
-----------------------------------------------------------------------------
\* n is the number of acknowledged packets the event would report.
CanEnqueueEvent(k, n) ==
  LET queued == Len(events)
      rested == now - lastEvent[k] >= TimeGap
      enough == n >= AckCount
  IN  /\ ~outstanding[k]
      /\ \/ queued < Threshold1
         \/ queued < Threshold2 /\ (rested \/ enough)
         \/ queued < Threshold3 /\ rested
         \/ queued < QueueSize /\ rested /\ enough

\* The snapshot of the metadata every event carries.
SnapshotEvent(k, type) ==
  LET m == meta[k[1]]
  IN  [cid |-> k[1], flow |-> k[2], multipath |-> Multipath, type |-> type,
       t1 |-> 0, t2 |-> 0, t3 |-> 0, t4 |-> 0, count |-> 0, nack |-> "none",
       hops |-> 0, level |-> 0, eack_drop |-> FALSE, acked |-> 0,
       fcwnd |-> m.fcwnd, ncwnd |-> IF Gen2 THEN m.ncwnd * One ELSE m.ncwnd,
       fmarker |-> m.fmarker, nmarker |-> m.nmarker, dir |-> m.dir,
       dstate |-> m.dstate, rtt |-> m.rtt, plb |-> m.plb]

\* What an ACK or a NACK that is received now says of its way (p) and the peer.
PacketEvent(k, type, p) ==
  [SnapshotEvent(k, type) EXCEPT
     !.t1 = now - (p.out + p.hold + p.back), !.t2 = now - (p.hold + p.back),
     !.t3 = now - p.back, !.t4 = now, !.hops = p.hops, !.level = p.level,
     !.acked = SaturateHigh(MaxReported, acked[k])]

FillExplicitAckEvent(k, p, drop) ==
  [PacketEvent(k, "ack", p) EXCEPT !.eack_drop = drop]

FillNackEvent(k, p, code) == [PacketEvent(k, "nack", p) EXCEPT !.nack = code]

FillTimeoutRetransmittedEvent(k, count) == [SnapshotEvent(k, "retransmit") EXCEPT !.count = count]

\* A plausible bug: the processing of the mailbox is scheduled by the first event only.
EnqueueUnscheduled(k, e) ==
  /\ outstanding' = [outstanding EXCEPT ![k] = TRUE]
  /\ lastEvent' = [lastEvent EXCEPT ![k] = now]
  /\ events' = Append(events, e)
  /\ scheduled' = (scheduled \/ everEvents = 0)
  /\ everEvents' = everEvents + 1

\* UpdateLastEventTime, PrepareForEnqueueEvent and the adapter's Enqueue.
EnqueueEvent(k, e) ==
  /\ outstanding' = [outstanding EXCEPT ![k] = TRUE]
  /\ lastEvent' = [lastEvent EXCEPT ![k] = now]
  /\ events' = Append(events, e)
  /\ scheduled' = TRUE
  /\ everEvents' = everEvents + 1

InTime(p) == p.out + p.hold + p.back <= now

\* An ACK or NACK: its event reports and clears what was acknowledged; when no
\* event can be queued nothing happens, and the count goes on.
PacketReceived(k, e) ==
  /\ everEvents < MaxEvents
  /\ IF CanEnqueueEvent(k, acked[k])
     THEN EnqueueEvent(k, e) /\ acked' = [acked EXCEPT ![k] = 0]
     ELSE UNCHANGED <<outstanding, lastEvent, events, scheduled, everEvents, acked>>
  /\ UNCHANGED <<now, meta, responses, callbacks, rue, decreasedAt>>

ExplicitAckReceived(k, p, drop) ==
  InTime(p) /\ PacketReceived(k, FillExplicitAckEvent(k, p, drop))

\* An ACK below the window's base, on another path than the one that moved it:
\* Gen2 uses it if it may report something.
HandleStaleAck(k, p) ==
  /\ Gen2 /\ InTime(p) /\ acked[k] # 0
  /\ PacketReceived(k, FillExplicitAckEvent(k, p, FALSE))

NackReceived(k, p, code) ==
  InTime(p) /\ PacketReceived(k, FillNackEvent(k, p, code))

\* A timeout clears the count first, whether or not its event can be queued.
HandlePacketTimeoutRetransmitted(k, count) ==
  /\ everEvents < MaxEvents
  /\ acked' = [acked EXCEPT ![k] = 0]
  /\ IF CanEnqueueEvent(k, 0)
     THEN EnqueueEvent(k, FillTimeoutRetransmittedEvent(k, Min({count, 6})))
     ELSE UNCHANGED <<outstanding, lastEvent, events, scheduled, everEvents>>
  /\ UNCHANGED <<now, meta, responses, callbacks, rue, decreasedAt>>

\* A packet leaves the window (after the unrolling delay, in Gen2).
AccumulateNumAcked(k) ==
  /\ acked[k] < MaxAcked
  /\ acked' = [acked EXCEPT ![k] = @ + 1]
  /\ UNCHANGED <<now, meta, outstanding, lastEvent, events, responses, scheduled, callbacks,
                 rue, everEvents, decreasedAt>>

Tick ==
  /\ now < MaxTime
  /\ now' = now + 1
  /\ UNCHANGED <<meta, acked, outstanding, lastEvent, events, responses, scheduled, callbacks,
                 rue, everEvents, decreasedAt>>
-----------------------------------------------------------------------------
FlowWindow(e) == IF Multipath THEN rue[e.cid].fcwnd[e.flow] ELSE e.fcwnd
NewFlowWindow(e, result) ==
  IF Multipath THEN result.state.fcwnd[e.flow] ELSE result.response.fcwnd
Decreases(e) == NewFlowWindow(e, Process(e, rue[e.cid], now)) < FlowWindow(e)

\* The mailbox is worked off in order; an empty one ends the processing.
ProcessNextEvent ==
  /\ scheduled
  /\ \/ /\ events = <<>>
        /\ scheduled' = FALSE
        /\ UNCHANGED <<events, responses, callbacks, rue, decreasedAt>>
     \/ /\ events # <<>>
        /\ LET e == Head(events)
               result == Process(e, rue[e.cid], now)
           IN  /\ responses' = Append(responses, result.response)
               /\ rue' = [rue EXCEPT ![e.cid] = result.state]
               /\ decreasedAt' = IF Decreases(e)
                                 THEN [decreasedAt EXCEPT ![<<e.cid, e.flow>>] = now]
                                 ELSE decreasedAt
        /\ events' = Tail(events)
        /\ callbacks' = callbacks + 1
        /\ UNCHANGED scheduled
  /\ UNCHANGED <<now, meta, acked, outstanding, lastEvent, everEvents>>

\* The response replaces the connection's metadata, whatever they are by now.
UpdateConnectionStateFromResponse(m, r, label) ==
  [m EXCEPT
     !.labels[r.flow] = IF r.reroute THEN label ELSE @,
     !.weights = IF r.multipath THEN r.weights ELSE @,
     !.fcwnd = r.fcwnd, !.gap = r.gap, !.rto = r.rto,
     !.ncwnd = IF Gen2 THEN Max({1, r.ncwnd \div One}) ELSE r.ncwnd,
     !.fmarker = r.fmarker, !.nmarker = r.nmarker, !.dir = IF Gen2 THEN @ ELSE r.dir,
     !.dstate = r.dstate, !.rtt = r.rtt,
     !.plb = IF Gen2 THEN r.plb ELSE @, !.alphas = IF Gen2 THEN r.alphas ELSE @]

\* The oldest response, whichever event's callback this is; a lower timeout also
\* re-arms the connection's retransmission timer (HandleRtoReduction of module
\* RetransmitTimer).
HandleNextResponse(label) ==
  /\ callbacks > 0
  /\ LET r == Head(responses)
     IN  /\ meta' = [meta EXCEPT ![r.cid] = UpdateConnectionStateFromResponse(@, r, label)]
         /\ outstanding' = [outstanding EXCEPT ![<<r.cid, r.flow>>] = FALSE]
  /\ responses' = Tail(responses)
  /\ callbacks' = callbacks - 1
  /\ UNCHANGED <<now, acked, lastEvent, events, scheduled, rue, everEvents, decreasedAt>>

EngineNext ==
  \/ \E k \in Keys :
       \/ AccumulateNumAcked(k)
       \/ \E p \in Paths :
            \/ \E drop \in BOOLEAN : ExplicitAckReceived(k, p, drop)
            \/ HandleStaleAck(k, p)
            \/ \E code \in {"resource", "window"} : NackReceived(k, p, code)
       \/ \E count \in 1..2 : HandlePacketTimeoutRetransmitted(k, count)
  \/ Tick
  \/ ProcessNextEvent
  \/ \E label \in Labels : HandleNextResponse(label)

EngineSpec == EngineInit /\ [][EngineNext]_engineVars
-----------------------------------------------------------------------------
InFlight(k) ==
  Cardinality({i \in DOMAIN events : <<events[i].cid, events[i].flow>> = k})
  + Cardinality({i \in DOMAIN responses : <<responses[i].cid, responses[i].flow>> = k})

\* The checks of PrepareForEnqueueEvent and HandleNextResponse: a key's flag is
\* set exactly while one event or response of it is under way, every response
\* has its callback, and the mailbox is never left without one.
EventsAccounted ==
  /\ \A k \in Keys : InFlight(k) = (IF outstanding[k] THEN 1 ELSE 0)
  /\ callbacks = Len(responses)
  /\ events # <<>> => scheduled

\* The window the datapath uses is, once no response of the connection is under
\* way, the sum of its flows' windows in the engine's memory, and some flow has
\* a weight: out-of-date snapshots of the whole never reach it.
WindowIsSumOfFlows ==
  \A c \in Conns :
    /\ Multipath /\ (\A i \in DOMAIN responses : responses[i].cid # c)
         => meta[c].fcwnd = FloatToFixed(ClampFabric(FixedToFloat(TotalWindow(rue[c].fcwnd))))
    /\ \E f \in Flows : meta[c].weights[f] > 0

RoundTrip(e) == IF e.type = "retransmit" THEN e.rtt ELSE TimeBits(e.t4 - e.t1)

\* ComputeAckFabricCongestionWindow: "at most one decrease per round-trip time".
\* With one path, a step that lowers the window of a connection comes a round
\* trip (the event's own, or the last measured for a timeout) after the step
\* that lowered it last, although the marker it tests is a snapshot.
DecreaseIsDue ==
  ~Multipath /\ events # <<>> /\ events' = Tail(events)
    => LET e == Head(events)
       IN  Decreases(e) => now - decreasedAt[<<e.cid, e.flow>>] >= RoundTrip(e)
=============================================================================
