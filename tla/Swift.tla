------------------------------- MODULE Swift -------------------------------
(***************************************************************************)
(* The congestion control algorithm of the rate update engine: from an     *)
(* event of a connection (an ACK, a NACK, a retransmission timeout, with a *)
(* snapshot of the connection's state) to the response that replaces that  *)
(* state.  Gen1 ("DNA") and Gen2 ("BNA", with multipathing) formats.       *)
(*                                                                         *)
(* A window is in the datapath a fixed-point number of packets, One being  *)
(* a packet; the algorithm computes in doubles, which are multiples of     *)
(* 1 / Grain of that unit here.  Factors are per cent; times are in Falcon *)
(* units and TimeMod is 2^kTimeBits.  FlowScaling stands for the target's  *)
(* alpha / sqrt(cwnd) + beta, clamped.                                     *)
(***************************************************************************)
EXTENDS Integers, FiniteSets, FiniteSetsExt

CONSTANTS
  Gen2,             \* BOOLEAN: the BNA event and response formats
  Flows,            \* the flows of a multipath connection, 0 included
  One, Grain,       \* fixed-point units in a packet, double units in one of those
  TimeMod,          \* 2^kTimeBits
  MaxGap,           \* 2^ipg_bits - 1
  MaxWeight,        \* kMaxFlowWeight
  FlowScaling(_),   \* a window (double) -> its share of the target delay
  P                 \* SwiftParameters: a record of the fields used below

Packet == One * Grain

ValidParameters ==
  /\ {P.min_fcwnd, P.max_fcwnd, P.min_ncwnd, P.max_ncwnd, P.fabric_ai, P.nic_ai,
      P.topo_per_hop, P.min_rto, P.rto_scalar, P.retransmit_limit, P.base_delay} \subseteq Nat
  /\ 1 <= P.min_fcwnd /\ P.min_fcwnd <= P.max_fcwnd
  /\ (IF Gen2 THEN Grain ELSE Packet) <= P.min_ncwnd /\ P.min_ncwnd <= P.max_ncwnd
  /\ P.fabric_ai > 0 /\ P.nic_ai >= Packet
  /\ {P.fabric_mdf, P.max_fabric_md, P.nic_mdf, P.max_nic_md} \subseteq 1..99
  /\ {P.rtt_alpha, P.delay_alpha} \subseteq 0..99
  /\ P.topo_per_hop > 0 /\ P.min_rto > 0 /\ P.rto_scalar >= 1 /\ P.retransmit_limit > 0
  /\ P.randomize_path /\ ~Gen2 => P.delay_alpha = 0
  /\ P.base_delay > 0 /\ P.delay_select \in {"full", "fabric", "forward", "reverse"}

\* The instance is one ConvertProfileToParameters accepts, and a window up to
\* its maximum (rounded) has a scaling.
SwiftAssumption ==
  /\ Gen2 \in BOOLEAN /\ 0 \in Flows /\ IsFiniteSet(Flows)
  /\ {One, Grain, MaxGap, MaxWeight} \subseteq Nat \ {0} /\ TimeMod \in Nat \ {0, 1}
  /\ ValidParameters
  /\ \A w \in 0..(P.max_fcwnd + Grain) : FlowScaling(w) \in Nat
-----------------------------------------------------------------------------
FixedToFloat(w) == w * Grain
FloatToFixed(d) == (2 * d + Grain) \div (2 * Grain)
TimeBits(t) == t % TimeMod
SaturateHigh(mask, n) == Min({mask, n})
Clamp(x, lo, hi) == Max({lo, Min({x, hi})})
GetWindowDelta(now, marker) == TimeBits(now - marker)

\* A plausible bug: the marker is left alone by a decrease.
MarkerKept(now, last, rtt, old, new, min) ==
  IF TimeBits(now - last) > rtt THEN TimeBits(now - rtt) ELSE last

GetFabricWindowTimeMarker(now, last, rtt, old, new, min) ==
  IF new < old \/ new = min THEN now
  ELSE IF TimeBits(now - last) > rtt THEN TimeBits(now - rtt) ELSE last

\* Gen1 guards increases too, and remembers the direction; Gen2 decreases only.
NicWindowGuard(e, now, rtt, old, new) ==
  LET fabricLike == GetFabricWindowTimeMarker(now, e.nmarker, rtt, old, new, P.min_ncwnd)
  IN  CASE Gen2 -> [time |-> fabricLike, dir |-> "decrease"]
        [] ~Gen2 /\ (new < old \/ new = P.min_ncwnd) -> [time |-> now, dir |-> "decrease"]
        [] ~Gen2 /\ ~(new < old \/ new = P.min_ncwnd) /\ (new > old \/ new = P.max_ncwnd)
             -> [time |-> now, dir |-> "increase"]
        [] OTHER -> [time |-> fabricLike, dir |-> e.dir]

GetPacketTiming(e) ==
  LET rtt == TimeBits(e.t4 - e.t1)
  IN  [rtt   |-> rtt,
       delay |-> CASE P.delay_select = "full"    -> rtt
                   [] P.delay_select = "fabric"  -> TimeBits(rtt - TimeBits(e.t3 - e.t2))
                   [] P.delay_select = "forward" -> TimeBits(e.t2 - e.t1)
                   [] P.delay_select = "reverse" -> TimeBits(e.t4 - e.t3)]

\* With no smoothing the old value is not looked at (Gen1 may keep PLB state there).
GetSmoothed(alpha, smoothed, value) ==
  IF alpha = 0 THEN value ELSE (smoothed * alpha + value * (100 - alpha)) \div 100

GetTargetDelay(cwnd, hops) ==
  SaturateHigh(TimeMod - 1, P.base_delay + FlowScaling(cwnd) + P.topo_per_hop * hops)

\* 0 from a window of one packet up, else rtt / cwnd in timing wheel units
\* (ipg_scalar per cent of a Falcon unit), rounded.
GetInterPacketGap(cwnd, rtt) ==
  IF cwnd >= Packet THEN 0
  ELSE SaturateHigh(MaxGap, (2 * rtt * Packet * P.ipg_scalar + 100 * cwnd) \div (200 * cwnd))

GetNicInterPacketGap(cwnd, rtt) == IF Gen2 THEN GetInterPacketGap(cwnd, rtt) ELSE 0

GetRetransmitTimeout(rtt, gap) ==
  Max({SaturateHigh(TimeMod - 1, rtt * P.rto_scalar + (gap * 100) \div P.ipg_scalar),
       P.min_rto})
-----------------------------------------------------------------------------
(* The windows. *)

\* What a delay (or buffer level) above its target leaves of a window.
ScaledDecrease(w, value, target, factor, max) ==
  (w * (100 * value - Min({max * value, (value - target) * factor}))) \div (100 * value)

ClampFabric(w) == Clamp(w, P.min_fcwnd, P.max_fcwnd)
ClampNic(w)    == Clamp(w, P.min_ncwnd, P.max_ncwnd)

ComputeAckFabricCongestionWindow(e, w, delay, target, rtt, delta) ==
  ClampFabric(
    CASE delay < target ->
           w + (IF w >= Packet THEN (P.fabric_ai * e.acked * Packet) \div w
                               ELSE P.fabric_ai * e.acked)
      [] delay >= target /\ delta >= rtt ->
           ScaledDecrease(w, delay, target, P.fabric_mdf, P.max_fabric_md)
      [] OTHER -> w)

ComputeNackFabricCongestionWindow(w, rtt, delta) ==
  ClampFabric(IF delta >= rtt THEN (w * (100 - P.max_fabric_md)) \div 100 ELSE w)

ComputeTimeoutFabricCongestionWindow(e, w, delta) ==
  ClampFabric(
    CASE delta >= e.rtt /\ e.count = 1 -> (w * (100 - P.max_fabric_md)) \div 100
      [] delta >= e.rtt /\ e.count # 1 /\ e.count >= P.retransmit_limit -> P.min_fcwnd
      [] OTHER -> w)

ComputeAckNicCongestionWindow(e, w, delta, rtt) ==
  ClampNic(
    CASE e.level < P.target_level /\ (Gen2 \/ e.dir = "decrease" \/ delta >= rtt) ->
           w + P.nic_ai
      [] e.level >= P.target_level /\ delta >= rtt ->
           ScaledDecrease(w, e.level, P.target_level, P.nic_mdf, P.max_nic_md)
      [] OTHER -> w)

ComputeNackNicCongestionWindow(e, w, delta, rtt) ==
  ClampNic(IF (~Gen2 /\ e.dir = "increase") \/ delta >= rtt
           THEN (w * (100 - P.max_nic_md)) \div 100 ELSE w)

UseMaxFabricDecrease(e) ==
  /\ P.max_decrease_on_drop
  /\ e.nack = "window" \/ (e.type = "ack" /\ e.eack_drop)

NewFabricWindow(e, w, delay, target, rtt, delta) ==
  IF UseMaxFabricDecrease(e) THEN ComputeNackFabricCongestionWindow(w, rtt, delta)
  ELSE ComputeAckFabricCongestionWindow(e, w, delay, target, rtt, delta)

NewNicWindow(e, w, delta, rtt) ==
  IF e.nack = "resource" THEN ComputeNackNicCongestionWindow(e, w, delta, rtt)
  ELSE ComputeAckNicCongestionWindow(e, w, delta, rtt)

\* In Gen1 the NIC window is a whole number of packets.
FloatNcwnd(e) == IF Gen2 THEN FixedToFloat(e.ncwnd) ELSE e.ncwnd * Packet
FixedNcwnd(d) == IF Gen2 THEN FloatToFixed(d) ELSE (2 * d + Packet) \div (2 * Packet)
-----------------------------------------------------------------------------
(* Path selection: a path is given up after plb_attempts rounds (windows of *)
(* acknowledged packets) in a row in which too many packets met congestion. *)

NoPlb == [acked |-> 0, congested |-> 0, attempts |-> 0]

ComputePlb(e, delay, target, plb, window) ==
  LET acked     == plb.acked + e.acked
      congested == plb.congested
                     + (IF 100 * delay > target * P.plb_multiplier THEN e.acked ELSE 0)
      attempts  == IF 100 * congested < P.plb_threshold * acked THEN 0
                   ELSE plb.attempts + 1
      reroute   == attempts # 0 /\ attempts >= P.plb_attempts
      ignored   == e.nack # "none" \/ ~P.randomize_path
  IN  CASE ignored -> [plb |-> plb, reroute |-> FALSE]
        [] ~ignored /\ acked * Packet >= window ->
             [plb |-> [NoPlb EXCEPT !.attempts = IF reroute THEN 0 ELSE attempts],
              reroute |-> reroute]
        [] OTHER -> [plb |-> [plb EXCEPT !.acked = acked, !.congested = congested],
                     reroute |-> FALSE]

PlbStateFromEvent(e) == IF Gen2 THEN e.plb ELSE e.dstate

DelayStateInResponse(delay, plb) ==
  IF ~Gen2 /\ P.randomize_path THEN plb ELSE delay

\* alpha = 2^(3 - shift) for the XOFF of a connection: the least alpha that is
\* not below 1/8 of num / den, between 2^-12 and 2^3.
AlphaShift(num, den) ==
  Max({s \in 0..15 : s = 6 \/ (s > 6 /\ den >= num * 2^(s - 6))})

BackpressureAlphas(e, delay, target) ==
  LET rtt   == [num |-> Min({target, Max({delay, 1})}), den |-> Max({delay, 1})]
      level == [num |-> Min({P.target_level, Max({e.level, 1})}), den |-> Max({e.level, 1})]
      less  == IF rtt.num * level.den <= level.num * rtt.den THEN rtt ELSE level
  IN  [request |-> AlphaShift(less.num, less.den), response |-> AlphaShift(rtt.num, rtt.den)]

RetransmitAlphas == [request |-> 7, response |-> 7]

ComputeFlowWeight(flowWindow, window) ==
  Clamp((2 * MaxWeight * flowWindow + window) \div (2 * window), 1, MaxWeight)
-----------------------------------------------------------------------------
(* One event of a connection with one path. *)

ProcessAckNack(e, now) ==
  LET timing == GetPacketTiming(e)
      old    == FixedToFloat(e.fcwnd)
      target == GetTargetDelay(old, e.hops)
      rtt    == GetSmoothed(P.rtt_alpha, e.rtt, timing.rtt)
      delay  == GetSmoothed(P.delay_alpha, e.dstate, timing.delay)
      calc   == IF P.calc_rtt_smooth THEN rtt ELSE timing.rtt
      fcwnd  == NewFabricWindow(e, old, delay, target, timing.rtt,
                                GetWindowDelta(now, e.fmarker))
      ncwnd  == NewNicWindow(e, FloatNcwnd(e), GetWindowDelta(now, e.nmarker), timing.rtt)
      guard  == NicWindowGuard(e, now, calc, FloatNcwnd(e), ncwnd)
      fgap   == GetInterPacketGap(fcwnd, calc)
      gap    == Max({fgap, GetNicInterPacketGap(ncwnd, calc)})
      plb    == ComputePlb(e, delay, target, PlbStateFromEvent(e),
                           Min({old, FloatNcwnd(e)}))
  IN  [cid |-> e.cid, flow |-> e.flow, multipath |-> FALSE,
       fcwnd |-> FloatToFixed(fcwnd), ncwnd |-> FixedNcwnd(ncwnd), gap |-> fgap,
       rto |-> GetRetransmitTimeout(rtt, gap),
       fmarker |-> GetFabricWindowTimeMarker(now, e.fmarker, calc, old, fcwnd, P.min_fcwnd),
       nmarker |-> guard.time, dir |-> guard.dir,
       dstate |-> DelayStateInResponse(delay, plb.plb), rtt |-> rtt, plb |-> plb.plb,
       alphas |-> BackpressureAlphas(e, timing.delay, target),
       reroute |-> plb.reroute, weights |-> [f \in Flows |-> 0]]

ProcessRetransmit(e, now) ==
  LET old   == FixedToFloat(e.fcwnd)
      fcwnd == ComputeTimeoutFabricCongestionWindow(e, old, GetWindowDelta(now, e.fmarker))
      fgap  == GetInterPacketGap(fcwnd, e.rtt)
      gap   == Max({fgap, GetNicInterPacketGap(ClampNic(FloatNcwnd(e)), e.rtt)})
  IN  [cid |-> e.cid, flow |-> e.flow, multipath |-> FALSE,
       fcwnd |-> FloatToFixed(fcwnd), ncwnd |-> e.ncwnd, gap |-> fgap,
       rto |-> GetRetransmitTimeout(e.rtt, gap),
       fmarker |-> GetFabricWindowTimeMarker(now, e.fmarker, e.rtt, old, fcwnd, P.min_fcwnd),
       nmarker |-> e.nmarker, dir |-> e.dir, dstate |-> e.dstate, rtt |-> e.rtt,
       plb |-> PlbStateFromEvent(e), alphas |-> RetransmitAlphas, reroute |-> FALSE,
       weights |-> [f \in Flows |-> 0]]
-----------------------------------------------------------------------------
(* One event of a multipath connection.  The engine's memory (RueState)     *)
(* keeps the windows of all flows and, of the flows but 0, the marker, rtt  *)
(* and PLB state; those of flow 0 travel in the event and the response.     *)

InitialFlow(rtt) == [marker |-> 0, rtt |-> rtt, plb |-> NoPlb]

FlowState(e, s) ==
  IF e.flow = 0 THEN [marker |-> e.fmarker, rtt |-> e.rtt, plb |-> e.plb]
  ELSE s.flows[e.flow]

\* The sum of the flows' windows.
TotalWindow(fcwnd) == Cardinality(UNION {{f} \X (1..fcwnd[f]) : f \in Flows})

\* A plausible bug: the window of flow 0 passes for the connection's.
StaleConnectionWindow(fcwnd) == ClampFabric(FixedToFloat(fcwnd[0]))

ConnectionWindow(fcwnd) == ClampFabric(FixedToFloat(TotalWindow(fcwnd)))

FlowWeights(fcwnd) ==
  [f \in Flows |-> ComputeFlowWeight(FixedToFloat(fcwnd[f]), ConnectionWindow(fcwnd))]

\* The response and the memory after the flow's state became `new'.
MultipathResult(e, s, fcwnd, new, rtts, ncwnd, guard, dstate, alphas, reroute) ==
  LET windows == [s.fcwnd EXCEPT ![e.flow] = FloatToFixed(fcwnd)]
      window  == ConnectionWindow(windows)
      maxRtt  == Max({rtts[f] : f \in Flows})
      fgap    == GetInterPacketGap(window, maxRtt)
      gap     == Max({fgap, GetNicInterPacketGap(ncwnd, maxRtt)})
      zero    == IF e.flow = 0 THEN new ELSE [marker |-> e.fmarker, rtt |-> e.rtt, plb |-> e.plb]
  IN  [state |-> [fcwnd |-> windows,
                  flows |-> IF e.flow = 0 THEN s.flows ELSE [s.flows EXCEPT ![e.flow] = new]],
       response |->
         [cid |-> e.cid, flow |-> e.flow, multipath |-> TRUE,
          fcwnd |-> FloatToFixed(window), ncwnd |-> FixedNcwnd(ncwnd), gap |-> fgap,
          rto |-> GetRetransmitTimeout(maxRtt, gap),
          fmarker |-> zero.marker, nmarker |-> guard.time, dir |-> guard.dir,
          dstate |-> dstate, rtt |-> zero.rtt, plb |-> zero.plb, alphas |-> alphas,
          reroute |-> reroute, weights |-> FlowWeights(windows)]]

Rtts(e, s) == [f \in Flows |-> IF f = 0 THEN e.rtt ELSE s.flows[f].rtt]

ProcessAckNackMultipath(e, s, now) ==
  LET flow   == FlowState(e, s)
      timing == GetPacketTiming(e)
      rtt    == GetSmoothed(P.rtt_alpha, flow.rtt, timing.rtt)
      calc   == IF P.calc_rtt_smooth THEN rtt ELSE timing.rtt
      old    == FixedToFloat(s.fcwnd[e.flow])
      target == GetTargetDelay(old, e.hops)
      fcwnd  == NewFabricWindow(e, old, timing.delay, target, timing.rtt,
                                GetWindowDelta(now, flow.marker))
      ncwnd  == NewNicWindow(e, FloatNcwnd(e), GetWindowDelta(now, e.nmarker), timing.rtt)
      plb    == ComputePlb(e, timing.delay, target, flow.plb, Min({old, FloatNcwnd(e)}))
      new    == [marker |-> GetFabricWindowTimeMarker(now, flow.marker, calc, old, fcwnd,
                                                      P.min_fcwnd),
                 rtt |-> rtt, plb |-> plb.plb]
  IN  MultipathResult(e, s, fcwnd, new, [Rtts(e, s) EXCEPT ![e.flow] = rtt], ncwnd,
                      NicWindowGuard(e, now, calc, FloatNcwnd(e), ncwnd), 0,
                      BackpressureAlphas(e, timing.delay, target), plb.reroute)

\* The guard of the timeout's decrease is flow 0's round trip (e.rtt), whichever
\* the flow; the NIC window and its marker are reflected.
ProcessRetransmitMultipath(e, s, now) ==
  LET flow  == FlowState(e, s)
      old   == FixedToFloat(s.fcwnd[e.flow])
      fcwnd == ComputeTimeoutFabricCongestionWindow(e, old, GetWindowDelta(now, flow.marker))
      new   == [flow EXCEPT !.marker = GetFabricWindowTimeMarker(now, flow.marker, flow.rtt,
                                                                old, fcwnd, P.min_fcwnd)]
      result == MultipathResult(e, s, fcwnd, new, Rtts(e, s), ClampNic(FloatNcwnd(e)),
                                [time |-> e.nmarker, dir |-> "decrease"], e.dstate,
                                RetransmitAlphas, FALSE)
  IN  [result EXCEPT !.response.ncwnd = e.ncwnd]

\* StatefulAlgorithm::Process: the event's response, and the engine's memory of
\* the connection afterwards.
Process(e, s, now) ==
  CASE e.multipath /\ e.type = "retransmit"  -> ProcessRetransmitMultipath(e, s, now)
    [] e.multipath /\ e.type # "retransmit"  -> ProcessAckNackMultipath(e, s, now)
    [] ~e.multipath /\ e.type = "retransmit" ->
         [state |-> s, response |-> ProcessRetransmit(e, now)]
    [] ~e.multipath /\ e.type # "retransmit" ->
         [state |-> s, response |-> ProcessAckNack(e, now)]
=============================================================================
