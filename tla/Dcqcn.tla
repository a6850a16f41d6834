------------------------------- MODULE Dcqcn -------------------------------
(***************************************************************************)
(* DCQCN, the congestion control of a RoCE queue pair: three timers start  *)
(* with the first congestion notification (CNP) and run for ever; the      *)
(* increase timer is restarted by every decrease, and the one it replaces  *)
(* is recognised by its start time when it fires.                          *)
(*                                                                         *)
(* Source: host/rdma/rdma_roce_cc_dcqcn.{h,cc}.                            *)
(*                                                                         *)
(* A timer first looks the queue pair up and works in the callback, an     *)
(* event of its own at the same time.  Times are relative to now.  The     *)
(* fixed-point units are parameters: 1024 is Unit, 2^alpha_to_rate_shift   *)
(* is Shift, byte_reset * 64 is ByteReset.                                 *)
(***************************************************************************)
EXTENDS Naturals, Sequences, SequencesExt, FiniteSetsExt

CONSTANTS
  MaxRate, FirstRate, MinRate,             \* rates, rate_to_set_on_first_cnp
  Unit, AlphaG, Shift, MinDecFac,          \* alpha and the decrease
  AlphaPeriod, DecreasePeriod, TimeReset,  \* the three timers
  ByteReset, StageThreshold, AiRate, HaiRate,
  ClampAlways, ClampAfterTime,             \* clamp_tgt_rate and its variant
  MaxCnps, MaxSends                        \* bounds on the environment

DcqcnAssumption ==
  /\ MinRate \in 1..FirstRate /\ FirstRate <= MaxRate
  /\ AlphaG \in 0..Unit /\ MinDecFac \in 0..100
  /\ {AlphaPeriod, DecreasePeriod, TimeReset, AiRate, HaiRate} \subseteq Nat \ {0}

VARIABLES
  rate, target,        \* the current and the target rate
  alpha,
  byteStage, timeStage,  \* increase stages, counted up to the last test
  bytes,               \* byte_count
  alphaCnp, decreaseCnp, firstCnp,
  age,                 \* time since rate_increase_timer_start_time
  agenda,              \* scheduled events, in the order they were scheduled
  cnps, sends          \* what is left of the bounds

ccVars == <<rate, target, alpha, byteStage, timeStage, bytes, alphaCnp,
            decreaseCnp, firstCnp, age>>
vars == <<ccVars, agenda, cnps, sends>>

Event(kind, in) == [kind |-> kind, in |-> in]

Lesser(a, b) == IF a < b THEN a ELSE b
Greater(a, b) == IF a < b THEN b ELSE a
NextStage(stage) == Lesser(stage + 1, StageThreshold + 1)

Init ==
  /\ rate = MaxRate /\ target = MaxRate /\ alpha = Unit - 1
  /\ byteStage = 0 /\ timeStage = 0 /\ bytes = 0
  /\ alphaCnp = FALSE /\ decreaseCnp = FALSE /\ firstCnp = TRUE
  /\ age = 0 /\ agenda = <<>>
  /\ cnps = MaxCnps /\ sends = MaxSends

\* A congestion notification.
HandleRxPacket ==
  /\ cnps > 0 /\ cnps' = cnps - 1
  /\ IF firstCnp
     THEN /\ firstCnp' = FALSE
          /\ alpha' = Unit - 1
          /\ alphaCnp' = FALSE /\ decreaseCnp' = FALSE
          /\ target' = FirstRate /\ rate' = FirstRate
          /\ agenda' = agenda \o <<Event("alpha", AlphaPeriod),
                                   Event("decrease", DecreasePeriod),
                                   Event("increase", TimeReset)>>
          /\ age' = 0
     ELSE /\ alphaCnp' = TRUE /\ decreaseCnp' = TRUE
          /\ UNCHANGED <<firstCnp, alpha, target, rate, agenda, age>>
  /\ UNCHANGED <<byteStage, timeStage, bytes, sends>>

\* IncreaseRate, from the stages as they are.
IncreaseRate ==
  LET raised == IF Lesser(timeStage, byteStage) > StageThreshold
                THEN target + HaiRate
                ELSE IF Greater(timeStage, byteStage) >= StageThreshold
                THEN target + AiRate ELSE target
  IN /\ target' = Lesser(raised, MaxRate)
     /\ rate' = (rate + target') \div 2

SentBytes ==
  /\ sends > 0 /\ sends' = sends - 1
  /\ IF bytes + 1 >= ByteReset
     THEN /\ IncreaseRate
          /\ bytes' = 0 /\ byteStage' = NextStage(byteStage)
     ELSE bytes' = bytes + 1 /\ UNCHANGED <<rate, target, byteStage>>
  /\ UNCHANGED <<alpha, timeStage, alphaCnp, decreaseCnp, firstCnp, age,
                 agenda, cnps>>
-----------------------------------------------------------------------------
(* Events. *)

Due == Min({agenda[i].in : i \in DOMAIN agenda})
Turn == Min({i \in DOMAIN agenda : agenda[i].in = Due})

\* What is left when the next event runs, with the time that has passed.
Rest ==
  LET others == RemoveAt(agenda, Turn)
  IN [i \in DOMAIN others |-> [others[i] EXCEPT !.in = @ - Due]]

Age == Lesser(age + Due, TimeReset + 1)

\* The first half of every timer: the lookup of the queue pair.
InitiateQpLookup(kind, callback) ==
  /\ agenda # <<>> /\ agenda[Turn].kind = kind
  /\ agenda' = Append(Rest, Event(callback, 0))
  /\ age' = Age
  /\ UNCHANGED <<rate, target, alpha, byteStage, timeStage, bytes, alphaCnp,
                 decreaseCnp, firstCnp, cnps, sends>>

UpdateAlpha ==
  /\ agenda # <<>> /\ agenda[Turn].kind = "updateAlpha"
  /\ alpha' = LET decayed == (AlphaG * alpha) \div Unit
              IN IF alphaCnp THEN Lesser(decayed + Unit - AlphaG, Unit - 1)
                 ELSE decayed
  /\ alphaCnp' = FALSE
  /\ agenda' = Append(Rest, Event("alpha", AlphaPeriod))
  /\ age' = Age
  /\ UNCHANGED <<rate, target, byteStage, timeStage, bytes, decreaseCnp,
                 firstCnp, cnps, sends>>

\* A plausible bug: the increase timer is cancelled but not started again.
RestartIncreaseNever(agendaSoFar) == agendaSoFar

RestartIncrease(agendaSoFar) ==
  Append(agendaSoFar, Event("increase", TimeReset))

DecreaseRate ==
  LET clamp == ClampAlways \/ byteStage > 0 \/ (ClampAfterTime /\ timeStage > 0)
      reduction == Lesser((rate * alpha) \div Shift,
                          (rate * (100 - MinDecFac)) \div 100)
  IN /\ target' = IF clamp THEN rate ELSE target
     /\ rate' = Greater(rate - reduction, MinRate)

CheckRateDecrease ==
  /\ agenda # <<>> /\ agenda[Turn].kind = "checkDecrease"
  /\ LET next == Append(Rest, Event("decrease", DecreasePeriod))
     IN IF decreaseCnp
        THEN /\ DecreaseRate
             /\ decreaseCnp' = FALSE
             /\ timeStage' = 0 /\ byteStage' = 0 /\ bytes' = 0
             /\ agenda' = RestartIncrease(next) /\ age' = 0
        ELSE /\ agenda' = next /\ age' = Age
             /\ UNCHANGED <<rate, target, decreaseCnp, timeStage, byteStage, bytes>>
  /\ UNCHANGED <<alpha, alphaCnp, firstCnp, cnps, sends>>

\* A timer that has been replaced finds another start time and ends.
CancelledIncrease ==
  /\ agenda # <<>> /\ agenda[Turn].kind = "increase" /\ Age # TimeReset
  /\ agenda' = Rest /\ age' = Age
  /\ UNCHANGED <<rate, target, alpha, byteStage, timeStage, bytes, alphaCnp,
                 decreaseCnp, firstCnp, cnps, sends>>

HandleRateIncreaseTimer ==
  /\ agenda # <<>> /\ Age = TimeReset
  /\ InitiateQpLookup("increase", "doIncrease")

\* The callback does not test again whether the timer was cancelled.
DoRateIncrease ==
  /\ agenda # <<>> /\ agenda[Turn].kind = "doIncrease"
  /\ agenda' = RestartIncrease(Rest) /\ age' = 0
  /\ IncreaseRate
  /\ timeStage' = NextStage(timeStage)
  /\ UNCHANGED <<alpha, byteStage, bytes, alphaCnp, decreaseCnp, firstCnp,
                 cnps, sends>>

Timers ==
  \/ InitiateQpLookup("alpha", "updateAlpha")
  \/ UpdateAlpha
  \/ InitiateQpLookup("decrease", "checkDecrease")
  \/ CheckRateDecrease
  \/ CancelledIncrease
  \/ HandleRateIncreaseTimer
  \/ DoRateIncrease

Next == HandleRxPacket \/ SentBytes \/ Timers

\* The event queue keeps running.
Fairness == WF_agenda(Timers)

Spec == Init /\ [][Next]_vars /\ Fairness
-----------------------------------------------------------------------------
\* Rates stay between the configured bounds and never pass their target.
RateBounded == MinRate <= rate /\ rate <= target /\ target <= MaxRate

\* Once no more CNPs come the rate climbs back to the line rate, less the
\* one the rounding division leaves: no order of the timers and of their
\* restarts lets the last increase timer die.
RateRecovers == <>[](rate >= MaxRate - 1)
=============================================================================
