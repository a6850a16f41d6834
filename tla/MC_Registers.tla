---------------------------- MODULE MC_Registers ----------------------------
(***************************************************************************)
(* The registers of one connection: the transmit window's PSNs             *)
(* (SerialNumbers), its request counters (RequestCounters) and the ACK     *)
(* coalescing entry of the receive side (AckCoalescing); and a window that *)
(* runs to its end under fairness (SlidingWindow, without EACK, RACK or    *)
(* out-of-window pauses: the plainest means of recovery must do).  None of *)
(* them reads another, so a behaviour follows one of them, `focus', and    *)
(* the others rest: every behaviour of each is checked, and no product.    *)
(***************************************************************************)
EXTENDS AckCoalescing, SerialNumbers, RequestCounters

VARIABLES
  focus,                        \* the component whose behaviour it is
  txBase, txNext, txAcked, outstanding, contexts, retxQ, txOow, rxBase, rxReceived,
  rxAck, rxOow, ackDue, answered, net, accepts, completed  \* SlidingWindow

Sliding == INSTANCE SlidingWindow WITH
  TxSize <- 2, RxSize <- 1, Deferred <- {1}, Responding <- {0}, EackEarly <- FALSE,
  OooDistance <- 1, OooCount <- 1, NackLimit <- 2, PauseOnOow <- FALSE, Slack <- 0,
  MaxPsn <- 2, MaxNet <- 2

\* The instances are ones the components are written for.
ASSUME CountersAssumption /\ CoalescingAssumption

slidingVars ==
  <<txBase, txNext, txAcked, outstanding, contexts, retxQ, txOow, rxBase, rxReceived,
    rxAck, rxOow, ackDue, answered, net, accepts, completed>>
registerVars == <<focus, vars, psnVars, counterVars, slidingVars>>

RegistersInit ==
  /\ focus \in {"psns", "counters", "coalescing", "window"}
  /\ PsnInit /\ CountersInit /\ Init /\ Sliding!Init

\* The bound on PSNs is reached and everything is acknowledged.
PsnsUsedUp == trueBase = LastPsn

RegistersNext ==
  /\ UNCHANGED focus
  /\ \/ /\ focus = "psns"
        /\ PsnNext \/ ((crashed \/ PsnsUsedUp) /\ UNCHANGED psnVars)
        /\ UNCHANGED <<vars, counterVars, slidingVars>>
     \/ /\ focus = "counters" /\ CountersNext
        /\ UNCHANGED <<vars, psnVars, slidingVars>>
     \/ /\ focus = "coalescing" /\ Next
        /\ UNCHANGED <<psnVars, counterVars, slidingVars>>
     \/ /\ focus = "window" /\ Sliding!Next
        /\ UNCHANGED <<vars, psnVars, counterVars>>

RegistersSpec ==
  /\ RegistersInit /\ [][RegistersNext]_registerVars
  /\ focus = "counters" => CountersFairness
  /\ focus = "window" => Sliding!Fairness
-----------------------------------------------------------------------------
(* What must happen in the end; the invariants are the components' own.    *)

\* RequestCounters: the gates hold no request back for ever.
CountedRequestsEnd == focus = "counters" => GatesReopen

\* SlidingWindow: every packet offered to the window is eventually completed.
AllComplete == focus = "window" => Sliding!AllComplete
=============================================================================
