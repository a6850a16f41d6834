----------------------------- MODULE MC_Windows -----------------------------
(***************************************************************************)
(* The packet windows of one connection: one window and its channel in     *)
(* full (SlidingWindow) and the timers that serve both windows             *)
(* (RetransmitTimer), with a packet in each window and with two in one.    *)
(* Each is its own abstraction of the packet reliability manager, so a     *)
(* behaviour follows one of them, `focus', and the other rests.            *)
(***************************************************************************)
EXTENDS SlidingWindow, RetransmitTimer

VARIABLE focus  \* the component whose behaviour it is

\* The instances are ones the components are written for.
ASSUME TimerAssumption

windowsVars == <<focus, vars, retransmitVars>>

\* The windows are alike: the first packet is one of the request window.
WindowsInit ==
  /\ focus \in {"window", "timer"}
  /\ Init /\ TimerInit
  /\ windowOf[0] = "request"
  /\ focus = "window" => rto = 1 /\ windowOf[1] = "data"

WindowsNext ==
  /\ UNCHANGED focus
  /\ \/ focus = "window" /\ Next /\ UNCHANGED retransmitVars
     \/ /\ focus = "timer"
        /\ TimerNext \/ (now = MaxTime /\ UNCHANGED retransmitVars)
        /\ UNCHANGED vars

WindowsSpec == WindowsInit /\ [][WindowsNext]_windowsVars
=============================================================================
