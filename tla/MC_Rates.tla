------------------------------ MODULE MC_Rates ------------------------------
(***************************************************************************)
(* What a transmitter learns from the ACKs of its connections: the ACK     *)
(* information that its two windows share (SharedAcks), and what the rate  *)
(* update engine makes of the delays, with a Gen2 connection of two paths; *)
(* and the RDMA work scheduler, which learns of the credits that Falcon    *)
(* returns (MC_WorkScheduler).  `focus' says which one a behaviour is      *)
(* about; the others rest.                                                 *)
(***************************************************************************)
EXTENDS SharedAcks, RateUpdateEngine, MC_WorkScheduler

CONSTANTS
  Foci,                        \* the instances that are explored
  Delays                       \* round trips of the packets

VARIABLE focus

\* A packet is 4 units of a window in the datapath, 8 in the algorithm.
Parameters ==
  [min_fcwnd |-> 2, max_fcwnd |-> 16, min_ncwnd |-> 8, max_ncwnd |-> 16,
   fabric_ai |-> 8, nic_ai |-> 8, fabric_mdf |-> 80, max_fabric_md |-> 50,
   nic_mdf |-> 80, max_nic_md |-> 50, rtt_alpha |-> 50, delay_alpha |-> 0,
   topo_per_hop |-> 1, min_rto |-> 2, rto_scalar |-> 2, retransmit_limit |-> 2,
   randomize_path |-> TRUE, base_delay |-> 1, delay_select |-> "full",
   ipg_scalar |-> 100, max_decrease_on_drop |-> TRUE, target_level |-> 2,
   plb_multiplier |-> 100, plb_threshold |-> 50, plb_attempts |-> 1,
   calc_rtt_smooth |-> TRUE]

Scaling(w) == IF w >= 16 THEN 0 ELSE 1

\* A packet and its ACK that meet no queue, and ones that do.
Ways == {w \in {[out |-> 0, hold |-> 1, back |-> 0, hops |-> 0, level |-> 0],
                [out |-> 2, hold |-> 0, back |-> 1, hops |-> 1, level |-> 3]} :
           w.out + w.hold + w.back \in Delays}

ASSUME BoundsAssumption /\ EngineAssumption

RatesInit == focus \in Foci /\ Init /\ EngineInit /\ WorkInit

RatesNext ==
  /\ UNCHANGED focus
  /\ \/ focus = "shared" /\ Next /\ UNCHANGED <<engineVars, workVars>>
     \/ focus = "gen2" /\ EngineNext /\ UNCHANGED <<vars, workVars>>
     \/ focus = "work" /\ WorkNext /\ UNCHANGED <<vars, engineVars>>
     \/ focus # "work" /\ UNCHANGED <<vars, engineVars, workVars>>  \* at their bounds

\* The work scheduler's fairness (WorkFairness), of the behaviours that follow it.
RatesSpec ==
  /\ RatesInit /\ [][RatesNext]_<<focus, vars, engineVars, workVars>>
  /\ WF_workVars(focus = "work" /\ Event)
=============================================================================
