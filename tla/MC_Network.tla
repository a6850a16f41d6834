----------------------------- MODULE MC_Network -----------------------------
(***************************************************************************)
(* The hosts of MC_Hosts and the network they share: the routing of a      *)
(* router (Routing; its ports and memory are in MC_Schedulers), and what   *)
(* runs over it without Falcon: a RoCE queue pair (RoceTransport), writes  *)
(* with a read between them and reads with a write between them, and its   *)
(* congestion control (Dcqcn).  A behaviour follows one of them, `focus'.  *)
(***************************************************************************)
EXTENDS MC_Hosts, TLC

VARIABLES
  ndv6, vrfs, flows,                                        \* Routing
  i, t, posted, requests, answers, queueActive, runs, pfcXoff, losses, pauses,
  taken, answered, completed, failed,                       \* RoceTransport
  rate, target, alpha, byteStage, timeStage, bytes, alphaCnp, decreaseCnp,
  firstCnp, age, agenda, cnps, sends                        \* Dcqcn

Routes == INSTANCE Routing WITH
  Width <- 2, Vrfs <- {"default", "vrf"}, DefaultVrf <- "default",
  MacToVrf <- ("up" :> "vrf"), Macs <- {"up", "down"},
  Groups <- (1 :> <<[weight |-> 2, port |-> 4], [weight |-> 1, port |-> 5]>>),
  GroupIds <- {1, 2}, NeighbourPorts <- {8, 9}, HashBits <- 8, MaxRoutes <- 2

Write(n) == [read |-> FALSE, packets |-> n]
Read(n) == [read |-> TRUE, packets |-> n]

Writer == INSTANCE RoceTransport WITH
  Ops <- <<Write(2), Read(1), Write(1)>>, Faults <- {"request", "data"},
  PsnRange <- 16, ValidPsnRange <- 8, FirstPsn <- 13, AckThreshold <- 2,
  MaxRetry <- 8, MaxLosses <- 2, MaxPauses <- 1,
  responses <- answers, active <- queueActive, xoff <- pfcXoff

Reader == INSTANCE RoceTransport WITH
  Ops <- <<Read(2), Write(2), Read(2)>>, Faults <- {"request"},
  PsnRange <- 16, ValidPsnRange <- 8, FirstPsn <- 13, AckThreshold <- 2,
  MaxRetry <- 8, MaxLosses <- 2, MaxPauses <- 1,
  responses <- answers, active <- queueActive, xoff <- pfcXoff

Control == INSTANCE Dcqcn WITH
  MaxRate <- 12, FirstRate <- 10, MinRate <- 1, Unit <- 4, AlphaG <- 3, Shift <- 8,
  MinDecFac <- 50, AlphaPeriod <- 1, DecreasePeriod <- 2, TimeReset <- 4,
  ByteReset <- 2, StageThreshold <- 1, AiRate <- 1, HaiRate <- 2,
  ClampAlways <- FALSE, ClampAfterTime <- TRUE, MaxCnps <- 4, MaxSends <- 2

\* The instances are ones the components are written for.
ASSUME Writer!RoceAssumption /\ Reader!RoceAssumption /\ Control!DcqcnAssumption

routesVars == <<ndv6, vrfs, flows>>
roceVars ==
  <<i, t, posted, requests, answers, queueActive, runs, pfcXoff, losses, pauses,
    taken, answered, completed, failed>>
controlVars ==
  <<rate, target, alpha, byteStage, timeStage, bytes, alphaCnp, decreaseCnp,
    firstCnp, age, agenda, cnps, sends>>
fabricVars == <<routesVars, roceVars, controlVars>>

NetworkInit ==
  /\ focus \in {"admission", "rnr", "path", "life", "routes", "writer", "reader", "control"}
  /\ HostsInit
  /\ Routes!Init /\ Writer!Init /\ Control!Init

FabricNext ==
  \/ focus = "routes" /\ Routes!Next /\ UNCHANGED <<roceVars, controlVars>>
  \/ focus = "writer" /\ Writer!Next /\ UNCHANGED <<routesVars, controlVars>>
  \/ focus = "reader" /\ Reader!Next /\ UNCHANGED <<routesVars, controlVars>>
  \/ focus = "control" /\ Control!Next /\ UNCHANGED <<routesVars, roceVars>>

NetworkNext ==
  /\ UNCHANGED focus
  /\ \/ HostsNext /\ UNCHANGED fabricVars
     \/ FabricNext /\ UNCHANGED hostsVars

\* The fairness of the component that is followed; the routes' property is an
\* invariant.
FabricFairness ==
  /\ WF_roceVars(focus = "writer" /\ Writer!PostOp) /\ WF_roceVars(focus = "writer" /\ Writer!CreateRequestPacket)
  /\ WF_roceVars(focus = "writer" /\ Writer!HandleRto) /\ WF_roceVars(focus = "writer" /\ Writer!CreateResponsePacket)
  /\ WF_requests(focus = "writer" /\ Writer!Arrives(requests))
  /\ WF_answers(focus = "writer" /\ Writer!Arrives(answers))
  /\ WF_roceVars(focus = "writer" /\ Writer!HandleAckCoalescingTimeout)
  /\ \A h \in {"initiator", "target"} :
       /\ WF_roceVars(focus = "writer" /\ pfcXoff[h] /\ Writer!SetPfcXoff(h))
       /\ WF_roceVars(focus = "writer" /\ Writer!IdleRun(h))
  /\ WF_roceVars(focus = "reader" /\ Reader!PostOp) /\ WF_roceVars(focus = "reader" /\ Reader!CreateRequestPacket)
  /\ WF_roceVars(focus = "reader" /\ Reader!HandleRto) /\ WF_roceVars(focus = "reader" /\ Reader!CreateResponsePacket)
  /\ WF_requests(focus = "reader" /\ Reader!Arrives(requests))
  /\ WF_answers(focus = "reader" /\ Reader!Arrives(answers))
  /\ WF_roceVars(focus = "reader" /\ Reader!HandleAckCoalescingTimeout)
  /\ \A h \in {"initiator", "target"} :
       /\ WF_roceVars(focus = "reader" /\ pfcXoff[h] /\ Reader!SetPfcXoff(h))
       /\ WF_roceVars(focus = "reader" /\ Reader!IdleRun(h))
  /\ WF_agenda(focus = "control" /\ Control!Timers)

NetworkSpec ==
  /\ NetworkInit /\ [][NetworkNext]_<<focus, hostsVars, fabricVars>>
  /\ HostsFairness /\ FabricFairness
-----------------------------------------------------------------------------
(* The properties of the instances; the components' modules explain them.   *)

\* Routing: the trie answers the longest prefix, and a packet gets a port of
\* that route as often as the weights say.
RoutingSound ==
  focus = "routes" => Routes!TypeOK /\ Routes!LongestPrefixMatch /\ Routes!RoutedAsConfigured

\* RoceTransport: the index of the next op names the next PSN, ops complete
\* after the target took their packets, and a packet that waits for its answer
\* has a timer or a scheduler event.
RoceQueueSound ==
  /\ focus \in {"writer", "reader"} => Writer!IndexNamesNextPsn /\ Writer!SomethingPending
  /\ focus = "writer" => Writer!CompletedWereTaken
  /\ focus = "reader" => Reader!CompletedWereTaken

\* RoceTransport: every op posted completes, and then stays so.
RoceOpsComplete == []<>(focus \in {"writer", "reader"} => Len(completed) = 3)

\* Dcqcn: once no more CNPs come the rate climbs back to the line rate.
RateRecovers == <>[](focus = "control" => rate >= 11)
=============================================================================
