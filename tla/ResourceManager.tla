-------------------------- MODULE ResourceManager --------------------------
(***************************************************************************)
(* A Falcon's resource manager at work for both sides: the requests of the *)
(* network (NetworkAdmission) and the transactions of its own ULP          *)
(* (ResourceCredits).  They meet where the ULP answers a pull request it    *)
(* has acknowledged: the response takes TX credits, in competition with    *)
(* the ULP's own requests, until the network acknowledges it.              *)
(*                                                                         *)
(* Source: host/falcon/falcon_protocol_resource_manager.cc and             *)
(* host/rdma/rdma_falcon_model.cc (ProcessIncomingReadRequest).            *)
(***************************************************************************)
EXTENDS NetworkAdmission, ResourceCredits

\* The responses to pull requests are among the transactions of the ULP.
ASSUME ResponseAssumption ==
  \A r \in Requests : KindOf(r) = "pull" => Size[r[1]][r[2]] \in Sizes

VARIABLE responded  \* pull requests whose response the ULP has submitted

managerVars == <<vars, ulpVars, responded>>

ManagerInit == Init /\ UlpInit /\ responded = {}

\* The response to a pull request, once its ACK has been sent.
InitiatePullResponse(r) ==
  /\ KindOf(r) = "pull" /\ place[r] = "done" /\ r \notin responded
  /\ ReserveUlpResources("response", Size[r[1]][r[2]])
  /\ responded' = responded \cup {r}
  /\ UNCHANGED vars

\* A request of the local ULP.
InitiateUlpRequest(s) ==
  /\ ReserveUlpResources("request", s)
  /\ UNCHANGED <<vars, responded>>

\* A transaction is acknowledged by the network.
CompleteUlpTransaction(k, s) ==
  /\ ReleaseUlpResources(k, s)
  /\ UNCHANGED <<vars, responded>>

ManagerNext ==
  \/ Next /\ UNCHANGED <<ulpVars, responded>>
  \/ \E r \in Requests : InitiatePullResponse(r)
  \/ \E s \in Sizes : InitiateUlpRequest(s)
  \/ \E k \in Kinds, s \in Sizes : CompleteUlpTransaction(k, s)

ManagerSpec == ManagerInit /\ [][ManagerNext]_managerVars

ManagerFairSpec == ManagerSpec /\ Fairness

\* No credit of the network's or of the ULP's pools is lost or returned twice,
\* and requests that wait for a missing earlier one leave room for it.
AdmissionSound == IInv /\ UlpTypeOK /\ UlpCreditsConserved
=============================================================================
