------------------------------ MODULE MC_Hosts ------------------------------
(***************************************************************************)
(* What a host does with the requests it sends and receives: its resource  *)
(* manager for two connections that compete for the pools                  *)
(* (ResourceManager), receiver-not-ready handling (ReceiverNotReady), the  *)
(* way of payload to the memory of two hosts (HostRxPath) and the whole    *)
(* life of transactions between two hosts (TransactionLifecycle).  A       *)
(* behaviour follows one of them, `focus', and the others rest.  Module    *)
(* MC_Network adds the network between the hosts.                          *)
(***************************************************************************)
EXTENDS ResourceManager, ReceiverNotReady, HostRxPath, TransactionLifecycle

CONSTANTS c1, c2, h1, h2

MCHosts == {h1, h2}
MCConns == {c1, c2}
MCCount == [c \in MCConns |-> 3]
MCKind ==
  [c \in MCConns |->
     IF c = c1 THEN [i \in 0..2 |-> <<"push", "pull", "push">>[i + 1]]
     ELSE [i \in 0..2 |-> <<"pull", "unsolicited", "push">>[i + 1]]]
MCSize ==
  [c \in MCConns |-> IF c = c1 THEN [i \in 0..2 |-> <<2, 1, 2>>[i + 1]]
                     ELSE [i \in 0..2 |-> <<2, 2, 1>>[i + 1]]]
MCTotal == [rxPacket |-> 3, rxBuffer |-> 5, txPacket |-> 2]
MCGreenEnd == [rxPacket |-> 1, rxBuffer |-> 2, txPacket |-> 1]
MCYellowEnd == [rxPacket |-> 2, rxBuffer |-> 4, txPacket |-> 2]
MCProfile == [rxPacket |-> 3, rxBuffer |-> 4, txPacket |-> 2]
MCMaxUlpRequests == [txPacket |-> 2, txBuffer |-> 3]
MCMaxUlpData == [txPacket |-> 1, txBuffer |-> 1]

MCWorkloads ==
  {<<"kPull", "kPushSolicited">>, <<"kPushSolicited", "kPushUnsolicited">>,
   <<"kPushUnsolicited", "kPull">>}

VARIABLE focus  \* the component whose behaviour it is

\* The instances are ones the components are written for.
ASSUME RnrAssumption /\ PathAssumption /\ LifecycleAssumption

hostsVars == <<managerVars, rnrVars, pathVars, lifeVars>>

\* What a component may start with is settled where it is not followed.
HostsInit ==
  /\ ManagerInit /\ RnrInit /\ PathInit /\ LifeInit
  /\ focus # "rnr" => ordered
  /\ focus # "life" => work[1] = "kPull" /\ mode = "kOrdered"

HostsNext ==
  \/ focus = "admission" /\ ManagerNext /\ UNCHANGED <<rnrVars, pathVars, lifeVars>>
  \/ focus = "rnr" /\ RnrNext /\ UNCHANGED <<managerVars, pathVars, lifeVars>>
  \/ focus = "path" /\ PathNext /\ UNCHANGED <<managerVars, rnrVars, lifeVars>>
  \/ focus = "life" /\ LifeNext /\ UNCHANGED <<managerVars, rnrVars, pathVars>>

\* The fairness of the component that is followed.
HostsFairness ==
  /\ \A r \in Requests :
       /\ WF_vars(focus = "admission" /\ ReserveResources(r))
       /\ WF_vars(focus = "admission" /\ SendGrant(r))
       /\ WF_vars(focus = "admission" /\ ReceivePushData(r))
       /\ WF_vars(focus = "admission" /\ ReorderCallback(r))
       /\ WF_vars(focus = "admission" /\ AckTransaction(r))
  /\ \A r \in TargetRsns :
       /\ WF_rnrVars(focus = "rnr" /\ InsertPacket(r))
       /\ WF_rnrVars(focus = "rnr" /\ HandleRnrTimeout(r))
       /\ WF_rnrVars(focus = "rnr" /\ TransferToHost(r))
  /\ WF_rnrVars(focus = "rnr" /\ (ProcessRefused \/ ProcessAccepted))
  /\ SF_rnrVars(focus = "rnr" /\ ProcessAccepted)
  /\ WF_rnrVars(focus = "rnr" /\ (TransferAck \/ WaitForHost \/ TransferNack))
  /\ WF_pathVars(focus = "path" /\ ScheduleWork)
  /\ WF_pathVars(focus = "path" /\ PipelineDequeue)
  /\ \A h \in Hosts : WF_pathVars(focus = "path" /\ TransmitComplete(h))
  /\ WF_lifeVars(focus = "life" /\ LifeNext)
-----------------------------------------------------------------------------
(* The liveness properties; the invariants are in the components' modules. *)

\* NetworkAdmission: every request of every connection is finally done.
AllRequestsDone == []<>(focus = "admission" => AllDone)

\* ReceiverNotReady: every request is finally accepted and acknowledged.
EveryRequestAcked == []<>(focus = "rnr" => Acked = TargetRsns)

\* TransactionLifecycle: every transaction ends, with its metadata erased at both
\* hosts.
EveryTransactionEnds ==
  []<>(focus = "life" => Gone("kInitiator") /\ Gone("kTarget"))
=============================================================================
