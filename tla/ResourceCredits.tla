-------------------------- MODULE ResourceCredits --------------------------
(***************************************************************************)
(* The ULP side of a Falcon's TX packet and TX buffer credits: requests    *)
(* draw on ulp_requests, pull responses on ulp_data, and with the pools    *)
(* oversubscribed a response may also draw on ulp_requests.  Transactions  *)
(* return their credits in any order.                                      *)
(*                                                                         *)
(* Source: host/falcon/falcon_resource_credits.cc, as used by              *)
(* falcon_protocol_resource_manager.cc on global_credits_.                 *)
(***************************************************************************)
EXTENDS Integers, FiniteSets, FiniteSetsExt

CONSTANTS
  MaxUlpRequests,  \* MaxUlpRequests[p]: ulp_requests of pool p at the start
  MaxUlpData,      \* MaxUlpData[p]: ulp_data of pool p at the start
  Sizes            \* TX buffer credits of a transaction

UlpPools == {"txPacket", "txBuffer"}
Kinds == {"request", "response"}

ASSUME UlpPoolAssumption ==
  /\ \A p \in UlpPools : MaxUlpRequests[p] \in Nat /\ MaxUlpData[p] \in Nat
  /\ Sizes \subseteq Nat \ {0} /\ IsFiniteSet(Sizes)

VARIABLES
  ulpCredits,       \* global_credits_: ulp_requests and ulp_data of each pool
  ulpTransactions   \* ulpTransactions[k][s]: outstanding ones of kind k and size s

ulpVars == <<ulpCredits, ulpTransactions>>

UlpInit ==
  /\ ulpCredits = [p \in UlpPools |-> [requests |-> MaxUlpRequests[p], data |-> MaxUlpData[p]]]
  /\ ulpTransactions = [k \in Kinds |-> [s \in Sizes |-> 0]]

\* ComputeOutgoing*Resources.
UlpNeed(s) == [txPacket |-> 1, txBuffer |-> s]

\* operator<=, with enable_ulp_pool_oversubscription: a response is compared
\* with the sum of the pools.
UlpWithin(k, n, c) ==
  /\ k = "request" => n <= c.requests
  /\ n <= c.requests + c.data

\* operator-=: a response takes from ulp_data first.
MinusAssign(k, n, c) ==
  LET fromData == IF k = "response" THEN Min({c.data, n}) ELSE 0
  IN [requests |-> c.requests - (n - fromData), data |-> c.data - fromData]

\* A plausible bug: what ulp_requests cannot take up is not added to ulp_data.
PlusAssignDrops(k, n, max, c) ==
  LET requests == IF k = "request" THEN c.requests + n ELSE c.requests
      data     == IF k = "response" THEN n ELSE 0
  IN IF c.data = 0
     THEN [requests |-> requests + Min({data, max - requests}), data |-> 0]
     ELSE [requests |-> requests, data |-> c.data + data]

\* operator+=: ulp_requests is replenished by a response only while ulp_data is
\* exhausted.
PlusAssign(k, n, max, c) ==
  LET requests == IF k = "request" THEN c.requests + n ELSE c.requests
      data     == IF k = "response" THEN n ELSE 0
      replenished == Min({data, max - requests})
  IN IF c.data = 0
     THEN [requests |-> requests + replenished, data |-> data - replenished]
     ELSE [requests |-> requests, data |-> c.data + data]

ReserveUlpResources(k, s) ==
  /\ \A p \in UlpPools : UlpWithin(k, UlpNeed(s)[p], ulpCredits[p])
  /\ ulpCredits' = [p \in UlpPools |-> MinusAssign(k, UlpNeed(s)[p], ulpCredits[p])]
  /\ ulpTransactions' = [ulpTransactions EXCEPT ![k][s] = @ + 1]

ReleaseUlpResources(k, s) ==
  /\ ulpTransactions[k][s] > 0
  /\ ulpCredits' = [p \in UlpPools |->
                      PlusAssign(k, UlpNeed(s)[p], MaxUlpRequests[p], ulpCredits[p])]
  /\ ulpTransactions' = [ulpTransactions EXCEPT ![k][s] = @ - 1]
-----------------------------------------------------------------------------
(* Properties. *)

\* The credits of pool p that transactions of kind k hold, counted one by one.
HeldBy(k, p) ==
  Cardinality(UNION {{s} \X (1..(ulpTransactions[k][s] * UlpNeed(s)[p])) : s \in Sizes})

\* The credits of a pool and those held add up to what was configured, and
\* neither count goes below zero, in whatever order transactions return what
\* they borrowed from either count.
UlpCreditsConserved ==
  \A p \in UlpPools :
    /\ ulpCredits[p].requests >= 0 /\ ulpCredits[p].data >= 0
    /\ ulpCredits[p].requests + ulpCredits[p].data
         + HeldBy("request", p) + HeldBy("response", p)
         = MaxUlpRequests[p] + MaxUlpData[p]

\* Types of the variables.
UlpTypeOK ==
  /\ ulpCredits \in [UlpPools -> [requests : Int, data : Int]]
  /\ ulpTransactions \in [Kinds -> [Sizes -> Nat]]
=============================================================================
