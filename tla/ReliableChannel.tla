--------------------------- MODULE ReliableChannel ---------------------------
(***************************************************************************)
(* What a Falcon packet window promises the layers above it: every packet  *)
(* is admitted at most once, out of order if need be; push data is         *)
(* acknowledged when the upper layer protocol (ULP) has taken it and        *)
(* everything else when it is admitted; and the sender learns of a packet  *)
(* only what is already true of it.  No network, no window and no timer.   *)
(***************************************************************************)
EXTENDS Naturals

CONSTANTS
  MaxPsn,   \* bound: packets offered to the channel
  Deferred  \* packets the receiving ULP acknowledges

VARIABLES
  sent,          \* packets 0..sent-1 have been sent
  admissions,    \* how often each packet was admitted at the receiver
  acknowledged,  \* packets acknowledged at the receiver
  completed      \* packets completed at the sender

chanVars == <<sent, admissions, acknowledged, completed>>

ChanInit ==
  /\ sent = 0
  /\ admissions = [p \in 0..(MaxPsn - 1) |-> 0]
  /\ acknowledged = {} /\ completed = {}

Send ==
  /\ sent < MaxPsn
  /\ sent' = sent + 1
  /\ UNCHANGED <<admissions, acknowledged, completed>>

Admit(p) ==
  /\ p < sent /\ admissions[p] = 0
  /\ admissions' = [admissions EXCEPT ![p] = 1]
  /\ acknowledged' = IF p \in Deferred THEN acknowledged
                     ELSE acknowledged \cup {p}
  /\ UNCHANGED <<sent, completed>>

Acknowledge(p) ==
  /\ p \in Deferred /\ admissions[p] = 1 /\ p \notin acknowledged
  /\ acknowledged' = acknowledged \cup {p}
  /\ UNCHANGED <<sent, admissions, completed>>

Complete(S) ==
  /\ S \subseteq acknowledged
  /\ completed' = completed \cup S
  /\ UNCHANGED <<sent, admissions, acknowledged>>

ChanNext ==
  \/ Send
  \/ \E p \in 0..(MaxPsn - 1) : Admit(p) \/ Acknowledge(p)
  \/ \E S \in SUBSET acknowledged : Complete(S)

ChanSpec == ChanInit /\ [][ChanNext]_chanVars

=============================================================================
