---------------------------- MODULE FastScheduler ----------------------------
(***************************************************************************)
(* The event-based connection and retransmission schedulers of Falcon:     *)
(* eligibility is cached in round robin policies, and every change of a    *)
(* gating variable brings the caches of its connection up to date.         *)
(*                                                                         *)
(* Source: host/falcon/falcon_protocol_fast_connection_scheduler.cc,       *)
(* falcon_protocol_fast_retransmission_scheduler.cc, gating_variable.h and *)
(* the gating functions of falcon_protocol_connection_state_manager.cc.    *)
(***************************************************************************)
EXTENDS SchedulerQueues, TLC

CONSTANT Normalizer     \* kPacketTypeWeightNormalizer

RR == INSTANCE RoundRobin

Ones(E) == [e \in E |-> 1]

NewFast ==
  [conn    |-> [t \in QueueTypes |-> RR!NewPolicy(Conns, Ones(Conns), Max(Conns))],
   type    |-> RR!NewPolicy(QueueTypes, [t \in QueueTypes |-> 0], PullData),
   phantom |-> {},           \* active in phantom_connection_policy_
   push    |-> {},           \* active in ordered_push_req_connection_policy_
   retx    |-> RR!NewPolicy(Conns, Ones(Conns), Max(Conns)),
   window  |-> [c \in Conns |-> "request"]]          \* next_window_type_
  @@ EmptyQueues

(***************************************************************************)
(* Who has work.                                                           *)
(***************************************************************************)
\* ComputePacketTypeWeight
Weights(z) == [t \in QueueTypes |-> (z.count[t] + Normalizer - 1) \div Normalizer]

ConnectionHasWork(z) == z.phantom # {} \/ (~z.xoff /\ RR!HasWork(z.type, Weights(z)))
RetransmissionHasWork(z) == ~z.xoff /\ RR!HasWork(z.retx, Ones(Conns))
AckHasWork(z) == ~z.xoff /\ z.acks > 0
ArbiterHasWork(z) == ConnectionHasWork(z) \/ RetransmissionHasWork(z) \/ AckHasWork(z)

\* Asking for work starts rounds: the policies that the short circuit reaches.
Asked(z) ==
  [z EXCEPT !.type = IF z.phantom = {} /\ ~z.xoff THEN RR!Current(@, Weights(z)) ELSE @,
            !.retx = IF ~ConnectionHasWork(z) /\ ~z.xoff THEN RR!Current(@, Ones(Conns)) ELSE @]

ScheduleSchedulerArbiter(z) ==
  IF z.scheduled THEN z ELSE [Asked(z) EXCEPT !.scheduled = ArbiterHasWork(z)]

(***************************************************************************)
(* Eligibility.                                                            *)
(***************************************************************************)
\* A queue of c whose head may go as far as c alone is concerned.
HeadMayGo(z, c, t) ==
  /\ ~IsEmpty(z, c, t)
  /\ \/ IsPhantom(z, c, t)
     \/ /\ c \notin z.limited
        /\ MayGo(z, c, Peek(z, c, t))
        /\ MeetsCc(z, c, Peek(z, c, t).type) /\ MeetsOow(z, c, Peek(z, c, t).type)

\* The first half of RecomputeEligibility: the policies within c.  The ordered
\* push policy is left alone when the head is a phantom or c is rate limited.
RecomputeConnection(z, c) ==
  LET push == ~IsEmpty(z, c, Requests) /\ HeadMayGo(z, c, Requests)
                 /\ Peek(z, c, Requests).type = "push_request"
      skip == ~IsEmpty(z, c, Requests) /\ (IsPhantom(z, c, Requests) \/ c \in z.limited)
  IN [z EXCEPT
        !.conn = [t \in QueueTypes |-> RR!Mark(@[t], c, HeadMayGo(z, c, t))],
        !.phantom = IF IsPhantom(z, c, Requests) THEN @ \cup {c} ELSE @ \ {c},
        !.push = IF skip THEN @ ELSE IF push THEN @ \cup {c} ELSE @ \ {c}]

\* The second half: which packet types any connection may send.
Admitted(z, t) ==
  CASE t = Grants -> MeetsAdmission(z, "push_grant")
    [] t = Requests -> z.push # {} \/ z.phantom # {} \/ MeetsAdmission(z, "pull_request")
    [] OTHER -> TRUE
RecomputeTypes(z) ==
  LET active == {t \in QueueTypes : Admitted(z, t) /\ RR!HasWork(z.conn[t], Ones(Conns))}
      mark[t \in 0..5] == IF t = 0 THEN z.type ELSE RR!Mark(mark[t - 1], t - 1, t - 1 \in active)
  IN [z EXCEPT
        !.conn = [t \in QueueTypes |-> IF Admitted(z, t) THEN RR!Current(@[t], Ones(Conns)) ELSE @[t]],
        !.type = mark[5]]

\* The arbiter is told if the scheduler has work.
WakeIf(hasWork, z) == IF hasWork THEN ScheduleSchedulerArbiter(z) ELSE z

\* RecomputeEligibility of the connection scheduler.
AskConnection(z) ==
  WakeIf(ConnectionHasWork(z),
         [z EXCEPT !.type = IF z.phantom = {} /\ ~z.xoff THEN RR!Current(@, Weights(z)) ELSE @])
RecomputeEligibility(z, c) == AskConnection(RecomputeTypes(RecomputeConnection(z, c)))

\* RecomputeEligibility of the retransmission scheduler, with the windows of c
\* whose first packet may go.
Resendable(z, c) ==
  {w \in Windows : z.lost[c][w] # {} /\ MeetsRetransmissionCc(z, c, w, Min(z.lost[c][w]))}
AskRetransmission(z) ==
  WakeIf(RR!HasWork(z.retx, Ones(Conns)), [z EXCEPT !.retx = RR!Current(@, Ones(Conns))])
MarkRetransmission(z, c, work) ==
  [z EXCEPT !.retx = RR!Mark(@, c, work # {}),
            !.window[c] = IF work = {} \/ @ \in work THEN @ ELSE CHOOSE w \in work : TRUE]
RecomputeRetransmission(z, c) ==
  IF c \in z.limited THEN [z EXCEPT !.retx = RR!MarkInactive(@, c)]
  ELSE AskRetransmission(MarkRetransmission(z, c, Resendable(z, c)))

\* Mutant of Gated: the retransmission scheduler is not told.
GatedConnectionOnly(z, c) == RecomputeEligibility(z, c)

\* The gating function that every gating variable of c calls when it changes.
Gated(z, c) == RecomputeRetransmission(RecomputeEligibility(z, c), c)

(***************************************************************************)
(* Work.  A result is the new state and the CHECK that failed, if any.     *)
(***************************************************************************)
Done(z) == [state |-> z, done |-> TRUE, check |-> ""]
Failed(z, check) == [state |-> z, done |-> FALSE, check |-> check]

\* SchedulePacket: the packet is no longer counted when the op rate limit, and
\* then its transmission, call the gating function; it is popped after that, and
\* eligibility is computed again.  The transmission changes two gating variables,
\* and while c is limited neither changes what the function finds: it is called
\* once for both.
SchedulePacket(z, c, t) ==
  LET work == Peek(z, c, t)
      limited == Gated([Uncounted(Reserve(z, work.type), t) EXCEPT !.limited = @ \cup {c}], c)
      sent == Gated(Transmit(limited, c, work), c)
  IN RecomputeEligibility(WithoutHead(sent, c, t), c)

HandlePhantomRequest(z, c, t) == RecomputeEligibility(HandlePhantom(z, c, t), c)

\* ScheduleWork of the connection scheduler: the policies pick a packet type t
\* and a connection c of it.
Serve(z, c, t) ==
  IF IsPhantom(z, c, t) THEN Done(HandlePhantomRequest(z, c, t))
  ELSE IF ~CanSend(z, c, Peek(z, c, t)) THEN Failed(z, "gating")
  ELSE Done(SchedulePacket(z, c, t))
PickConnection(z, t, conns) ==
  LET c == RR!NextEntity(conns) IN
  IF RR!Eligible(conns) = {} THEN Failed(z, "connection")
  ELSE Serve([z EXCEPT !.conn[t] = RR!Serviced(conns, c)], c, t)
PickType(z, types) ==
  LET t == RR!NextEntity(types) IN
  IF RR!Eligible(types) = {} THEN Failed(z, "packet type")
  ELSE PickConnection([z EXCEPT !.type = RR!Serviced(types, t)], t, RR!Current(z.conn[t], Ones(Conns)))
ConnectionWork(z) == PickType(z, RR!Current(z.type, Weights(z)))

\* ScheduleWork and SchedulePacket of the retransmission scheduler.
Resend(z, c, w, psn) ==
  LET y == [z EXCEPT !.window[c] = IF w = "request" THEN "data" ELSE "request"] IN
  IF c \in z.limited \/ w \notin Resendable(z, c) THEN Failed(z, "retransmission")
  ELSE Done(RecomputeRetransmission(Gated(Retransmit(y, c, w, psn), c), c))
PickWindow(z, c) == Resend(z, c, z.window[c], Min(z.lost[c][z.window[c]]))
PickRetransmission(z, conns) ==
  LET c == RR!NextEntity(conns) IN PickWindow([z EXCEPT !.retx = RR!Serviced(conns, c)], c)
RetransmissionWork(z) == PickRetransmission(z, RR!Current(z.retx, Ones(Conns)))

\* EnqueuePacket of the connection scheduler.
Enqueue(z, c, rsn, type) ==
  ScheduleSchedulerArbiter(RecomputeEligibility(AddPacketToQueue(z, c, rsn, type), c))

\* EnqueuePacket and DequeuePacket of the retransmission scheduler.
EnqueueRetransmission(z, c, w, psn) ==
  ScheduleSchedulerArbiter(RecomputeRetransmission([z EXCEPT !.lost[c][w] = @ \cup {psn}], c))
DequeueRetransmission(z, c, w, psn) ==
  RecomputeRetransmission([z EXCEPT !.lost[c][w] = @ \ {psn}], c)

(***************************************************************************)
(* What the caches promise, of one state.                                  *)
(***************************************************************************)
Fresh(z) ==
  \A c \in Conns :
    /\ \A t \in QueueTypes : RR!IsActive(z.conn[t], c) <=> HeadMayGo(z, c, t)
    /\ RR!IsActive(z.retx, c) <=>
         /\ c \notin z.limited
         /\ Resendable(z, c) # {}

Solvent(z) ==
  /\ \A t \in QueueTypes : RR!Solvent(z.conn[t])
  /\ RR!Solvent(z.type) /\ RR!Solvent(z.retx)
=============================================================================
