---------------------------- MODULE RoceTransport ----------------------------
(***************************************************************************)
(* RDMA over converged Ethernet: one queue pair, from the initiator that    *)
(* posts writes and reads to the target.  Go-back-N: the target takes PSNs  *)
(* in order and answers a gap with one NAK; the initiator rewinds on a NAK, *)
(* on a read response out of order and on a retransmission timeout (RTO).   *)
(* A read occupies one PSN per response packet; the target keeps the reads  *)
(* it has yet to answer in the inbound read request queue (IRRQ), and an    *)
(* ACK waits for that queue to be empty.                                    *)
(*                                                                         *)
(* The path is per flow, so packets are lost and never reordered.  Each     *)
(* side's record is the RoceQpContext of its host.                          *)
(***************************************************************************)
EXTENDS Integers, Sequences, FiniteSets, SequencesExt, FiniteSetsExt, Functions

CONSTANTS
  Ops,            \* the ops posted, in order: [read, packets]
  PsnRange, ValidPsnRange,   \* kPsnRange, kValidPsnRange
  FirstPsn,       \* PSN of the first packet
  AckThreshold,   \* ack_coalescing_threshold
  MaxRetry,       \* max_retry
  Faults,         \* what may happen: "request", "data", "ack" (or NAK) is lost,
                  \* "late": an RTO fires with an answer still on its way
  MaxLosses, MaxPauses  \* bounds: packets lost, PFC pauses of a host

VARIABLES
  i,              \* the initiator's context
  t,              \* the target's context
  posted,         \* how many of Ops were posted
  requests, responses,  \* packets on their way
  active,         \* host -> is_work_queue_active_ of the queue it uses
  runs,           \* host -> RunWorkScheduler events pending
  xoff,           \* host -> pfc_xoff_
  losses, pauses, \* for the bounds
  taken,          \* ghost: PSNs of writes the target took, as counted by expected
  answered,       \* ghost: read responses taken in order
  completed,      \* ghost: sequence of the ops completed
  failed          \* a CHECK, a LOG(FATAL) or an index out of range stopped it

hosts == <<active, runs, xoff>>
ghosts == <<taken, answered, completed>>
vars == <<i, t, posted, requests, responses, hosts, losses, pauses, ghosts, failed>>

RoceAssumption ==
  /\ PsnRange > 2 * FoldLeft(LAMBDA n, o : n + o.packets, 0, Ops)
  /\ ValidPsnRange * 2 = PsnRange /\ AckThreshold >= 1
-----------------------------------------------------------------------------
(* PSN arithmetic. *)

PsnAdd(a, b) == (a + b + PsnRange) % PsnRange
PsnSubtract(a, b) == (a - b + PsnRange) % PsnRange
PsnBetween(a, b, c) == PsnSubtract(a, b) + PsnSubtract(c, a) = PsnSubtract(c, b)

\* At the target: at or before the expected PSN.
PsnIsValidAtTarget(psn) == PsnSubtract(t.expected, psn) < ValidPsnRange
PsnSmallerAtTarget(a, b) == PsnSubtract(t.expected, a) > PsnSubtract(t.expected, b)

\* At the initiator: sent and not acknowledged.
PsnIsValidAtInitiator(c, psn) ==
  c.oldest # c.max /\ PsnBetween(psn, c.oldest, PsnAdd(c.max, -1))
PsnGeAtInitiator(c, a, b) == PsnBetween(a, b, PsnAdd(c.max, -1))
-----------------------------------------------------------------------------
Init ==
  /\ i = [queue |-> <<>>, index |-> 0, next |-> FirstPsn, oldest |-> FirstPsn,
          max |-> FirstPsn, tail |-> FirstPsn, highest |-> FirstPsn, rto |-> FALSE,
          retries |-> 0, readRetried |-> FALSE]
  /\ t = [expected |-> FirstPsn, irrq |-> <<>>, irrqPsn |-> FirstPsn,
          coalesced |-> 0, ackTriggered |-> FALSE, nakSent |-> FALSE,
          nakTriggered |-> FALSE]
  /\ posted = 0 /\ requests = <<>> /\ responses = <<>>
  /\ active = [h \in {"initiator", "target"} |-> FALSE]
  /\ runs = [h \in {"initiator", "target"} |-> 0]
  /\ xoff = [h \in {"initiator", "target"} |-> FALSE]
  /\ losses = 0 /\ pauses = 0 /\ taken = 0 /\ answered = 0
  /\ completed = <<>> /\ failed = FALSE
-----------------------------------------------------------------------------
(* The work scheduler of a host, with the one queue it uses here. *)

\* AddWorkQueueToActiveSet: an idle scheduler is started; a queue already
\* active, or without work, changes nothing.
Activated(h, work) ==
  /\ active' = [active EXCEPT ![h] = @ \/ work]
  /\ runs' = [runs EXCEPT ![h] = IF work /\ ~active[h] THEN @ + 1 ELSE @]

\* A plausible bug: the end of a pause relies on the event that was pending.
SetPfcXoffSilent(h) ==
  /\ ~failed /\ (xoff[h] \/ pauses < MaxPauses)
  /\ xoff' = [xoff EXCEPT ![h] = ~@]
  /\ pauses' = IF xoff[h] THEN pauses ELSE pauses + 1
  /\ UNCHANGED <<i, t, posted, requests, responses, active, runs, losses, ghosts, failed>>

\* PFC is asserted or not; at the end of a pause the scheduler is run when it
\* has work, beside any event that is still pending.
SetPfcXoff(h) ==
  /\ ~failed /\ (xoff[h] \/ pauses < MaxPauses)
  /\ xoff' = [xoff EXCEPT ![h] = ~@]
  /\ runs' = [runs EXCEPT ![h] = IF xoff[h] /\ active[h] THEN @ + 1 ELSE @]
  /\ pauses' = IF xoff[h] THEN pauses ELSE pauses + 1
  /\ UNCHANGED <<i, t, posted, requests, responses, active, losses, ghosts, failed>>

\* A run that finds PFC asserted or no work ends the chain of events.
IdleRun(h) ==
  /\ ~failed /\ runs[h] > 0 /\ (xoff[h] \/ ~active[h])
  /\ runs' = [runs EXCEPT ![h] = @ - 1]
  /\ UNCHANGED <<i, t, posted, requests, responses, active, xoff, losses, pauses, ghosts,
                 failed>>

\* A run that sent a packet goes on while its queue has work.
Ran(h, more) ==
  /\ runs[h] > 0 /\ ~xoff[h] /\ active[h]
  /\ active' = [active EXCEPT ![h] = more]
  /\ runs' = [runs EXCEPT ![h] = IF more THEN @ ELSE @ - 1]
  /\ UNCHANGED xoff
-----------------------------------------------------------------------------
(* The initiator. *)

\* An op takes the PSNs at the tail of the send queue.
PostOp ==
  /\ ~failed /\ posted < Len(Ops)
  /\ LET op == Ops[posted + 1]
         last == PsnAdd(i.tail, op.packets - 1) IN
     i' = [i EXCEPT !.queue = Append(@, [read |-> op.read, first |-> i.tail, last |-> last]),
                    !.tail = PsnAdd(last, 1)]
  /\ posted' = posted + 1
  /\ Activated("initiator", TRUE)
  /\ UNCHANGED <<t, requests, responses, xoff, losses, pauses, ghosts, failed>>

\* RunWorkScheduler and TransmitPacket for a request: the next packet of the op
\* at next_op_index, a read in one packet for the rest of its length.  Every
\* packet asks for an ACK and the RTO is started if it is not running.
CreateRequestPacket ==
  /\ ~failed
  /\ IF i.index \notin 0..Len(i.queue) - 1
     THEN /\ runs["initiator"] > 0 /\ ~xoff["initiator"] /\ active["initiator"]
          /\ failed' = TRUE /\ UNCHANGED <<i, requests, hosts>>
     ELSE LET op   == i.queue[i.index + 1]
              next == IF op.read THEN PsnAdd(op.last, 1) ELSE PsnAdd(i.next, 1)
              sent == [i EXCEPT !.next = next, !.highest = i.next,
                                !.max = IF @ = i.next THEN next ELSE @,
                                !.index = IF op.read \/ i.next = op.last THEN @ + 1 ELSE @]
          IN /\ i' = [sent EXCEPT !.rto = @ \/ PsnIsValidAtInitiator(sent, sent.highest)]
             /\ requests' = Append(requests, [read |-> op.read, psn |-> i.next, last |-> op.last])
             /\ Ran("initiator", i'.index < Len(i.queue))
             /\ UNCHANGED failed
  /\ UNCHANGED <<t, posted, responses, losses, pauses, ghosts>>

\* Go-back-N.
Rewound(c) == [c EXCEPT !.next = c.oldest, !.index = 0]

\* Go-back-N on an answer: no PSN asks for an ACK until it is sent again.
Retried(c) == [Rewound(c) EXCEPT !.highest = PsnAdd(c.oldest, -1), !.rto = FALSE]

\* A plausible bug: next_op_index is not moved when the queue shifts.
WithoutHeadsIndexKept(c, n) == [c EXCEPT !.queue = SubSeq(@, n + 1, Len(@))]

\* CompleteOpAtHead, n times.  next_op_index is unsigned: below 0 it is a large
\* number, outside the queue as -1 is here.
WithoutHeads(c, n) == [c EXCEPT !.queue = SubSeq(@, n + 1, Len(@)), !.index = @ - n]

\* A plausible bug: reads complete with the ACK of a later write.
TillPsnReadsToo(c, psn) ==
  Max({n \in 0..Len(c.queue) :
    \A k \in 1..n :
      LET oldest == IF k = 1 THEN c.oldest ELSE c.queue[k].first IN
      /\ PsnIsValidAtInitiator([c EXCEPT !.oldest = oldest], c.queue[k].last)
      /\ PsnGeAtInitiator(c, psn, c.queue[k].last)})

\* How many ops at the head of the queue psn completes; a read stops it.
TillPsn(c, psn) ==
  Max({n \in 0..Len(c.queue) :
    \A k \in 1..n :
      LET oldest == IF k = 1 THEN c.oldest ELSE c.queue[k].first IN
      /\ ~c.queue[k].read
      /\ PsnIsValidAtInitiator([c EXCEPT !.oldest = oldest], c.queue[k].last)
      /\ PsnGeAtInitiator(c, psn, c.queue[k].last)})

CompleteOpTillPsn(c, psn) ==
  LET n == TillPsn(c, psn) IN
  IF n = 0 THEN c
  ELSE [WithoutHeads(c, n) EXCEPT !.oldest = PsnAdd(c.queue[n].last, 1)]

\* An answer that makes progress restarts the RTO if an ACK is still to come.
Progressed(c) ==
  [c EXCEPT !.retries = 0, !.rto = PsnIsValidAtInitiator(c, c.highest)]

\* ProcessRxAck: ops up to the PSN complete; then, if the PSN is still
\* unacknowledged, the head takes it, or is a read whose answer must have been
\* lost.  A NAK, or that loss, is a retry.
ProcessRxAck(p) ==
  IF ~PsnIsValidAtInitiator(i, p.psn) THEN [c |-> i, ok |-> TRUE, data |-> 0]
  ELSE LET settled == CompleteOpTillPsn(i, p.psn)
           still == PsnIsValidAtInitiator(settled, p.psn)
           head  == Head(settled.queue)
           blocked == still /\ head.read
           advanced == IF still /\ ~head.read
                       THEN [settled EXCEPT !.oldest = PsnAdd(p.psn, 1)] ELSE settled
           retry == p.kind = "nak" \/ (blocked /\ p.psn # head.last)
           final == IF retry THEN Retried(advanced) ELSE advanced
       IN [data |-> 0, c |-> IF settled # i \/ advanced # settled THEN Progressed(final) ELSE final,
           ok |-> ~still \/ (settled.queue # <<>>
                    /\ (blocked => ~PsnBetween(p.psn, head.first, head.last)
                                   \/ p.psn = head.last))]

\* A read response: the first one acknowledges the ops before the read.  In
\* order it moves the head on; a valid PSN out of order is one retry.
ProcessReadResponse(p) ==
  LET settled == IF p.first THEN CompleteOpTillPsn(i, PsnAdd(p.psn, -1)) ELSE i
      inOrder == p.psn = settled.oldest
      advanced == IF inOrder
            THEN LET moved == [settled EXCEPT !.oldest = PsnAdd(@, 1), !.readRetried = FALSE] IN
                 IF p.psn = Head(settled.queue).last THEN WithoutHeads(moved, 1) ELSE moved
            ELSE IF PsnIsValidAtInitiator(settled, p.psn) /\ ~settled.readRetried
            THEN [Retried(settled) EXCEPT !.readRetried = TRUE] ELSE settled
  IN [data |-> IF inOrder THEN 1 ELSE 0,
      c  |-> IF settled # i \/ inOrder THEN Progressed(advanced) ELSE advanced,
      ok |-> inOrder => settled.queue # <<>> /\ Head(settled.queue).read]

ReceiveResponse ==
  /\ ~failed /\ responses # <<>>
  /\ LET p == Head(responses)
         r == IF p.kind = "data" THEN ProcessReadResponse(p) ELSE ProcessRxAck(p)
         rewound == r.c.next # i.next
     IN /\ i' = r.c /\ failed' = ~r.ok /\ answered' = answered + r.data
        /\ completed' = completed \o SubSeq(i.queue, 1, Len(i.queue) - Len(r.c.queue))
        /\ Activated("initiator", rewound /\ r.c.queue # <<>>)
  /\ responses' = Tail(responses)
  /\ UNCHANGED <<t, posted, requests, xoff, losses, pauses, taken>>

\* Nothing is on its way that could still answer the packet timed out.
Quiet == requests = <<>> /\ responses = <<>> /\ t.irrq = <<>> /\ t.coalesced = 0

\* A plausible bug: the RTO counts a retry and does not rewind.
HandleRtoNoRewind ==
  /\ ~failed /\ i.rto /\ ("late" \in Faults \/ Quiet)
  /\ failed' = (i.retries >= MaxRetry)
  /\ i' = [i EXCEPT !.rto = FALSE, !.retries = @ + 1]
  /\ Activated("initiator", i.index < Len(i.queue))
  /\ UNCHANGED <<t, posted, requests, responses, xoff, losses, pauses, ghosts>>

\* The RTO whose start is the one recorded; a cancelled one finds another.
HandleRto ==
  /\ ~failed /\ i.rto /\ ("late" \in Faults \/ Quiet)
  /\ failed' = (i.retries >= MaxRetry)
  /\ i' = [Rewound(i) EXCEPT !.rto = FALSE, !.retries = @ + 1]
  /\ Activated("initiator", TRUE)
  /\ UNCHANGED <<t, posted, requests, responses, xoff, losses, pauses, ghosts>>
-----------------------------------------------------------------------------
(* The target. *)

\* TransmitAck of context c: sent now, or when the IRRQ is empty.
TransmitAck(c) ==
  IF c.irrq = <<>>
  THEN [c |-> [c EXCEPT !.coalesced = 0, !.ackTriggered = FALSE],
        out |-> <<[kind |-> "ack", psn |-> PsnAdd(c.expected, -1), first |-> FALSE]>>]
  ELSE [c |-> [c EXCEPT !.coalesced = 0, !.ackTriggered = TRUE], out |-> <<>>]

TransmitNakSequenceError(c) ==
  LET sent == [c EXCEPT !.nakSent = TRUE, !.coalesced = 0] IN
  IF c.irrq = <<>>
  THEN [c |-> [sent EXCEPT !.nakTriggered = FALSE],
        out |-> <<[kind |-> "nak", psn |-> PsnAdd(c.expected, -1), first |-> FALSE]>>]
  ELSE [c |-> [sent EXCEPT !.nakTriggered = TRUE], out |-> <<>>]

Silent(c) == [c |-> c, out |-> <<>>]

\* GenerateAckOrUpdateCoalescingState for a packet that asks for an ACK.
GenerateAck(c) ==
  IF c.coalesced + 1 >= AckThreshold THEN TransmitAck(c)
  ELSE Silent([c EXCEPT !.coalesced = @ + 1])

\* A packet past the expected one: one NAK until the expected one arrives.
SequenceError == IF t.nakSent THEN Silent(t) ELSE TransmitNakSequenceError(t)

ReceiveWrite(p) ==
  IF ~PsnIsValidAtTarget(p.psn) THEN SequenceError
  ELSE IF p.psn # t.expected THEN TransmitAck(t)
  ELSE LET r == GenerateAck([t EXCEPT !.expected = PsnAdd(@, 1)])
       IN [r EXCEPT !.c.nakSent = FALSE]

\* A repeated read drops the reads behind it, which will be repeated too.
Unanswered(psn) ==
  LET kept == {n \in 0..Len(t.irrq) : n > 0 => ~PsnSmallerAtTarget(psn, t.irrq[n].first)}
  IN SubSeq(t.irrq, 1, Max(kept))

\* A read joins the IRRQ; a new one first sends the ACK that was coalescing.
ReceiveRead(p) ==
  IF ~PsnIsValidAtTarget(p.psn) THEN SequenceError
  ELSE LET new == p.psn = t.expected
           r == IF new /\ t.irrq = <<>> /\ t.coalesced > 0 THEN TransmitAck(t) ELSE Silent(t)
           c == IF new THEN [r.c EXCEPT !.expected = PsnAdd(p.last, 1), !.nakSent = FALSE]
                ELSE [r.c EXCEPT !.irrq = Unanswered(p.psn)]
           irrq == Append(c.irrq, [first |-> p.psn, last |-> p.last])
       IN [r EXCEPT !.c = [c EXCEPT !.irrq = irrq,
                                    !.irrqPsn = IF Len(irrq) = 1 THEN p.psn ELSE @]]

ReceiveRequest ==
  /\ ~failed /\ requests # <<>>
  /\ LET p == Head(requests)
         r == IF p.read THEN ReceiveRead(p) ELSE ReceiveWrite(p)
     IN /\ t' = r.c /\ responses' = responses \o r.out
        /\ Activated("target", p.read /\ r.c.irrq # <<>>)
        /\ taken' = taken + PsnSubtract(r.c.expected, t.expected)
  /\ requests' = Tail(requests)
  /\ UNCHANGED <<i, posted, xoff, losses, pauses, answered, completed, failed>>

\* RunWorkScheduler and TransmitPacket for a response: the next packet of the
\* read at the head; when the IRRQ is empty the NAK or the ACK that waited.
CreateResponsePacket ==
  /\ ~failed /\ t.irrq # <<>>
  /\ LET head == Head(t.irrq)
         last == t.irrqPsn = head.last
         rest == IF last THEN Tail(t.irrq) ELSE t.irrq
         c == [t EXCEPT !.irrq = rest,
                        !.irrqPsn = CASE ~last -> PsnAdd(@, 1)
                                      [] last /\ rest # <<>> -> Head(rest).first
                                      [] OTHER -> @]
         r == CASE rest = <<>> /\ c.nakTriggered ->
                     LET n == TransmitNakSequenceError(c)
                     IN [n EXCEPT !.c.ackTriggered = FALSE]
                [] rest = <<>> /\ c.ackTriggered /\ ~c.nakTriggered -> TransmitAck(c)
                [] OTHER -> Silent(c)
     IN /\ t' = r.c
        /\ responses' = Append(responses, [kind |-> "data", psn |-> t.irrqPsn,
                                           first |-> t.irrqPsn = head.first]) \o r.out
        /\ Ran("target", rest # <<>>)
  /\ UNCHANGED <<i, posted, requests, losses, pauses, ghosts, failed>>

\* The ACK coalescing timer of the ACKs counted.
HandleAckCoalescingTimeout ==
  /\ ~failed /\ t.coalesced > 0
  /\ t' = TransmitAck(t).c /\ responses' = responses \o TransmitAck(t).out
  /\ UNCHANGED <<i, posted, requests, hosts, losses, pauses, ghosts, failed>>
-----------------------------------------------------------------------------
\* The network drops a packet.
Lose ==
  /\ ~failed /\ losses < MaxLosses
  /\ losses' = losses + 1
  /\ \/ "request" \in Faults /\ requests # <<>>
        /\ requests' = Tail(requests) /\ UNCHANGED responses
     \/ responses # <<>> /\ (IF Head(responses).kind = "data" THEN "data" ELSE "ack") \in Faults
        /\ responses' = Tail(responses) /\ UNCHANGED requests
  /\ UNCHANGED <<i, t, posted, hosts, pauses, ghosts, failed>>

Next ==
  \/ PostOp \/ CreateRequestPacket \/ ReceiveResponse \/ HandleRto
  \/ ReceiveRequest \/ CreateResponsePacket \/ HandleAckCoalescingTimeout
  \/ Lose
  \/ \E h \in {"initiator", "target"} : SetPfcXoff(h) \/ IdleRun(h)

\* A packet at the head of the path leaves it.  ReceiveRequest and
\* ReceiveResponse are enabled exactly when these are, and but for the bounded
\* losses they are the only steps that take a packet.
Arrives(path) == ~failed /\ path # <<>> /\ path' = Tail(path)

\* Events fire, packets arrive and pauses end; loss and pauses are bounded.
Fairness ==
  /\ WF_vars(PostOp) /\ WF_vars(CreateRequestPacket) /\ WF_vars(HandleRto)
  /\ WF_requests(Arrives(requests)) /\ WF_responses(Arrives(responses))
  /\ WF_vars(CreateResponsePacket) /\ WF_vars(HandleAckCoalescingTimeout)
  /\ \A h \in {"initiator", "target"} :
       WF_vars(xoff[h] /\ SetPfcXoff(h)) /\ WF_vars(IdleRun(h))

Spec == Init /\ [][Next]_vars /\ Fairness
-----------------------------------------------------------------------------
(* Properties. *)

\* "The index of the op that nxt_psn belongs to": while there is something to
\* send, next_psn is one of the PSNs of the op at next_op_index
\* (CreateRequestPacket, CompleteOpAtHead and the three rewinds).
IndexNamesNextPsn ==
  /\ i.index \in 0..Len(i.queue)
  /\ IF i.index = Len(i.queue) THEN i.next = i.tail
     ELSE PsnBetween(i.next, i.queue[i.index + 1].first, i.queue[i.index + 1].last)

PacketsOf(ops) == FoldLeft(LAMBDA n, o : n + PsnSubtract(o.last, o.first) + 1, 0, ops)

\* An op completes only after the target took all of its packets, a read only
\* after all of its data came back, and in the order posted (CompleteOpTillPsn,
\* ProcessRxAck), whatever was lost and sent again.
CompletedWereTaken ==
  /\ PacketsOf(completed) <= taken
  /\ PacketsOf(SelectSeq(completed, LAMBDA o : o.read)) <= answered
  /\ \A n \in 1..Len(completed) : completed[n].read = Ops[n].read

\* A packet that waits for an answer is never forgotten: the RTO runs, or the
\* work scheduler is about to send (TransmitPacket, CancelRto), but for the rest
\* of a read partly answered, whose PSNs asked for no ACK; and a queue with work
\* has a scheduler event unless PFC is asserted (SetPfcXoff).
PartlyRead == i.queue # <<>> /\ Head(i.queue).read /\ i.oldest # Head(i.queue).first
SomethingPending ==
  /\ i.oldest # i.max /\ ~failed => i.rto \/ active["initiator"] \/ PartlyRead
  /\ \A h \in {"initiator", "target"} : active[h] => xoff[h] \/ runs[h] > 0

\* Every op posted completes, and no CHECK fails on the way: an ACK is never
\* inside a read, a response in order finds a read at the head, the scheduler
\* never sends past the send queue (ProcessRxAck, ProcessRxPacket).
EveryOpCompletes == <>(Len(completed) = Len(Ops))
=============================================================================
