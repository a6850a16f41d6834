----------------------------- MODULE RoundRobin -----------------------------
(***************************************************************************)
(* The weighted round robin policy of the event-based schedulers, as       *)
(* functions on its state.  An entity's place is one of the four lists;    *)
(* `fresh' says that its credits are of the current round (round_number),  *)
(* `left' is global_credits_remaining_.                                    *)
(*                                                                         *)
(* Source: host/falcon/weighted_round_robin_policy.h.  Entities are        *)
(* integers, so that the ordered sets of the code have their order.        *)
(***************************************************************************)
EXTENDS Naturals, FiniteSets, FiniteSetsExt

Places == {"idle", "eligible", "waiting", "going_idle"}

\* InitializeEntity for every entity of E, the last one initialized being z.
NewPolicy(E, w, z) ==
  [at |-> [e \in E |-> "idle"], credits |-> [e \in E |-> 0], fresh |-> [e \in E |-> FALSE],
   weight |-> w, left |-> 0, last |-> z]

Eligible(p) == {e \in DOMAIN p.at : p.at[e] = "eligible"}
Waiting(p) == {e \in DOMAIN p.at : p.at[e] = "waiting"}
IsActive(p, e) == p.at[e] \in {"eligible", "waiting"}

\* MarkEntityActive: the first activation in a round brings the weight as credits.
MarkActive(p, e) ==
  LET credits == IF p.fresh[e] THEN p.credits[e] ELSE p.weight[e] IN
  CASE p.at[e] = "idle" -> [p EXCEPT !.credits[e] = credits, !.fresh[e] = TRUE,
                                     !.at[e] = IF credits = 0 THEN "waiting" ELSE "eligible"]
    [] p.at[e] = "going_idle" -> [p EXCEPT !.at[e] = "waiting"]
    [] OTHER -> p

\* MarkEntityInactive.
MarkInactive(p, e) ==
  CASE p.at[e] = "eligible" -> [p EXCEPT !.at[e] = "idle"]
    [] p.at[e] = "waiting" -> [p EXCEPT !.at[e] = "going_idle"]
    [] OTHER -> p

Mark(p, e, active) == IF active THEN MarkActive(p, e) ELSE MarkInactive(p, e)

\* StartSubRound: those who wait and still have credits are eligible again.
StartSubRound(p) ==
  [p EXCEPT !.at = [e \in DOMAIN p.at |->
     CASE p.at[e] = "waiting" /\ p.credits[e] > 0 -> "eligible"
       [] p.at[e] = "going_idle" -> "idle"
       [] OTHER -> p.at[e]]]

\* ResetAndRestartRound with the weights w that the fetcher returns.
ResetAndRestartRound(p, w) ==
  [p EXCEPT
     !.weight = w,
     !.left = MapThenSumSet(LAMBDA e : w[e], DOMAIN w),
     !.fresh = [e \in DOMAIN w |-> IsActive(p, e)],
     !.credits = [e \in DOMAIN w |-> IF IsActive(p, e) THEN w[e] ELSE p.credits[e]],
     !.at = [e \in DOMAIN w |->
               IF IsActive(p, e) THEN IF w[e] > 0 THEN "eligible" ELSE "waiting" ELSE "idle"]]

\* IsRoundOver, and the sub-round it may start.
AfterSubRound(p) ==
  IF p.left > 0 /\ Eligible(p) = {} /\ Waiting(p) # {} THEN StartSubRound(p) ELSE p
IsRoundOver(p) == p.left = 0 \/ Eligible(p) = {}

\* The state that HasWork and GetNextEntity leave and look at.
RestartedIfOver(p, w) == IF IsRoundOver(p) THEN ResetAndRestartRound(p, w) ELSE p
Current(p, w) == RestartedIfOver(AfterSubRound(p), w)
HasWork(p, w) == Eligible(Current(p, w)) # {}

\* The entity GetNextEntity picks in the state Current left, with enforce_order_.
NextEntity(p) ==
  LET after == {e \in Eligible(p) : e > p.last} IN Min(IF after # {} THEN after ELSE Eligible(p))

\* What GetNextEntity does with it, not batched.
Serviced(p, e) ==
  [p EXCEPT !.last = e, !.credits[e] = @ - 1, !.left = @ - 1, !.at[e] = "waiting"]

\* Whoever is eligible has credits, and no more are handed out than the round has.
Solvent(p) ==
  /\ \A e \in Eligible(p) : p.credits[e] > 0
  /\ p.left > 0 => MapThenSumSet(LAMBDA e : IF p.fresh[e] THEN p.credits[e] ELSE p.weight[e],
                                 DOMAIN p.at) <= p.left
=============================================================================
