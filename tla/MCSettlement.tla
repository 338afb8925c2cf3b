------------------------------ MODULE MCSettlement ------------------------------
(***************************************************************************)
(* Settlement for TLC, in three instances that one run explores side by    *)
(* side: a shop whose requests and notices race while no pass of the       *)
(* dispatcher runs, the same with one buy-now order and notices for an     *)
(* order of the cart, and an outbox whose passes overlap while one request *)
(* marks orders as paid.                                                   *)
(***************************************************************************)
EXTENDS Settlement, TLC

CONSTANTS o1, o2, c1, r1, r2, p1, p2

VARIABLE world  \* the instance, chosen at the start

MCInit == Init /\ world \in {"shop", "outbox"} \cup {"cart" : o \in Others}

Shop == UNCHANGED <<pass, active>>

\* The gateway's notices name buy-now orders only.
BuyNow == \A n \in sent' : n.order \in Orders

Marking ==
  /\ sent' = {} /\ failures' = 0
  /\ \A r \in Requests :
       request'[r] # Free => /\ request'[r].own \/ request'[r].to = "paid"
                             /\ \A x \in Requests \ {r} : request'[x] = Free

MCNext ==
  /\ Next
  /\ world = "shop" => Shop /\ BuyNow
  /\ world = "cart" => Shop /\ Cardinality(Placed') <= 1 /\ failures' = 0
  /\ world = "outbox" => Marking
  /\ UNCHANGED world

MCSpec == MCInit /\ [][MCNext]_<<vars, world>>

\* A request that started goes on, the gateway repeats a notice until it is
\* answered, the dispatch job repeats and its passes go on, time passes.
MCFairSpec ==
  /\ MCSpec
  /\ \A r \in Requests : WF_<<vars, world>>(MCNext /\ Handle(r))
  /\ \A n \in Notices :
       SF_<<vars, world>>(MCNext /\ n \notin acked /\ \E r \in Requests : Receive(r, n))
  /\ \A p \in Passes : WF_<<vars, world>>(MCNext /\ (GiveUp(p) \/ Post(p) \/ Record(p)))
  /\ WF_<<vars, world>>(MCNext /\ \E p \in Passes : BeginPass(p))
  /\ WF_<<vars, world>>(MCNext /\ \E e \in DOMAIN outbox : Ripen(e))

\* Every delivery comes to an end, whatever passes overlap, hold the same row or die
\* (dispatcher.ts:28-148: a pass may put back to pending what another delivered).
DeliveriesEnd ==
  \A o \in Orders :
    world = "outbox" /\ Rows(o) = 1
      ~> \A e \in DOMAIN outbox : e.order = o => outbox[e].status # "pending"

\* Requests and passes are interchangeable; for the safety run only.
Symmetry == Permutations(Requests) \cup Permutations(Passes)
================================================================================
