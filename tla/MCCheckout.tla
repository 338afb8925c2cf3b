------------------------------ MODULE MCCheckout ------------------------------
(***************************************************************************)
(* Checkout for TLC: a blocked product, one that takes backorders and one  *)
(* that is not tracked, in carts that take them in opposite orders.  One   *)
(* run explores two instances side by side: two customers and a request on *)
(* their orders, and one customer and two requests on one order.           *)
(***************************************************************************)
EXTENDS Checkout, TLC

CONSTANTS shirt, mug, card, c1, c2, e1, e2

MCProducts == {shirt, mug, card}

MCPolicy == shirt :> "track_and_block" @@ mug :> "track_and_allow" @@ card :> "untracked"

MCStock == shirt :> 2 @@ mug :> 1 @@ card :> 0

Cart(lines, n) ==
  [lines |-> lines,
   units |-> [x \in MCProducts |-> IF \E i \in DOMAIN lines : lines[i] = x THEN n ELSE 0]]

MCCarts == {Cart(<<shirt, mug>>, 2), Cart(<<mug, card, shirt>>, 1), Cart(<<card>>, 1)}

VARIABLE world  \* the instance, chosen at the start

MCInit == Init /\ world \in {"rush", "desk"}

Inside ==
  /\ tx'[IF world = "rush" THEN e2 ELSE c2].pc = "idle"
  /\ world = "desk" => told'[c2] = "nothing"
  /\ UNCHANGED world

mcvars == <<vars, world>>

\* A transaction that can go on does; one that waits gets the row in its turn, as
\* the waiters of a row are queued; and the database breaks every deadlock.
MCSpec ==
  /\ MCInit /\ [][Next /\ Inside]_mcvars
  /\ \A p \in {c1, c2, e1} : SF_mcvars(Step(p) /\ Inside) /\ WF_mcvars(Victim(p) /\ Inside)

\* Every transaction ends, carts that take their rows in opposite orders included.
TransactionsEnd == world = "rush" => \A p \in {c1, c2, e1} : Ends(p)
===============================================================================
