-------------------------------- MODULE Checkout --------------------------------
(***************************************************************************)
(* The cart checkout and what cancels it: the transactions that spend and  *)
(* give back stock, spend the uses of a coupon and hand out order numbers  *)
(* (src/server/orders, src/server/catalogue/stock.ts).                     *)
(*                                                                         *)
(* Each is one READ COMMITTED transaction.  A statement sees what others   *)
(* have committed; a row one transaction has written blocks the writers of *)
(* the others until it ends; and a conditional update that waited tests    *)
(* its condition again.  A transaction's writes are therefore kept in tx   *)
(* until it commits, and there is one step for each statement that can     *)
(* wait.  A transaction commits whatever it returns, and rolls back only   *)
(* when it throws.                                                         *)
(***************************************************************************)
EXTENDS Integers, Sequences, FiniteSets, Sums

CONSTANTS
  Customers,  \* requests to the checkout; an order goes by the one that placed it
  Editors,    \* requests that act on an order already placed
  Products,
  Policy,     \* stock_policy of each product
  Stock0,     \* stock_qty of each product at the start
  Carts,      \* carts under study: the lines in order, and units of each product
  MaxUses,    \* max_uses of the coupon
  Deletable   \* the merchant may try to delete the coupon

Policies == {"untracked", "track_and_block", "track_and_allow"}

ASSUME CheckoutAssumption ==
  /\ Customers \cap Editors = {} /\ "none" \notin Customers /\ IsFiniteSet(Customers)
  /\ Policy \in [Products -> Policies]
  /\ Stock0 \in [Products -> Nat]
  /\ Carts \subseteq [lines : Seq(Products), units : [Products -> Nat]]
  /\ \A cart \in Carts :                               \* a line for each product that is bought
       /\ \A i, j \in DOMAIN cart.lines : cart.lines[i] = cart.lines[j] => i = j
       /\ \A x \in Products : cart.units[x] # 0 => \E i \in DOMAIN cart.lines : cart.lines[i] = x
  /\ MaxUses \in Nat
  /\ Deletable \in BOOLEAN

VARIABLES
  stock,     \* products.stock_qty, as committed
  counter,   \* the tenant's order_number counter
  uses,      \* coupons.uses_count
  coupon,    \* "live", "doomed" between the two statements of its deletion, "gone"
  redeemed,  \* orders with a redemption row
  orders,    \* the orders table
  tx,        \* the transaction each request has open
  \* History, read by properties only:
  told,      \* what each customer was told
  leaked     \* units a checkout committed without an order to show for them

vars == <<stock, counter, uses, coupon, redeemed, orders, tx, told, leaked>>

\* What only a commit changes.
committed == <<stock, counter, uses, redeemed, orders, leaked>>

Procs == Customers \cup Editors

--------------------------------------------------------------------------------
(* State *)

\* CART_TRANSITIONS.
Transitions ==
  {<<"new", "confirmed">>, <<"confirmed", "preparing">>, <<"preparing", "delivered">>,
   <<"new", "cancelled">>, <<"confirmed", "cancelled">>, <<"preparing", "cancelled">>}

Statuses == {"none", "new", "confirmed", "preparing", "delivered", "cancelled"}

NoCart  == [lines |-> <<>>, units |-> [x \in Products |-> 0]]
NoOrder == [status |-> "none", number |-> 0, cart |-> NoCart]

\* No transaction open.
Closed ==
  [pc |-> "idle", order |-> "none", cart |-> NoCart, line |-> 1,
   delta |-> [x \in Products |-> 0],  \* uncommitted change of each stock_qty
   code |-> "none",                   \* "given" when the customer typed the coupon
   number |-> 0,                      \* the number of the uncommitted order
   redeems |-> 0,                     \* uncommitted uses of the coupon
   from |-> "none", to |-> "none",    \* the transition of an order
   answer |-> "placed"]

Init ==
  /\ stock = Stock0
  /\ counter = 0
  /\ uses = 0
  /\ coupon = "live"
  /\ redeemed = {}
  /\ orders = [c \in Customers |-> NoOrder]
  /\ tx = [p \in Procs |-> Closed]
  /\ told = [c \in Customers |-> "nothing"]
  /\ leaked = [x \in Products |-> 0]

Tracked(x) == Policy[x] # "untracked"

\* The line a transaction is at, and whether there is one left.
HasLine(p) == tx[p].line <= Len(tx[p].cart.lines)
Line(p)    == tx[p].cart.lines[tx[p].line]
Units(p)   == tx[p].cart.units[Line(p)]

--------------------------------------------------------------------------------
(* Row locks *)

\* Mutant of Covers: the update loses its stock_qty >= n.
CoversAlways(p) == TRUE

\* The condition of decrementStockInTx's update of the line: it sees what others
\* have committed and what its own transaction has written.
Covers(p) ==
  Policy[Line(p)] = "track_and_block" => stock[Line(p)] + tx[p].delta[Line(p)] >= Units(p)

\* Mutant of Redeemable: the update loses its uses_count < max_uses.
RedeemableAlways == TRUE

\* The condition of redeemCouponInTx's update.
Redeemable == uses < MaxUses

\* Mutant of Standing: the claim no longer names the status it read.
StandingAlways(p) == TRUE

\* The condition of the claim of a transition: the order is still as it was read.
Standing(p) == orders[tx[p].order].status = tx[p].from

\* Mutant of Numbering: a number read without a lock on the counter.
NumberingNever(q) == FALSE

\* q holds the row of the counter.
Numbering(q) == tx[q].number # 0

\* The next statement of p waits for a row that q has written.
WaitsFor(p, q) ==
  LET WritesStock == tx[p].pc \in {"reserve", "restore"} /\ HasLine(p) /\ Tracked(Line(p))
  IN  \/ WritesStock /\ (tx[p].pc = "reserve" => Covers(p)) /\ tx[q].delta[Line(p)] # 0
      \/ tx[p].pc = "reserve" /\ ~HasLine(p) /\ Numbering(q)
      \/ tx[p].pc = "redeem" /\ Redeemable /\ tx[q].redeems # 0
      \/ tx[p].pc = "claim" /\ Standing(p)
         /\ tx[q].order = tx[p].order /\ tx[q].pc \in {"restore", "commit"}

Free(p) == \A q \in Procs \ {p} : ~WaitsFor(p, q)

\* The transaction rolls back: nothing it wrote is seen, and the request fails.
Rollback(p) ==
  /\ tx' = [tx EXCEPT ![p] = Closed]
  /\ told' = IF p \in Customers THEN [told EXCEPT ![p] = "error"] ELSE told
  /\ UNCHANGED <<committed, coupon>>

--------------------------------------------------------------------------------
(* checkoutCart *)

\* The checks that come before anything is written refuse the cart.
Refuse(p) ==
  /\ p \in Customers /\ told[p] = "nothing" /\ tx[p] = Closed
  /\ told' = [told EXCEPT ![p] = "refused"]
  /\ UNCHANGED <<committed, coupon, tx>>

\* They pass, validateCoupon among them.
Validate(p) ==
  /\ p \in Customers /\ told[p] = "nothing" /\ tx[p] = Closed
  /\ \E cart \in Carts, code \in {"none", "given"} :
       /\ code = "given" => coupon # "gone" /\ uses < MaxUses
       /\ tx' = [tx EXCEPT ![p] = [Closed EXCEPT !.pc = "reserve", !.order = p,
                                                 !.cart = cart, !.code = code]]
  /\ UNCHANGED <<committed, coupon, told>>

\* Mutant of Skip: the line is passed over without moving on.
SkipForever(p) ==
  /\ tx[p].pc \in {"reserve", "restore"} /\ HasLine(p) /\ ~Tracked(Line(p))
  /\ UNCHANGED vars

\* A product whose stock is not tracked is neither spent nor given back.
Skip(p) ==
  /\ tx[p].pc \in {"reserve", "restore"} /\ HasLine(p) /\ ~Tracked(Line(p))
  /\ tx' = [tx EXCEPT ![p].line = @ + 1]
  /\ UNCHANGED <<committed, coupon, told>>

\* decrementStockInTx, one line.
Reserve(p) ==
  /\ tx[p].pc = "reserve" /\ HasLine(p) /\ Tracked(Line(p))
  /\ Covers(p) /\ Free(p)
  /\ tx' = [tx EXCEPT ![p].delta[Line(p)] = @ - Units(p), ![p].line = @ + 1]
  /\ UNCHANGED <<committed, coupon, told>>

\* A line that cannot be filled: checkoutCart returns, and the transaction
\* commits the lines before it.
RunOut(p) ==
  /\ tx[p].pc = "reserve" /\ HasLine(p) /\ Tracked(Line(p))
  /\ ~Covers(p)
  /\ tx' = [tx EXCEPT ![p].pc = "commit", ![p].answer = "refused"]
  /\ UNCHANGED <<committed, coupon, told>>

\* allocateOrderNumber and the insert of the order.
Persist(p) ==
  /\ tx[p].pc = "reserve" /\ ~HasLine(p) /\ Free(p)
  /\ tx[p].code = "given" => coupon # "gone"
  /\ tx' = [tx EXCEPT ![p].number = counter + 1,
                      ![p].pc = IF tx[p].code = "given" THEN "redeem" ELSE "commit"]
  /\ UNCHANGED <<committed, coupon, told>>

\* The order would reference a coupon that was deleted meanwhile: the insert throws.
PersistFails(p) ==
  /\ tx[p].pc = "reserve" /\ ~HasLine(p) /\ Free(p)
  /\ tx[p].code = "given" /\ coupon = "gone"
  /\ Rollback(p)

Redeem(p) ==
  /\ tx[p].pc = "redeem" /\ Redeemable /\ Free(p)
  /\ tx' = [tx EXCEPT ![p].redeems = 1, ![p].pc = "commit"]
  /\ UNCHANGED <<committed, coupon, told>>

\* The last use went to another checkout: checkoutCart returns, and commits.
RedeemLost(p) ==
  /\ tx[p].pc = "redeem" /\ ~Redeemable
  /\ tx' = [tx EXCEPT ![p].pc = "commit", ![p].answer = "refused"]
  /\ UNCHANGED <<committed, coupon, told>>

Commit(p) ==
  /\ p \in Customers /\ tx[p].pc = "commit"
  /\ stock' = [x \in Products |-> stock[x] + tx[p].delta[x]]
  /\ uses' = uses + tx[p].redeems
  /\ redeemed' = IF tx[p].redeems = 0 THEN redeemed ELSE redeemed \cup {p}
  /\ IF tx[p].number # 0
     THEN /\ counter' = tx[p].number
          /\ orders' = [orders EXCEPT ![p] = [status |-> "new", number |-> tx[p].number,
                                              cart |-> tx[p].cart]]
          /\ UNCHANGED leaked
     ELSE /\ leaked' = [x \in Products |-> leaked[x] - tx[p].delta[x]]
          /\ UNCHANGED <<counter, orders>>
  /\ told' = [told EXCEPT ![p] = tx[p].answer]
  /\ tx' = [tx EXCEPT ![p] = Closed]
  /\ UNCHANGED coupon

--------------------------------------------------------------------------------
(* An order moves on, or is cancelled and its units go back *)

\* The read of the order, and canTransitionOrder.
BeginEdit(p, o, to) ==
  /\ p \in Editors /\ tx[p] = Closed
  /\ <<orders[o].status, to>> \in Transitions
  /\ tx' = [tx EXCEPT ![p] = [Closed EXCEPT !.pc = "claim", !.order = o,
                                            !.cart = orders[o].cart,
                                            !.from = orders[o].status, !.to = to]]
  /\ UNCHANGED <<committed, coupon, told>>

\* changeCartOrderStatus refuses "cancelled".
BeginAdvance(p) ==
  \E o \in Customers, to \in {"confirmed", "preparing", "delivered"} : BeginEdit(p, o, to)

\* cancelCartOrderByMerchant.
BeginCancel(p) == \E o \in Customers : BeginEdit(p, o, "cancelled")

\* selfCancelOrder: only a new order, while its edit window is open.
BeginSelfCancel(p) ==
  \E o \in Customers : orders[o].status = "new" /\ BeginEdit(p, o, "cancelled")

Claim(p) ==
  /\ tx[p].pc = "claim" /\ Standing(p) /\ Free(p)
  /\ tx' = [tx EXCEPT ![p].pc = IF tx[p].to = "cancelled" THEN "restore" ELSE "commit"]
  /\ UNCHANGED <<committed, coupon, told>>

\* Another request moved the order first: nothing was written.
ClaimLost(p) ==
  /\ tx[p].pc = "claim" /\ ~Standing(p)
  /\ tx' = [tx EXCEPT ![p] = Closed]
  /\ UNCHANGED <<committed, coupon, told>>

\* restoreStockInTx, one line.
Restore(p) ==
  /\ tx[p].pc = "restore" /\ HasLine(p) /\ Tracked(Line(p)) /\ Free(p)
  /\ tx' = [tx EXCEPT ![p].delta[Line(p)] = @ + Units(p), ![p].line = @ + 1]
  /\ UNCHANGED <<committed, coupon, told>>

\* Mutant of Restored: the loop stops at the first line that was given back.
RestoredEarly(p) ==
  /\ tx[p].pc = "restore" /\ tx[p].line > 1
  /\ tx' = [tx EXCEPT ![p].pc = "commit"]
  /\ UNCHANGED <<committed, coupon, told>>

Restored(p) ==
  /\ tx[p].pc = "restore" /\ ~HasLine(p)
  /\ tx' = [tx EXCEPT ![p].pc = "commit"]
  /\ UNCHANGED <<committed, coupon, told>>

CommitEdit(p) ==
  /\ p \in Editors /\ tx[p].pc = "commit"
  /\ orders' = [orders EXCEPT ![tx[p].order].status = tx[p].to]
  /\ stock' = [x \in Products |-> stock[x] + tx[p].delta[x]]
  /\ tx' = [tx EXCEPT ![p] = Closed]
  /\ UNCHANGED <<counter, uses, coupon, redeemed, told, leaked>>

--------------------------------------------------------------------------------
(* deleteCoupon: counts the redemptions, then deletes *)

CountRedemptions ==
  /\ Deletable
  /\ coupon = "live" /\ redeemed = {}
  /\ coupon' = "doomed"
  /\ UNCHANGED <<committed, tx, told>>

\* The delete waits for the orders being inserted that reference the coupon,
\* and takes the redemptions with it.
DeleteCoupon ==
  /\ coupon = "doomed"
  /\ \A p \in Procs : tx[p].number # 0 => tx[p].code = "none"
  /\ coupon' = "gone"
  /\ redeemed' = {}
  /\ UNCHANGED <<stock, counter, uses, orders, tx, told, leaked>>

--------------------------------------------------------------------------------
(* The specification *)

\* The transaction exceeds its budget, loses its connection or throws.
Expire(p) == tx[p].pc # "idle" /\ Rollback(p)

\* Postgres rolls back one of the transactions that wait for one another.
Deadlocked(p) ==
  \E S \in SUBSET Procs :
    p \in S /\ \A q \in S : \E r \in S \ {q} : WaitsFor(q, r)

Victim(p) == Deadlocked(p) /\ Expire(p)

Begin(p) ==
  Refuse(p) \/ Validate(p) \/ BeginAdvance(p) \/ BeginCancel(p) \/ BeginSelfCancel(p)

Step(p) ==
  \/ Skip(p) \/ Reserve(p) \/ RunOut(p) \/ Persist(p) \/ PersistFails(p)
  \/ Redeem(p) \/ RedeemLost(p) \/ Commit(p)
  \/ Claim(p) \/ ClaimLost(p) \/ Restore(p) \/ Restored(p) \/ CommitEdit(p)

Next ==
  \/ \E p \in Procs : Begin(p) \/ Step(p) \/ Expire(p)
  \/ CountRedemptions \/ DeleteCoupon

Spec == Init /\ [][Next]_vars

--------------------------------------------------------------------------------
(* Properties *)

OrderRows == [status : Statuses, number : Nat, cart : Carts \cup {NoCart}]

TxStates ==
  [pc : {"idle", "reserve", "redeem", "claim", "restore", "commit"},
   order : Customers \cup {"none"}, cart : Carts \cup {NoCart}, line : Nat \ {0},
   delta : [Products -> Int], code : {"none", "given"}, number : Nat,
   redeems : {0, 1}, from : Statuses, to : Statuses, answer : {"placed", "refused"}]

\* Every variable keeps its type.
TypeOK ==
  /\ stock \in [Products -> Int] /\ counter \in Nat /\ uses \in Nat
  /\ coupon \in {"live", "doomed", "gone"}
  /\ redeemed \subseteq Customers
  /\ orders \in [Customers -> OrderRows]
  /\ tx \in [Procs -> TxStates]
  /\ told \in [Customers -> {"nothing", "placed", "refused", "error"}]
  /\ leaked \in [Products -> Int]

\* What the properties below rest on, and every step preserves:
\* a row has one writer at a time;
Exclusive ==
  \A p, q \in Procs : p # q =>
    /\ \A x \in Products : tx[p].delta[x] = 0 \/ tx[q].delta[x] = 0
    /\ tx[p].number = 0 \/ tx[q].number = 0
    /\ tx[p].redeems = 0 \/ tx[q].redeems = 0

\* what a transaction took of a product that blocks was there to take;
StockHeld ==
  \A x \in Products : Policy[x] = "track_and_block" =>
    stock[x] >= 0 /\ \A p \in Procs : stock[x] + tx[p].delta[x] >= 0

\* and so was the use of the coupon;
UsesHeld == \A p \in Procs : uses + tx[p].redeems <= MaxUses

\* the counter is the last number given, and an uncommitted order has the next;
NumbersHeld ==
  /\ \A p \in Procs : tx[p].number \in {0, counter + 1}
  /\ \A c \in Customers : orders[c].status # "none" => orders[c].number \in 1..counter

\* a customer with a transaction open, or none yet, has committed nothing;
OpenOnce ==
  /\ \A c \in Customers :
       /\ tx[c].pc # "idle" => told[c] = "nothing"
       /\ told[c] = "nothing" => orders[c].status = "none" /\ c \notin redeemed
       /\ tx[c].pc \notin {"claim", "restore"}
  /\ \A p \in Editors : tx[p].pc \notin {"reserve", "redeem"} /\ tx[p].redeems = 0

\* an order stays as the request that claimed its transition has read it.
Claimed ==
  \A p \in Editors : tx[p].pc \in {"claim", "restore", "commit"} =>
    /\ tx[p].order \in Customers
    /\ <<tx[p].from, tx[p].to>> \in Transitions
    /\ tx[p].pc # "claim" =>
         /\ Standing(p)
         /\ \A q \in Editors \ {p} :
              tx[q].order = tx[p].order => tx[q].pc \notin {"restore", "commit"}

\* what a transaction has moved is what the lines it is past have, all of it once
\* it has given a number or ends a cancellation;
Passed(p, x) == \E i \in DOMAIN tx[p].cart.lines : i < tx[p].line /\ tx[p].cart.lines[i] = x

UnitsMoved ==
  \A p \in Procs, x \in Products : Tracked(x) =>
    LET moved == tx[p].delta[x]
        units == tx[p].cart.units[x]
    IN  /\ tx[p].pc = "reserve" => moved = IF Passed(p, x) THEN -units ELSE 0
        /\ tx[p].pc = "claim" => moved = 0 /\ tx[p].line = 1
        /\ tx[p].pc = "restore" => /\ tx[p].to = "cancelled"
                                   /\ moved = IF Passed(p, x) THEN units ELSE 0
        /\ tx[p].number # 0 => tx[p].pc \in {"redeem", "commit"} /\ moved = -units
        /\ tx[p].pc = "commit" /\ p \in Editors => moved = IF tx[p].to = "cancelled" THEN units ELSE 0

\* nothing else is moved; a checkout that is refused was at a line that blocks, and
\* has moved those before it;
Refused(p) == p \in Customers /\ tx[p].pc = "commit" /\ tx[p].number = 0

LinesSound ==
  /\ \A c \in Customers : tx[c].pc # "idle" => tx[c].cart \in Carts
  /\ \A p \in Procs :
       /\ \A x \in Products : ~Tracked(x) => tx[p].delta[x] = 0
       /\ tx[p].pc = "redeem" => tx[p].number # 0
       /\ Refused(p) =>
            /\ HasLine(p) /\ Policy[Line(p)] = "track_and_block"
            /\ \A x \in Products : Tracked(x) =>
                 tx[p].delta[x] = IF Passed(p, x) THEN -tx[p].cart.units[x] ELSE 0

\* and the cart of an order is the one that was placed, for whoever has read it.
CartsRead ==
  /\ \A c \in Customers : orders[c].status = "none" => orders[c] = NoOrder
  /\ \A p \in Editors : tx[p].pc # "idle" =>
       orders[tx[p].order].status # "none" /\ tx[p].cart = orders[tx[p].order].cart

Inductive ==
  /\ TypeOK /\ Exclusive /\ StockHeld /\ UsesHeld /\ NumbersHeld /\ OpenOnce /\ Claimed
  /\ UnitsMoved /\ LinesSound /\ CartsRead

\* Overselling is a P0 (docs/PHASE-9.md, invariant 2): however checkouts and
\* cancellations interleave, a product that blocks is never sold below zero.
NoOversell == \A x \in Products : Policy[x] = "track_and_block" => stock[x] >= 0

\* Every unit is on the shelf, in an order that was not cancelled, or was taken
\* by a checkout that was refused after it had spent it.
Sold(o, x) == IF orders[o].status = "cancelled" THEN 0 ELSE orders[o].cart.units[x]

StockAccounted ==
  \A x \in {y \in Products : Tracked(y)} :
    Stock0[x] = stock[x] + leaked[x] + SumOver([o \in Customers |-> Sold(o, x)])

\* A coupon is redeemed at most MaxUses times, and its count is the number of
\* its redemptions as long as it exists.
CouponBudget ==
  /\ uses <= MaxUses
  /\ coupon # "gone" => uses = Cardinality(redeemed)

\* Order numbers are given once each, and a number that was given has its order.
NumbersDense ==
  LET Placed == {c \in Customers : orders[c].status # "none"}
  IN  /\ {orders[c].number : c \in Placed} = 1..counter
      /\ \A c, d \in Placed : orders[c].number = orders[d].number => c = d

\* Two requests on one order: only transitions of the table are ever committed.
OnlyTransitions ==
  [][\A c \in Customers :
       orders[c].status \notin {"none", orders'[c].status}
         => <<orders[c].status, orders'[c].status>> \in Transitions]_vars

\* What the shop does for one who sees only what was committed, as Shop states it:
\* orders that take and give back their units at one stroke.
Store == INSTANCE Shop

ShopKept == Store!Spec

\* A transaction that began comes to an end.
Ends(p) == tx[p].pc # "idle" ~> tx[p].pc = "idle"

\* What a comment says and the code does not do, under a run of its own:

\* "an oversell rolls the whole checkout back", and so does a lost coupon
\* (orders/checkout.ts): a refused checkout leaves no order and no spent stock.
RefusedLeavesNothing ==
  /\ \A c \in Customers : told[c] = "refused" => orders[c] = NoOrder
  /\ \A x \in Products : leaked[x] = 0

===============================================================================
