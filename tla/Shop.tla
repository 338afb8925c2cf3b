---------------------------------- MODULE Shop ----------------------------------
(***************************************************************************)
(* What a shop with many customers looks like to one that stands outside:  *)
(* an order takes its units and its number as it appears, and gives the    *)
(* units back as it is cancelled, each at one stroke.  A checkout that is  *)
(* refused may keep the units of the lines before the one that ran out.    *)
(***************************************************************************)
EXTENDS Integers, Sequences

CONSTANTS
  Customers,  \* an order goes by the one that placed it
  Products,
  Policy,     \* stock_policy of each product
  Stock0,     \* stock of each product at the start
  Carts       \* the lines in order, and units of each product

VARIABLES stock, counter, orders

vars == <<stock, counter, orders>>

NoOrder ==
  [status |-> "none", number |-> 0,
   cart |-> [lines |-> <<>>, units |-> [x \in Products |-> 0]]]

Init ==
  /\ stock = Stock0
  /\ counter = 0
  /\ orders = [c \in Customers |-> NoOrder]

\* The units of a product in the first n lines of a cart, if they are counted.
Units(cart, n, x) ==
  IF Policy[x] # "untracked" /\ \E i \in 1..n : cart.lines[i] = x THEN cart.units[x] ELSE 0

\* Of a product that blocks, nothing is taken that is not there.
Take(cart, n) ==
  /\ \A x \in Products : Policy[x] = "track_and_block" => Units(cart, n, x) <= stock[x]
  /\ stock' = [x \in Products |-> stock[x] - Units(cart, n, x)]

Place(c, cart) ==
  /\ orders[c] = NoOrder
  /\ Take(cart, Len(cart.lines))
  /\ counter' = counter + 1
  /\ orders' = [orders EXCEPT ![c] = [status |-> "new", number |-> counter + 1, cart |-> cart]]

\* Only a product that blocks can refuse a checkout, and its own units are not taken.
Spill(cart, n) ==
  /\ Policy[cart.lines[n + 1]] = "track_and_block"
  /\ Take(cart, n)
  /\ UNCHANGED <<counter, orders>>

Advance(c, to) ==
  /\ <<orders[c].status, to>> \in
       {<<"new", "confirmed">>, <<"confirmed", "preparing">>, <<"preparing", "delivered">>}
  /\ orders' = [orders EXCEPT ![c].status = to]
  /\ UNCHANGED <<stock, counter>>

\* All of its units, once.
Cancel(c) ==
  /\ orders[c].status \in {"new", "confirmed", "preparing"}
  /\ orders' = [orders EXCEPT ![c].status = "cancelled"]
  /\ LET cart == orders[c].cart
     IN  stock' = [x \in Products |-> stock[x] + Units(cart, Len(cart.lines), x)]
  /\ UNCHANGED counter

Next ==
  \/ \E c \in Customers, cart \in Carts : Place(c, cart)
  \/ \E cart \in Carts : \E n \in 0..(Len(cart.lines) - 1) : Spill(cart, n)
  \/ \E c \in Customers, to \in {"confirmed", "preparing", "delivered"} : Advance(c, to)
  \/ \E c \in Customers : Cancel(c)

Spec == Init /\ [][Next]_vars
=================================================================================
