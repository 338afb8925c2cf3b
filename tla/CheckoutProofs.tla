----------------------------- MODULE CheckoutProofs -----------------------------
(***************************************************************************)
(* Proofs about Checkout, for every set of requests, every catalogue,      *)
(* every stock and every set of carts.                                     *)
(***************************************************************************)
EXTENDS Checkout, SumsProofs

USE DEF committed

\* The line a transaction is at names a product and a number of units of it.
LEMMA LineTyped ==
  ASSUME TypeOK, NEW p \in Procs, HasLine(p)
  PROVE  Line(p) \in Products /\ Units(p) \in Nat
<1> USE CheckoutAssumption
<1>1. tx[p].line \in Nat \ {0} /\ tx[p].cart \in Carts \cup {NoCart}
  BY DEF TypeOK, TxStates
<1>2. tx[p].cart # NoCart
  BY <1>1 DEF HasLine, NoCart
<1>3. tx[p].cart.lines \in Seq(Products) /\ tx[p].cart.units \in [Products -> Nat]
  BY <1>1, <1>2
<1>4. tx[p].line \in 1..Len(tx[p].cart.lines)
  BY <1>1, <1>3 DEF HasLine
<1>5. Line(p) \in Products
  BY <1>3, <1>4 DEF Line
<1> QED
  BY <1>3, <1>5 DEF Units

\* What a transaction looks like before anything happened in it.
LEMMA ClosedTyped ==
  /\ Closed \in TxStates
  /\ Closed.pc = "idle" /\ Closed.number = 0 /\ Closed.redeems = 0
  /\ \A x \in Products : Closed.delta[x] = 0
<1>1. [x \in Products |-> 0] \in [Products -> Int]
  OBVIOUS
<1> QED
  BY <1>1 DEF Closed, TxStates, Statuses

\* The initial state has the types.
LEMMA InitTyped == Init => TypeOK
<1> SUFFICES ASSUME Init PROVE TypeOK
  OBVIOUS
<1>1. NoOrder \in OrderRows
  BY DEF NoOrder, OrderRows, Statuses
<1>2. stock \in [Products -> Int] /\ leaked \in [Products -> Int]
  BY CheckoutAssumption DEF Init
<1> QED
  BY <1>1, <1>2, ClosedTyped DEF Init, TypeOK

\* A step of one request leaves the transactions of the others alone.
LEMMA StepFrame ==
  ASSUME TypeOK, NEW p \in Procs, Begin(p) \/ Step(p) \/ Expire(p), NEW q \in Procs \ {p}
  PROVE  tx'[q] = tx[q]
<1>1. tx \in [Procs -> TxStates]
  BY DEF TypeOK
<1>2. CASE Begin(p)
  BY <1>1, <1>2 DEF Begin, Refuse, Validate, BeginAdvance, BeginCancel, BeginSelfCancel, BeginEdit
<1>3. CASE Skip(p) \/ Reserve(p) \/ RunOut(p) \/ Persist(p) \/ PersistFails(p)
  BY <1>1, <1>3 DEF Skip, Reserve, RunOut, Persist, PersistFails, Rollback
<1>4. CASE Redeem(p) \/ RedeemLost(p) \/ Commit(p)
  BY <1>1, <1>4 DEF Redeem, RedeemLost, Commit
<1>5. CASE Claim(p) \/ ClaimLost(p) \/ Restore(p) \/ Restored(p) \/ CommitEdit(p)
  BY <1>1, <1>5 DEF Claim, ClaimLost, Restore, Restored, CommitEdit
<1>6. CASE Expire(p)
  BY <1>1, <1>6 DEF Expire, Rollback
<1> QED
  BY <1>2, <1>3, <1>4, <1>5, <1>6 DEF Step

\* The transaction a step leaves behind has its type.
LEMMA TxTyped ==
  ASSUME TypeOK, NEW p \in Procs, Begin(p) \/ Step(p) \/ Expire(p)
  PROVE  tx' \in [Procs -> TxStates]
<1>1. tx \in [Procs -> TxStates] /\ tx[p] \in TxStates
  BY DEF TypeOK
<1>2. \A r \in TxStates : [tx EXCEPT ![p] = r] \in [Procs -> TxStates]
  BY <1>1
<1>3. tx' = [tx EXCEPT ![p] = Closed] => tx' \in [Procs -> TxStates]
  BY <1>2, ClosedTyped
<1>4. \A pc \in {"commit", "restore"} : [tx[p] EXCEPT !.pc = pc] \in TxStates
  BY <1>1 DEF TxStates
<1>5. CASE Refuse(p)
  BY <1>1, <1>5 DEF Refuse
<1>6. CASE Validate(p)
  <2>1. \A cart \in Carts, code \in {"none", "given"} :
          p \in Customers =>
            [Closed EXCEPT !.pc = "reserve", !.order = p, !.cart = cart, !.code = code] \in TxStates
    BY ClosedTyped DEF TxStates
  <2> QED
    BY <1>2, <1>6, <2>1 DEF Validate
<1>7. ASSUME NEW o \in Customers, NEW to \in Statuses, BeginEdit(p, o, to)
      PROVE  tx' \in [Procs -> TxStates]
  <2>1. orders[o].cart \in Carts \cup {NoCart} /\ orders[o].status \in Statuses
    BY DEF TypeOK, OrderRows
  <2>2. [Closed EXCEPT !.pc = "claim", !.order = o, !.cart = orders[o].cart,
                       !.from = orders[o].status, !.to = to] \in TxStates
    BY <2>1, ClosedTyped DEF TxStates
  <2> QED
    BY <1>2, <1>7, <2>2 DEF BeginEdit
<1>8. CASE BeginAdvance(p) \/ BeginCancel(p) \/ BeginSelfCancel(p)
  BY <1>7, <1>8 DEF BeginAdvance, BeginCancel, BeginSelfCancel, Statuses
<1>9. CASE Skip(p)
  <2>1. [tx[p] EXCEPT !.line = @ + 1] \in TxStates
    BY <1>1 DEF TxStates
  <2> QED
    BY <1>1, <1>2, <1>9, <2>1 DEF Skip
<1>10. CASE Reserve(p) \/ Restore(p)
  <2>1. PICK d \in Int : tx' = [tx EXCEPT ![p].delta[Line(p)] = d, ![p].line = @ + 1]
    <3>1. Line(p) \in Products /\ Units(p) \in Nat /\ tx[p].delta[Line(p)] \in Int
      BY <1>1, <1>10, LineTyped DEF Reserve, Restore, TxStates
    <3>2. tx[p].delta[Line(p)] - Units(p) \in Int /\ tx[p].delta[Line(p)] + Units(p) \in Int
      BY <3>1
    <3> QED
      BY <1>1, <1>10, <3>2 DEF Reserve, Restore
  <2>2. [tx[p].delta EXCEPT ![Line(p)] = d] \in [Products -> Int] /\ tx[p].line + 1 \in Nat \ {0}
    <3>1. tx[p].delta \in [Products -> Int] /\ tx[p].line \in Nat
      BY <1>1 DEF TxStates
    <3>2. \A f \in [Products -> Int] : [f EXCEPT ![Line(p)] = d] \in [Products -> Int]
      OBVIOUS
    <3> QED
      BY <3>1, <3>2
  <2>3. \A e \in [Products -> Int], n \in Nat \ {0} :
          [tx[p] EXCEPT !.delta = e, !.line = n] \in TxStates
    BY <1>1 DEF TxStates
  <2>4. tx' = [tx EXCEPT ![p] = [tx[p] EXCEPT !.delta = [tx[p].delta EXCEPT ![Line(p)] = d],
                                              !.line = tx[p].line + 1]]
    BY <1>1, <2>1 DEF TxStates
  <2> QED
    BY <1>2, <2>2, <2>3, <2>4
<1>11. CASE RunOut(p) \/ RedeemLost(p)
  <2>1. [tx[p] EXCEPT !.pc = "commit", !.answer = "refused"] \in TxStates
    BY <1>1 DEF TxStates
  <2> QED
    BY <1>1, <1>2, <1>11, <2>1 DEF RunOut, RedeemLost
<1>12. CASE Persist(p)
  <2>1. counter + 1 \in Nat
    BY DEF TypeOK
  <2>2. \A pc \in {"redeem", "commit"} :
          [tx[p] EXCEPT !.number = counter + 1, !.pc = pc] \in TxStates
    BY <1>1, <2>1 DEF TxStates
  <2>3. CASE tx[p].code = "given"
    <3>1. tx' = [tx EXCEPT ![p].number = counter + 1, ![p].pc = "redeem"]
      BY <1>12, <2>3 DEF Persist
    <3> QED
      BY <1>1, <1>2, <2>2, <3>1
  <2>4. CASE tx[p].code # "given"
    <3>1. tx' = [tx EXCEPT ![p].number = counter + 1, ![p].pc = "commit"]
      BY <1>12, <2>4 DEF Persist
    <3> QED
      BY <1>1, <1>2, <2>2, <3>1
  <2> QED
    BY <2>3, <2>4
<1>13. CASE Redeem(p)
  <2>1. [tx[p] EXCEPT !.redeems = 1, !.pc = "commit"] \in TxStates
    BY <1>1 DEF TxStates
  <2> QED
    BY <1>1, <1>2, <1>13, <2>1 DEF Redeem
<1>14. CASE Claim(p) \/ Restored(p)
  BY <1>1, <1>2, <1>4, <1>14 DEF Claim, Restored
<1>15. CASE PersistFails(p) \/ Commit(p) \/ ClaimLost(p) \/ CommitEdit(p) \/ Expire(p)
  BY <1>3, <1>15 DEF PersistFails, Commit, ClaimLost, CommitEdit, Expire, Rollback
<1> QED
  BY <1>5, <1>6, <1>8, <1>9, <1>10, <1>11, <1>12, <1>13, <1>14, <1>15 DEF Begin, Step

\* Every step keeps every variable in its type.
LEMMA StepTyped ==
  ASSUME TypeOK, NEW p \in Procs, Begin(p) \/ Step(p) \/ Expire(p)
  PROVE  TypeOK'
<1>1. tx' \in [Procs -> TxStates] /\ tx[p] \in TxStates
  BY TxTyped DEF TypeOK
<1>2. ASSUME UNCHANGED <<committed, coupon, told>> PROVE TypeOK'
  BY <1>1, <1>2 DEF TypeOK
<1>3. CASE Rollback(p)
  BY <1>1, <1>3 DEF Rollback, TypeOK
<1>4. CASE Begin(p)
  BY <1>1, <1>4 DEF TypeOK, Begin, Refuse, Validate, BeginAdvance, BeginCancel,
                    BeginSelfCancel, BeginEdit
<1>5. CASE Skip(p) \/ Reserve(p) \/ RunOut(p) \/ Persist(p) \/ Redeem(p) \/ RedeemLost(p)
  BY <1>2, <1>5 DEF Skip, Reserve, RunOut, Persist, Redeem, RedeemLost
<1>6. CASE Claim(p) \/ ClaimLost(p) \/ Restore(p) \/ Restored(p)
  BY <1>2, <1>6 DEF Claim, ClaimLost, Restore, Restored
<1>7. tx[p].number \in Nat /\ tx[p].redeems \in {0, 1} /\ tx[p].delta \in [Products -> Int]
      /\ tx[p].cart \in Carts \cup {NoCart} /\ tx[p].answer \in {"placed", "refused"}
      /\ tx[p].to \in Statuses
  BY <1>1 DEF TxStates
<1>8. [x \in Products |-> stock[x] + tx[p].delta[x]] \in [Products -> Int]
      /\ [x \in Products |-> leaked[x] - tx[p].delta[x]] \in [Products -> Int]
      /\ uses + tx[p].redeems \in Nat
  BY <1>7 DEF TypeOK
<1>9. CASE Commit(p)
  <2>1. stock' \in [Products -> Int] /\ uses' \in Nat /\ redeemed' \subseteq Customers
    BY <1>8, <1>9 DEF Commit, TypeOK
  <2>2. [status |-> "new", number |-> tx[p].number, cart |-> tx[p].cart] \in OrderRows
    BY <1>7 DEF OrderRows, Statuses
  <2>3. counter' \in Nat /\ orders' \in [Customers -> OrderRows] /\ leaked' \in [Products -> Int]
    BY <1>7, <1>8, <1>9, <2>2 DEF Commit, TypeOK
  <2>4. told' \in [Customers -> {"nothing", "placed", "refused", "error"}] /\ coupon' = coupon
    BY <1>7, <1>9 DEF Commit, TypeOK
  <2> QED
    BY <1>1, <2>1, <2>3, <2>4 DEF TypeOK
<1>10. CASE CommitEdit(p)
  <2>1. orders' \in [Customers -> OrderRows]
    BY <1>7, <1>10 DEF CommitEdit, TypeOK, OrderRows
  <2> QED
    BY <1>1, <1>8, <1>10, <2>1 DEF CommitEdit, TypeOK
<1> QED
  BY <1>3, <1>4, <1>5, <1>6, <1>9, <1>10 DEF Step, PersistFails, Expire

\* What a step does to the writes its transaction has not committed.
Keeps(p) == /\ tx'[p].delta = tx[p].delta
            /\ tx'[p].number = tx[p].number
            /\ tx'[p].redeems = tx[p].redeems
Drops(p) == /\ \A x \in Products : tx'[p].delta[x] = 0
            /\ tx'[p].number = 0
            /\ tx'[p].redeems = 0

\* Only six steps add to them or commit them.
LEMMA Effects ==
  ASSUME TypeOK, NEW p \in Procs, Begin(p) \/ Step(p) \/ Expire(p)
  PROVE  \/ UNCHANGED committed /\ (Keeps(p) \/ Drops(p))
         \/ Reserve(p) \/ Restore(p) \/ Persist(p) \/ Redeem(p) \/ Commit(p) \/ CommitEdit(p)
<1>1. tx \in [Procs -> TxStates] /\ tx[p] \in TxStates
  BY DEF TypeOK
<1>2. tx' = [tx EXCEPT ![p] = Closed] => Drops(p)
  BY <1>1, ClosedTyped DEF Drops
<1>3. CASE Begin(p)
  <2>1. CASE Refuse(p)
    BY <2>1 DEF Refuse, Keeps
  <2>2. CASE Validate(p)
    BY <1>1, <2>2 DEF Validate, Drops, Closed
  <2>3. ASSUME NEW o \in Customers, NEW to, BeginEdit(p, o, to)
        PROVE  UNCHANGED committed /\ Drops(p)
    BY <1>1, <2>3 DEF BeginEdit, Drops, Closed
  <2> QED
    BY <1>3, <2>1, <2>2, <2>3 DEF Begin, BeginAdvance, BeginCancel, BeginSelfCancel
<1>4. CASE Skip(p) \/ RunOut(p) \/ RedeemLost(p) \/ Claim(p) \/ Restored(p)
  BY <1>1, <1>4 DEF Skip, RunOut, RedeemLost, Claim, Restored, Keeps, TxStates
<1>5. CASE PersistFails(p) \/ ClaimLost(p) \/ Expire(p)
  BY <1>2, <1>5 DEF PersistFails, ClaimLost, Expire, Rollback
<1> QED
  BY <1>3, <1>4, <1>5 DEF Step

\* A line that is reserved or given back changes one entry of delta, which no
\* other transaction has written and which, when reserved, the stock covers.
LEMMA LineEffect ==
  ASSUME TypeOK, NEW p \in Procs, Reserve(p) \/ Restore(p)
  PROVE  /\ UNCHANGED committed
         /\ tx'[p].number = tx[p].number /\ tx'[p].redeems = tx[p].redeems
         /\ \A q \in Procs \ {p} : tx[q].delta[Line(p)] = 0
         /\ \A x \in Products \ {Line(p)} : tx'[p].delta[x] = tx[p].delta[x]
         /\ \/ tx'[p].delta[Line(p)] >= tx[p].delta[Line(p)]
            \/ Policy[Line(p)] = "track_and_block" =>
                 stock[Line(p)] + tx'[p].delta[Line(p)] >= 0
<1>1. tx \in [Procs -> TxStates] /\ tx[p] \in TxStates /\ tx[p].delta \in [Products -> Int]
  BY DEF TypeOK, TxStates
<1>2. /\ HasLine(p) /\ Tracked(Line(p)) /\ Free(p) /\ UNCHANGED committed
      /\ tx[p].pc \in {"reserve", "restore"} /\ (tx[p].pc = "reserve" => Covers(p))
  BY DEF Reserve, Restore
<1>3. Line(p) \in Products /\ Units(p) \in Nat
  BY <1>2, LineTyped
<1>4. \A q \in Procs \ {p} : tx[q].delta[Line(p)] = 0
  BY <1>2 DEF Free, WaitsFor
<1>5. stock[Line(p)] \in Int /\ tx[p].delta[Line(p)] \in Int
  BY <1>1, <1>3 DEF TypeOK
<1>6. \A d : tx' = [tx EXCEPT ![p].delta[Line(p)] = d, ![p].line = @ + 1] =>
        /\ tx'[p].number = tx[p].number /\ tx'[p].redeems = tx[p].redeems
        /\ tx'[p].delta = [tx[p].delta EXCEPT ![Line(p)] = d]
  BY <1>1 DEF TxStates
<1>7. CASE Reserve(p)
  <2>1. tx'[p].delta = [tx[p].delta EXCEPT ![Line(p)] = tx[p].delta[Line(p)] - Units(p)]
        /\ tx'[p].number = tx[p].number /\ tx'[p].redeems = tx[p].redeems
    BY <1>1, <1>6, <1>7 DEF Reserve
  <2>2. Policy[Line(p)] = "track_and_block" => stock[Line(p)] + tx[p].delta[Line(p)] >= Units(p)
    BY <1>7 DEF Reserve, Covers
  <2>3. Policy[Line(p)] = "track_and_block" => stock[Line(p)] + tx'[p].delta[Line(p)] >= 0
    BY <1>1, <1>3, <1>5, <2>1, <2>2
  <2> QED
    BY <1>1, <1>2, <1>4, <2>1, <2>3
<1>8. CASE Restore(p)
  <2>1. tx'[p].delta = [tx[p].delta EXCEPT ![Line(p)] = tx[p].delta[Line(p)] + Units(p)]
        /\ tx'[p].number = tx[p].number /\ tx'[p].redeems = tx[p].redeems
    BY <1>1, <1>6, <1>8 DEF Restore
  <2>2. tx'[p].delta[Line(p)] >= tx[p].delta[Line(p)]
    BY <1>1, <1>3, <1>5, <2>1
  <2> QED
    BY <1>1, <1>2, <1>4, <2>1, <2>2
<1> QED
  BY <1>7, <1>8

\* The number of an order is the next one, and nobody else has taken it.
LEMMA PersistEffect ==
  ASSUME TypeOK, NEW p \in Procs, Persist(p)
  PROVE  /\ UNCHANGED committed
         /\ tx'[p].delta = tx[p].delta /\ tx'[p].redeems = tx[p].redeems
         /\ tx'[p].number = counter + 1
         /\ \A q \in Procs \ {p} : tx[q].number = 0
<1>1. tx \in [Procs -> TxStates] /\ tx[p] \in TxStates
  BY DEF TypeOK
<1>2. PICK pc : tx' = [tx EXCEPT ![p].number = counter + 1, ![p].pc = pc]
  BY DEF Persist
<1>3. \A q \in Procs \ {p} : tx[q].number = 0
  BY DEF Persist, Free, WaitsFor, Numbering
<1> QED
  BY <1>1, <1>2, <1>3 DEF Persist, TxStates

\* The use of the coupon that is spent is there, and nobody else has spent it.
LEMMA RedeemEffect ==
  ASSUME TypeOK, NEW p \in Procs, Redeem(p)
  PROVE  /\ UNCHANGED committed
         /\ tx'[p].delta = tx[p].delta /\ tx'[p].number = tx[p].number
         /\ tx'[p].redeems = 1 /\ uses + 1 <= MaxUses
         /\ \A q \in Procs \ {p} : tx[q].redeems = 0
<1>1. tx \in [Procs -> TxStates] /\ tx[p] \in TxStates
  BY DEF TypeOK
<1>2. \A q \in Procs \ {p} : tx[q].redeems = 0
  BY DEF Redeem, Free, WaitsFor
<1>3. uses + 1 <= MaxUses
  BY CheckoutAssumption DEF Redeem, Redeemable, TypeOK
<1> QED
  BY <1>1, <1>2, <1>3 DEF Redeem, TxStates

\* A commit adds what the transaction wrote and nothing else.
LEMMA CommitEffect ==
  ASSUME TypeOK, NEW p \in Procs, Commit(p) \/ CommitEdit(p)
  PROVE  /\ Drops(p)
         /\ \A x \in Products : stock'[x] = stock[x] + tx[p].delta[x]
<1>1. tx \in [Procs -> TxStates] /\ tx' = [tx EXCEPT ![p] = Closed]
  BY DEF TypeOK, Commit, CommitEdit
<1>2. stock' = [x \in Products |-> stock[x] + tx[p].delta[x]]
  BY DEF Commit, CommitEdit
<1> QED
  BY <1>1, <1>2, ClosedTyped DEF Drops

\* A row keeps having one writer.
LEMMA ExclusiveStep ==
  ASSUME TypeOK, Exclusive, NEW p \in Procs, Begin(p) \/ Step(p) \/ Expire(p)
  PROVE  Exclusive'
<1>1. \A q \in Procs \ {p} : tx'[q] = tx[q]
  BY StepFrame
<1>2. ASSUME NEW q \in Procs \ {p}
      PROVE  /\ \A x \in Products : tx'[p].delta[x] = 0 \/ tx[q].delta[x] = 0
             /\ tx'[p].number = 0 \/ tx[q].number = 0
             /\ tx'[p].redeems = 0 \/ tx[q].redeems = 0
  <2>1. CASE Keeps(p) \/ Drops(p)
    BY <2>1 DEF Keeps, Drops, Exclusive
  <2>2. CASE Reserve(p) \/ Restore(p)
    BY <2>2, LineEffect DEF Exclusive
  <2>3. CASE Persist(p)
    BY <2>3, PersistEffect DEF Exclusive
  <2>4. CASE Redeem(p)
    BY <2>4, RedeemEffect DEF Exclusive
  <2>5. CASE Commit(p) \/ CommitEdit(p)
    BY <2>1, <2>5, CommitEffect
  <2> QED
    BY <2>1, <2>2, <2>3, <2>4, <2>5, Effects
<1>3. SUFFICES ASSUME NEW q \in Procs, NEW r \in Procs, q # r
               PROVE  /\ \A x \in Products : tx'[q].delta[x] = 0 \/ tx'[r].delta[x] = 0
                      /\ tx'[q].number = 0 \/ tx'[r].number = 0
                      /\ tx'[q].redeems = 0 \/ tx'[r].redeems = 0
  BY DEF Exclusive
<1>4. CASE q # p /\ r # p
  <2>1. tx'[q] = tx[q] /\ tx'[r] = tx[r]
    BY <1>1, <1>4
  <2> QED
    BY <1>3, <2>1 DEF Exclusive
<1>5. CASE q = p \/ r = p
  BY <1>1, <1>2, <1>3, <1>5
<1> QED
  BY <1>4, <1>5

\* Where each transaction's changes fit in the stock, they do after a step.
LEMMA StockStep ==
  ASSUME TypeOK, Exclusive, StockHeld, NEW p \in Procs, Begin(p) \/ Step(p) \/ Expire(p)
  PROVE  StockHeld'
<1>1. \A q \in Procs \ {p} : tx'[q] = tx[q]
  BY StepFrame
<1>2. TypeOK'
  BY StepTyped
<1> SUFFICES ASSUME NEW x \in Products, Policy[x] = "track_and_block"
             PROVE  stock'[x] >= 0 /\ \A q \in Procs : stock'[x] + tx'[q].delta[x] >= 0
  BY DEF StockHeld
<1>3. /\ stock[x] \in Int /\ stock'[x] \in Int /\ stock[x] >= 0
      /\ \A q \in Procs : /\ tx[q].delta[x] \in Int /\ tx'[q].delta[x] \in Int
                          /\ stock[x] + tx[q].delta[x] >= 0
  BY <1>2 DEF TypeOK, TxStates, StockHeld
<1>4. CASE UNCHANGED committed /\ (Keeps(p) \/ Drops(p))
  BY <1>1, <1>3, <1>4 DEF Keeps, Drops
<1>5. CASE Reserve(p) \/ Restore(p)
  <2>1. UNCHANGED stock
    BY <1>5, LineEffect
  <2>2. stock[x] + tx'[p].delta[x] >= 0
    <3>1. CASE x # Line(p)
      BY <1>3, <1>5, <3>1, LineEffect
    <3>2. CASE x = Line(p)
      BY <1>3, <1>5, <3>2, LineEffect
    <3> QED
      BY <3>1, <3>2
  <2> QED
    BY <1>1, <1>3, <2>1, <2>2
<1>6. CASE Persist(p) \/ Redeem(p)
  BY <1>1, <1>3, <1>6, PersistEffect, RedeemEffect
<1>7. CASE Commit(p) \/ CommitEdit(p)
  <2>1. stock'[x] = stock[x] + tx[p].delta[x] /\ tx'[p].delta[x] = 0
    BY <1>7, CommitEffect DEF Drops
  <2>2. ASSUME NEW q \in Procs \ {p} PROVE stock[x] + tx[p].delta[x] + tx[q].delta[x] >= 0
    <3>1. tx[p].delta[x] = 0 \/ tx[q].delta[x] = 0
      BY DEF Exclusive
    <3> QED
      BY <1>3, <3>1
  <2> QED
    BY <1>1, <1>3, <2>1, <2>2
<1> QED
  BY <1>4, <1>5, <1>6, <1>7, Effects

\* So do the uses of the coupon.
LEMMA UsesStep ==
  ASSUME TypeOK, Exclusive, UsesHeld, NEW p \in Procs, Begin(p) \/ Step(p) \/ Expire(p)
  PROVE  UsesHeld'
<1> USE CheckoutAssumption
<1>1. \A q \in Procs \ {p} : tx'[q] = tx[q]
  BY StepFrame
<1>2. TypeOK'
  BY StepTyped
<1>3. /\ uses \in Nat
      /\ \A q \in Procs : tx[q].redeems \in {0, 1} /\ tx'[q].redeems \in {0, 1}
      /\ \A q \in Procs : uses + tx[q].redeems <= MaxUses
  BY <1>2 DEF TypeOK, TxStates, UsesHeld
<1>4. CASE UNCHANGED committed /\ (Keeps(p) \/ Drops(p))
  BY <1>1, <1>3, <1>4 DEF Keeps, Drops, UsesHeld
<1>5. CASE Reserve(p) \/ Restore(p) \/ Persist(p)
  BY <1>1, <1>3, <1>5, LineEffect, PersistEffect DEF UsesHeld
<1>6. CASE Redeem(p)
  BY <1>1, <1>3, <1>6, RedeemEffect DEF UsesHeld
<1>7. CASE Commit(p)
  <2>1. uses' = uses + tx[p].redeems /\ tx'[p].redeems = 0
    BY <1>7, CommitEffect DEF Commit, Drops
  <2>2. \A q \in Procs \ {p} : tx[p].redeems = 0 \/ tx[q].redeems = 0
    BY DEF Exclusive
  <2> QED
    BY <1>1, <1>3, <2>1, <2>2 DEF UsesHeld
<1>8. CASE CommitEdit(p)
  <2>1. uses' = uses /\ tx'[p].redeems = 0
    BY <1>8, CommitEffect DEF CommitEdit, Drops
  <2> QED
    BY <1>1, <1>3, <2>1 DEF UsesHeld
<1> QED
  BY <1>4, <1>5, <1>6, <1>7, <1>8, Effects

\* A request is at the checkout or acts on an order, never both.
LEMMA OneKind ==
  ASSUME NEW p \in Procs
  PROVE  (p \in Customers) # (p \in Editors)
  BY CheckoutAssumption DEF Procs

\* What a request at the checkout does to its own transaction.
LEMMA CustomerStep ==
  ASSUME TypeOK, OpenOnce, NEW p \in Customers, Begin(p) \/ Step(p) \/ Expire(p)
  PROVE  \/ tx'[p].pc = "idle" /\ told'[p] # "nothing"
         \/ /\ tx'[p].pc \in {"reserve", "redeem", "commit"}
            /\ told[p] = "nothing" /\ UNCHANGED <<committed, told>>
<1>1. p \in Procs /\ p \notin Editors
  BY OneKind DEF Procs
<1>2. /\ tx \in [Procs -> TxStates] /\ tx[p] \in TxStates
      /\ told \in [Customers -> {"nothing", "placed", "refused", "error"}]
  BY <1>1 DEF TypeOK
<1>3. /\ tx[p].pc # "idle" => told[p] = "nothing"
      /\ tx[p].pc \notin {"claim", "restore"}
  BY DEF OpenOnce
<1>4. tx' = [tx EXCEPT ![p] = Closed] => tx'[p].pc = "idle"
  BY <1>1, <1>2, ClosedTyped
<1>5. CASE Begin(p)
  <2>1. CASE Refuse(p)
    BY <1>2, <2>1, ClosedTyped DEF Refuse
  <2>2. CASE Validate(p)
    BY <1>1, <1>2, <2>2 DEF Validate, Closed
  <2> QED
    BY <1>1, <1>5, <2>1, <2>2 DEF Begin, BeginAdvance, BeginCancel, BeginSelfCancel, BeginEdit
<1>6. CASE Skip(p) \/ Reserve(p) \/ RunOut(p)
  BY <1>1, <1>2, <1>3, <1>6 DEF Skip, Reserve, RunOut, TxStates
<1>7. CASE Persist(p)
  <2>1. CASE tx[p].code = "given"
    BY <1>1, <1>2, <1>3, <1>7, <2>1 DEF Persist, TxStates
  <2>2. CASE tx[p].code # "given"
    BY <1>1, <1>2, <1>3, <1>7, <2>2 DEF Persist, TxStates
  <2> QED
    BY <2>1, <2>2
<1>8. CASE Redeem(p) \/ RedeemLost(p)
  BY <1>1, <1>2, <1>3, <1>8 DEF Redeem, RedeemLost, TxStates
<1>9. CASE PersistFails(p) \/ Expire(p)
  BY <1>2, <1>4, <1>9 DEF PersistFails, Expire, Rollback
<1>10. CASE Commit(p)
  <2>1. tx[p].answer # "nothing"
    BY <1>2 DEF TxStates
  <2> QED
    BY <1>2, <1>4, <1>10, <2>1 DEF Commit
<1> QED
  BY <1>1, <1>3, <1>5, <1>6, <1>7, <1>8, <1>9, <1>10
     DEF Step, Claim, ClaimLost, Restore, Restored, CommitEdit

\* What a request on an order does to its own transaction.
LEMMA EditorStep ==
  ASSUME TypeOK, OpenOnce, NEW p \in Editors, Begin(p) \/ Step(p) \/ Expire(p)
  PROVE  /\ UNCHANGED <<told, redeemed>>
         /\ tx'[p].redeems = 0
         /\ \/ tx'[p].pc = "idle"
            \/ /\ tx'[p].pc = "claim" /\ tx'[p].order \in Customers
               /\ <<tx'[p].from, tx'[p].to>> \in Transitions
               /\ tx'[p].from = orders[tx'[p].order].status
               /\ tx'[p].cart = orders[tx'[p].order].cart
               /\ UNCHANGED orders
            \/ /\ tx[p].pc = "restore" \/ Claim(p)
               /\ tx'[p].pc \in {"restore", "commit"}
               /\ tx'[p].order = tx[p].order /\ tx'[p].from = tx[p].from /\ tx'[p].to = tx[p].to
               /\ tx'[p].cart = tx[p].cart
               /\ UNCHANGED orders
<1>1. p \in Procs /\ p \notin Customers
  BY OneKind DEF Procs
<1>2. tx \in [Procs -> TxStates] /\ tx[p] \in TxStates
  BY <1>1 DEF TypeOK
<1>3. tx[p].pc \notin {"reserve", "redeem"} /\ tx[p].redeems = 0
  BY DEF OpenOnce
<1>4. tx' = [tx EXCEPT ![p] = Closed] => tx'[p].pc = "idle" /\ tx'[p].redeems = 0
  BY <1>1, <1>2, ClosedTyped
<1>5. ASSUME NEW o \in Customers, NEW to, BeginEdit(p, o, to)
      PROVE  /\ tx'[p].pc = "claim" /\ tx'[p].order \in Customers /\ tx'[p].redeems = 0
             /\ <<tx'[p].from, tx'[p].to>> \in Transitions
             /\ tx'[p].from = orders[tx'[p].order].status
             /\ tx'[p].cart = orders[tx'[p].order].cart
             /\ UNCHANGED <<told, redeemed, orders>>
  BY <1>1, <1>2, <1>5 DEF BeginEdit, Closed
<1>6. CASE Begin(p)
  BY <1>1, <1>5, <1>6 DEF Begin, Refuse, Validate, BeginAdvance, BeginCancel, BeginSelfCancel
<1>7. CASE Skip(p) \/ Restore(p) \/ Restored(p)
  BY <1>1, <1>2, <1>3, <1>7 DEF Skip, Restore, Restored, TxStates
<1>8. CASE Claim(p)
  <2>1. PICK pc \in {"restore", "commit"} : tx' = [tx EXCEPT ![p].pc = pc]
    BY <1>8 DEF Claim
  <2> QED
    BY <1>1, <1>2, <1>3, <1>8, <2>1 DEF Claim, TxStates
<1>9. CASE ClaimLost(p) \/ CommitEdit(p) \/ Expire(p)
  BY <1>1, <1>4, <1>9 DEF ClaimLost, CommitEdit, Expire, Rollback
<1> QED
  BY <1>1, <1>3, <1>6, <1>7, <1>8, <1>9
     DEF Step, Reserve, RunOut, Persist, PersistFails, Redeem, RedeemLost, Commit

\* Orders change only when a transaction commits: a customer's own order appears,
\* or the order an editor claimed takes the transition.
LEMMA OrdersStep ==
  ASSUME TypeOK, OpenOnce, Claimed, NEW p \in Procs, Begin(p) \/ Step(p) \/ Expire(p),
         NEW c \in Customers, orders'[c] # orders[c]
  PROVE  \/ Commit(p) /\ c = p /\ orders[c].status = "none" /\ orders'[c].status = "new"
         \/ /\ CommitEdit(p) /\ c = tx[p].order
            /\ orders[c].status = tx[p].from /\ orders'[c].status = tx[p].to
            /\ orders'[c].number = orders[c].number /\ orders'[c].cart = orders[c].cart
            /\ <<orders[c].status, orders'[c].status>> \in Transitions
<1>1. orders \in [Customers -> OrderRows] /\ orders[c] \in OrderRows
  BY DEF TypeOK
<1>2. CASE Commit(p)
  <2>1. p \in Customers /\ tx[p].pc = "commit"
    BY <1>2 DEF Commit
  <2>2. orders[p].status = "none"
    BY <2>1 DEF OpenOnce
  <2>3. orders' = [orders EXCEPT ![p] = [status |-> "new", number |-> tx[p].number,
                                         cart |-> tx[p].cart]]
    BY <1>2 DEF Commit
  <2> QED
    BY <1>1, <1>2, <2>1, <2>2, <2>3
<1>3. CASE CommitEdit(p)
  <2>1. p \in Editors /\ tx[p].pc = "commit"
    BY <1>3 DEF CommitEdit
  <2>2. /\ tx[p].order \in Customers /\ Standing(p)
        /\ <<tx[p].from, tx[p].to>> \in Transitions
    BY <2>1 DEF Claimed
  <2>3. orders' = [orders EXCEPT ![tx[p].order].status = tx[p].to]
    BY <1>3 DEF CommitEdit
  <2>4. c = tx[p].order
    BY <1>1, <2>3
  <2>5. /\ orders'[c].status = tx[p].to /\ orders'[c].number = orders[c].number
        /\ orders'[c].cart = orders[c].cart
    BY <1>1, <2>3, <2>4 DEF OrderRows
  <2> QED
    BY <1>3, <2>2, <2>4, <2>5 DEF Standing
<1>4. UNCHANGED orders \/ Commit(p) \/ CommitEdit(p)
  <2>1. Reserve(p) \/ Restore(p) => UNCHANGED orders
    BY LineEffect
  <2>2. Persist(p) => UNCHANGED orders
    BY PersistEffect
  <2>3. Redeem(p) => UNCHANGED orders
    BY RedeemEffect
  <2> QED
    BY <2>1, <2>2, <2>3, Effects
<1> QED
  BY <1>2, <1>3, <1>4

\* A request that has a transaction open has committed nothing.
LEMMA OpenOnceStep ==
  ASSUME TypeOK, OpenOnce, Claimed, NEW p \in Procs, Begin(p) \/ Step(p) \/ Expire(p)
  PROVE  OpenOnce'
<1>1. \A q \in Procs \ {p} : tx'[q] = tx[q]
  BY StepFrame
<1>2. ASSUME NEW c \in Customers
      PROVE  /\ tx'[c].pc # "idle" => told'[c] = "nothing"
             /\ told'[c] = "nothing" => orders'[c].status = "none" /\ c \notin redeemed'
             /\ tx'[c].pc \notin {"claim", "restore"}
  <2>1. /\ tx[c].pc # "idle" => told[c] = "nothing"
        /\ told[c] = "nothing" => orders[c].status = "none" /\ c \notin redeemed
        /\ tx[c].pc \notin {"claim", "restore"}
    BY DEF OpenOnce
  <2>2. CASE c # p
    <3>1. tx'[c] = tx[c]
      BY <1>1, <2>2 DEF Procs
    <3>2. told'[c] = told[c] /\ (c \in redeemed' => c \in redeemed)
      <4>1. CASE p \in Editors
        BY <4>1, EditorStep
      <4>2. CASE p \in Customers /\ tx'[p].pc # "idle"
        BY <4>2, CustomerStep
      <4>3. CASE Commit(p) \/ Refuse(p) \/ Rollback(p)
        BY <2>2, <4>3 DEF Commit, Refuse, Rollback, TypeOK
      <4>4. CASE p \in Customers /\ ~(Commit(p) \/ Refuse(p) \/ Rollback(p))
        <5>1. p \notin Editors
          BY <4>4, OneKind
        <5> QED
          BY <4>4, <5>1
             DEF Begin, Step, Expire, Validate, BeginAdvance, BeginCancel, BeginSelfCancel,
                 BeginEdit, Skip, Reserve, RunOut, Persist, PersistFails, Redeem, RedeemLost,
                 Claim, ClaimLost, Restore, Restored, CommitEdit
      <4> QED
        BY <4>1, <4>3, <4>4 DEF Procs
    <3>3. orders[c].status = "none" => orders'[c].status = "none"
      <4>1. CASE orders'[c] # orders[c] /\ orders[c].status = "none"
        BY <2>2, <4>1, OrdersStep DEF Transitions
      <4> QED
        BY <4>1
    <3> QED
      BY <2>1, <3>1, <3>2, <3>3
  <2>3. CASE c = p
    <3>1. CASE tx'[p].pc = "idle" /\ told'[p] # "nothing"
      BY <2>3, <3>1
    <3>2. CASE /\ tx'[p].pc \in {"reserve", "redeem", "commit"}
               /\ told[p] = "nothing" /\ UNCHANGED <<committed, told>>
      BY <2>1, <2>3, <3>2
    <3> QED
      BY <2>3, <3>1, <3>2, CustomerStep
  <2> QED
    BY <2>2, <2>3
<1>3. ASSUME NEW e \in Editors
      PROVE  tx'[e].pc \notin {"reserve", "redeem"} /\ tx'[e].redeems = 0
  <2>1. CASE e # p
    BY <1>1, <2>1 DEF Procs, OpenOnce
  <2>2. CASE e = p
    BY <2>2, EditorStep
  <2> QED
    BY <2>1, <2>2
<1> QED
  BY <1>2, <1>3 DEF OpenOnce

\* Numbers stay below the counter, and the next is taken by one transaction.
LEMMA NumbersStep ==
  ASSUME TypeOK, Exclusive, NumbersHeld, OpenOnce, Claimed,
         NEW p \in Procs, Begin(p) \/ Step(p) \/ Expire(p)
  PROVE  NumbersHeld'
<1>1. \A q \in Procs \ {p} : tx'[q] = tx[q]
  BY StepFrame
<1>2. /\ counter \in Nat
      /\ \A q \in Procs : tx[q].number \in {0, counter + 1}
      /\ \A c \in Customers : orders[c].status # "none" => orders[c].number \in 1..counter
  BY DEF TypeOK, NumbersHeld
<1>3. CASE UNCHANGED committed /\ (Keeps(p) \/ Drops(p))
  BY <1>1, <1>2, <1>3 DEF Keeps, Drops, NumbersHeld
<1>4. CASE Reserve(p) \/ Restore(p) \/ Persist(p) \/ Redeem(p)
  BY <1>1, <1>2, <1>4, LineEffect, PersistEffect, RedeemEffect DEF NumbersHeld
<1>5. CASE Commit(p) /\ tx[p].number # 0
  <2>1. /\ counter' = counter + 1 /\ tx'[p].number = 0
        /\ orders' = [orders EXCEPT ![p] = [status |-> "new", number |-> counter + 1,
                                             cart |-> tx[p].cart]]
    BY <1>2, <1>5, CommitEffect DEF Commit, Drops
  <2>2. \A q \in Procs \ {p} : tx[q].number = 0
    BY <1>5 DEF Exclusive
  <2>3. \A q \in Procs : tx'[q].number = 0
    BY <1>1, <2>1, <2>2
  <2>4. ASSUME NEW c \in Customers, orders'[c].status # "none"
        PROVE  orders'[c].number \in 1..counter'
    <3>1. CASE c = p
      BY <1>2, <2>1, <3>1 DEF TypeOK
    <3>2. CASE c # p
      BY <1>2, <2>1, <2>4, <3>2 DEF TypeOK
    <3> QED
      BY <3>1, <3>2
  <2> QED
    BY <2>3, <2>4 DEF NumbersHeld
<1>6. CASE Commit(p) /\ tx[p].number = 0
  <2>1. counter' = counter /\ orders' = orders /\ tx'[p].number = 0
    BY <1>6, CommitEffect DEF Commit, Drops
  <2> QED
    BY <1>1, <1>2, <2>1 DEF NumbersHeld
<1>7. CASE CommitEdit(p)
  <2>1. counter' = counter /\ tx'[p].number = 0
    BY <1>7, CommitEffect DEF CommitEdit, Drops
  <2>2. ASSUME NEW c \in Customers, orders'[c].status # "none"
        PROVE  orders[c].status # "none" /\ orders'[c].number = orders[c].number
    <3>1. p \notin Customers
      BY <1>7, OneKind DEF CommitEdit
    <3>2. CASE orders'[c] # orders[c]
      <4>1. CommitEdit(p) /\ orders'[c].number = orders[c].number
            /\ <<orders[c].status, orders'[c].status>> \in Transitions
        BY <3>1, <3>2, OrdersStep
      <4> QED
        BY <4>1 DEF Transitions
    <3>3. CASE orders'[c] = orders[c]
      BY <2>2, <3>3
    <3> QED
      BY <3>2, <3>3
  <2> QED
    BY <1>1, <1>2, <2>1, <2>2 DEF NumbersHeld
<1> QED
  BY <1>3, <1>4, <1>5, <1>6, <1>7, Effects

\* The order a request has claimed stays as the request has read it.
LEMMA ClaimedStep ==
  ASSUME TypeOK, OpenOnce, Claimed, NEW p \in Procs, Begin(p) \/ Step(p) \/ Expire(p)
  PROVE  Claimed'
<1>1. \A q \in Procs \ {p} : tx'[q] = tx[q]
  BY StepFrame
<1>2. Editors \subseteq Procs
  BY DEF Procs
<1> DEFINE Holds(q) == tx[q].pc \in {"restore", "commit"}
<1>3. ASSUME NEW e \in Editors, tx'[e].pc \in {"claim", "restore", "commit"}
      PROVE  /\ tx'[e].order \in Customers
             /\ <<tx'[e].from, tx'[e].to>> \in Transitions
             /\ tx'[e].pc # "claim" =>
                  /\ orders'[tx'[e].order].status = tx'[e].from
                  /\ \A q \in Editors \ {e} :
                       tx'[q].order = tx'[e].order => tx'[q].pc \notin {"restore", "commit"}
  <2>1. CASE e # p
    <3>1. tx'[e] = tx[e]
      BY <1>1, <1>2, <2>1
    <3>2. tx[e].order \in Customers /\ <<tx[e].from, tx[e].to>> \in Transitions
      BY <1>3, <3>1 DEF Claimed
    <3>3. ASSUME tx[e].pc # "claim"
          PROVE  /\ Holds(e) /\ Standing(e)
                 /\ \A q \in Editors \ {e} : tx[q].order = tx[e].order => ~Holds(q)
      BY <1>3, <3>1, <3>3 DEF Claimed
    <3>4. ASSUME tx[e].pc # "claim", orders'[tx[e].order] # orders[tx[e].order] PROVE FALSE
      <4>1. CASE Commit(p) /\ orders[tx[e].order].status = "none"
        BY <3>2, <3>3, <3>4, <4>1 DEF Standing, Transitions
      <4>2. CASE CommitEdit(p) /\ tx[e].order = tx[p].order
        BY <2>1, <3>3, <3>4, <4>2 DEF CommitEdit
      <4> QED
        BY <3>2, <3>4, <4>1, <4>2, OrdersStep
    <3>5. ASSUME NEW q \in Editors \ {e}, tx[e].pc # "claim", tx'[q].order = tx[e].order
          PROVE  tx'[q].pc \notin {"restore", "commit"}
      <4>1. CASE q # p
        BY <1>1, <1>2, <3>3, <3>5, <4>1
      <4>2. CASE q = p
        <5>1. SUFFICES ASSUME tx'[p].pc \in {"restore", "commit"} PROVE FALSE
          BY <4>2
        <5>2. (tx[p].pc = "restore" \/ Claim(p)) /\ tx'[p].order = tx[p].order
          BY <4>2, <5>1, EditorStep
        <5>3. tx[p].order = tx[e].order
          BY <3>5, <4>2, <5>2
        <5>4. ~Holds(p)
          BY <3>3, <3>5, <4>2, <5>3
        <5>5. CASE Claim(p)
          BY <1>2, <2>1, <3>3, <3>5, <5>3, <5>5 DEF Claim, Free, WaitsFor
        <5> QED
          BY <5>2, <5>4, <5>5
      <4> QED
        BY <4>1, <4>2
    <3> QED
      BY <3>1, <3>2, <3>3, <3>4, <3>5 DEF Standing
  <2>2. CASE e = p
    <3>1. CASE tx'[p].pc = "claim"
      BY <2>2, <3>1, EditorStep
    <3>2. CASE tx'[p].pc # "claim"
      <4>1. /\ tx[p].pc = "restore" \/ Claim(p)
            /\ tx'[p].order = tx[p].order /\ tx'[p].from = tx[p].from /\ tx'[p].to = tx[p].to
            /\ UNCHANGED orders
        BY <1>3, <2>2, <3>2, EditorStep
      <4>2. /\ tx[p].order \in Customers /\ <<tx[p].from, tx[p].to>> \in Transitions
            /\ Standing(p)
        BY <2>2, <4>1 DEF Claimed, Claim
      <4>3. \A q \in Editors \ {p} : tx[q].order = tx[p].order => ~Holds(q)
        <5>1. CASE tx[p].pc = "restore"
          BY <2>2, <5>1 DEF Claimed
        <5>2. CASE Claim(p)
          BY <1>2, <5>2 DEF Claim, Free, WaitsFor
        <5> QED
          BY <4>1, <5>1, <5>2
      <4> QED
        BY <1>1, <1>2, <2>2, <4>1, <4>2, <4>3 DEF Standing
    <3> QED
      BY <3>1, <3>2
  <2> QED
    BY <2>1, <2>2
<1> QED
  BY <1>3 DEF Claimed, Standing

\* Every cart, that of no order included, has a line for each product it buys.
LEMMA CartTyped ==
  ASSUME NEW cart \in Carts \cup {NoCart}
  PROVE  /\ cart.lines \in Seq(Products) /\ cart.units \in [Products -> Nat]
         /\ DOMAIN cart.lines = 1 .. Len(cart.lines)
         /\ \A i, j \in DOMAIN cart.lines : cart.lines[i] = cart.lines[j] => i = j
         /\ \A x \in Products : cart.units[x] # 0 => \E i \in DOMAIN cart.lines : cart.lines[i] = x
<1>1. CASE cart \in Carts
  BY <1>1, CheckoutAssumption
<1>2. CASE cart = NoCart
  BY <1>2 DEF NoCart
<1> QED
  BY <1>1, <1>2

\* What UnitsMoved says of one transaction and one product.
Past(t, x) == \E i \in DOMAIN t.cart.lines : i < t.line /\ t.cart.lines[i] = x

MovedRight(t, p, x) ==
  /\ t.pc = "reserve" => t.delta[x] = IF Past(t, x) THEN -t.cart.units[x] ELSE 0
  /\ t.pc = "claim" => t.delta[x] = 0 /\ t.line = 1
  /\ t.pc = "restore" => t.to = "cancelled" /\ t.delta[x] = IF Past(t, x) THEN t.cart.units[x] ELSE 0
  /\ t.number # 0 => t.pc \in {"redeem", "commit"} /\ t.delta[x] = -t.cart.units[x]
  /\ t.pc = "commit" /\ p \in Editors => t.delta[x] = IF t.to = "cancelled" THEN t.cart.units[x] ELSE 0

\* A transaction that is about to move its first line has moved nothing.
LEMMA NothingMoved ==
  ASSUME NEW t \in TxStates, NEW p, NEW x \in Products, t.delta[x] = 0, t.number = 0,
         t.pc \in {"idle", "reserve", "claim", "restore"}, t.pc # "idle" => t.line = 1,
         t.pc = "restore" => t.to = "cancelled"
  PROVE  MovedRight(t, p, x)
<1>1. t.cart \in Carts \cup {NoCart}
  BY DEF TxStates
<1>2. DOMAIN t.cart.lines = 1 .. Len(t.cart.lines)
  BY <1>1, CartTyped
<1>3. t.line = 1 => ~Past(t, x)
  BY <1>2 DEF Past
<1> QED
  BY <1>3 DEF MovedRight

\* One that is past its last line has moved all the units of its cart.
LEMMA AllMoved ==
  ASSUME TypeOK, NEW p \in Procs, ~HasLine(p), NEW x \in Products
  PROVE  (IF Past(tx[p], x) THEN tx[p].cart.units[x] ELSE 0) = tx[p].cart.units[x]
<1>1. tx[p].cart \in Carts \cup {NoCart} /\ tx[p].line \in Nat
  BY DEF TypeOK, TxStates
<1>2. /\ tx[p].cart.lines \in Seq(Products) /\ DOMAIN tx[p].cart.lines = 1 .. Len(tx[p].cart.lines)
      /\ tx[p].cart.units[x] # 0 => \E i \in DOMAIN tx[p].cart.lines : tx[p].cart.lines[i] = x
  BY <1>1, CartTyped
<1>3. \A i \in DOMAIN tx[p].cart.lines : i < tx[p].line
  BY <1>1, <1>2 DEF HasLine
<1> QED
  BY <1>2, <1>3 DEF Past

\* A line that is passed adds its product to those that were, once.
LEMMA LinePassed ==
  ASSUME TypeOK, NEW p \in Procs, HasLine(p), NEW t,
         t.cart = tx[p].cart, t.line = tx[p].line + 1
  PROVE  /\ ~Past(tx[p], Line(p)) /\ Past(t, Line(p))
         /\ \A x \in Products \ {Line(p)} : Past(t, x) <=> Past(tx[p], x)
<1> DEFINE lines == tx[p].cart.lines
           n == tx[p].line
<1>1. tx[p].cart \in Carts \cup {NoCart} /\ n \in Nat \ {0}
  BY DEF TypeOK, TxStates
<1>2. /\ lines \in Seq(Products) /\ DOMAIN lines = 1 .. Len(lines)
      /\ \A i, j \in DOMAIN lines : lines[i] = lines[j] => i = j
  BY <1>1, CartTyped
<1>3. n \in DOMAIN lines /\ Line(p) = lines[n]
  BY <1>1, <1>2 DEF HasLine, Line
<1>4. \A i \in DOMAIN lines : i < n => lines[i] # Line(p)
  BY <1>1, <1>2, <1>3
<1>5. \A i \in DOMAIN lines : i < n + 1 <=> i < n \/ i = n
  BY <1>1, <1>2
<1>6. \A x : Past(t, x) <=> \E i \in DOMAIN lines : i < n + 1 /\ lines[i] = x
  BY DEF Past
<1>7. \A x : Past(tx[p], x) <=> \E i \in DOMAIN lines : i < n /\ lines[i] = x
  BY DEF Past
<1> HIDE DEF lines, n
<1>8. ~Past(tx[p], Line(p))
  BY <1>4, <1>7
<1>9. Past(t, Line(p))
  BY <1>3, <1>5, <1>6
<1>10. \A x \in Products \ {Line(p)} : Past(t, x) <=> Past(tx[p], x)
  BY <1>3, <1>5, <1>6, <1>7
<1> QED
  BY <1>8, <1>9, <1>10

\* What a transaction has moved is what the lines it is past have.
LEMMA UnitsStep ==
  ASSUME TypeOK, OpenOnce, UnitsMoved, NEW p \in Procs, Begin(p) \/ Step(p) \/ Expire(p)
  PROVE  UnitsMoved'
<1>1. /\ tx \in [Procs -> TxStates] /\ tx[p] \in TxStates /\ tx' \in [Procs -> TxStates]
      /\ tx[p].delta \in [Products -> Int]
      /\ \A q \in Procs \ {p} : tx'[q] = tx[q]
  BY TxTyped, StepFrame DEF TypeOK, TxStates
<1> SUFFICES ASSUME NEW x \in Products, Tracked(x) PROVE MovedRight(tx'[p], p, x)
  <2>1. \A q \in Procs \ {p}, x \in Products : Tracked(x) => MovedRight(tx'[q], q, x)
    BY <1>1 DEF UnitsMoved, Passed, MovedRight, Past
  <2>2. (\A q \in Procs, x \in Products : Tracked(x) => MovedRight(tx'[q], q, x)) => UnitsMoved'
    BY Zenon DEF UnitsMoved, Passed, MovedRight, Past, Tracked
  <2> QED
    BY <2>1, <2>2
<1>2. MovedRight(tx[p], p, x)
  BY DEF UnitsMoved, Passed, MovedRight, Past
<1>3. p \in Editors => tx[p].pc \notin {"reserve", "redeem"}
  BY DEF OpenOnce
<1>4. CASE tx' = [tx EXCEPT ![p] = Closed]
  <2>1. tx'[p] = Closed
    BY <1>1, <1>4
  <2> QED
    BY <2>1, ClosedTyped, NothingMoved
<1>5. CASE Begin(p)
  <2>1. CASE Refuse(p)
    BY <1>2, <2>1 DEF Refuse
  <2>2. CASE Validate(p)
    BY <1>1, <2>2, NothingMoved DEF Validate, Closed
  <2>3. ASSUME NEW o \in Customers, NEW to, BeginEdit(p, o, to)
        PROVE  MovedRight(tx'[p], p, x)
    BY <1>1, <2>3, NothingMoved DEF BeginEdit, Closed
  <2> QED
    BY <1>5, <2>1, <2>2, <2>3 DEF Begin, BeginAdvance, BeginCancel, BeginSelfCancel
<1>6. CASE Skip(p)
  <2>1. HasLine(p) /\ Line(p) # x /\ tx' = [tx EXCEPT ![p].line = @ + 1] /\ tx[p].pc \in {"reserve", "restore"}
    BY <1>6 DEF Skip
  <2>2. /\ tx'[p].cart = tx[p].cart /\ tx'[p].line = tx[p].line + 1 /\ tx'[p].pc = tx[p].pc
        /\ tx'[p].delta = tx[p].delta /\ tx'[p].number = tx[p].number /\ tx'[p].to = tx[p].to
    BY <1>1, <2>1 DEF TxStates
  <2>3. Past(tx'[p], x) <=> Past(tx[p], x)
    BY <2>1, <2>2, LinePassed
  <2> QED
    BY <1>2, <2>1, <2>2, <2>3 DEF MovedRight
<1>7. CASE Reserve(p) \/ Restore(p)
  <2> DEFINE l == Line(p)
             d == IF tx[p].pc = "reserve" THEN tx[p].delta[l] - Units(p) ELSE tx[p].delta[l] + Units(p)
  <2>1. HasLine(p) /\ tx[p].pc \in {"reserve", "restore"} /\ Units(p) = tx[p].cart.units[l]
    BY <1>7 DEF Reserve, Restore, Units
  <2>2. l \in Products /\ Units(p) \in Nat
    BY <2>1, LineTyped
  <2>3. tx' = [tx EXCEPT ![p].delta[l] = d, ![p].line = @ + 1]
    BY <1>7 DEF Reserve, Restore
  <2> HIDE DEF l, d
  <2>4. /\ tx'[p].cart = tx[p].cart /\ tx'[p].line = tx[p].line + 1 /\ tx'[p].pc = tx[p].pc
        /\ tx'[p].number = tx[p].number /\ tx'[p].to = tx[p].to
        /\ tx'[p].delta[l] = d /\ (x # l => tx'[p].delta[x] = tx[p].delta[x])
    BY <1>1, <2>2, <2>3 DEF TxStates
  <2>5. ~Past(tx[p], l) /\ Past(tx'[p], l) /\ (x # l => (Past(tx'[p], x) <=> Past(tx[p], x)))
    BY <2>1, <2>4, LinePassed DEF l
  <2>6. CASE x # l
    BY <1>2, <2>1, <2>4, <2>5, <2>6 DEF MovedRight
  <2>7. CASE x = l
    <3>1. tx[p].delta[l] = 0 /\ tx[p].number = 0
      BY <1>2, <2>1, <2>5, <2>7 DEF MovedRight
    <3>2. d = IF tx[p].pc = "reserve" THEN -tx[p].cart.units[l] ELSE tx[p].cart.units[l]
      BY <2>1, <2>2, <3>1 DEF d
    <3> QED
      BY <1>2, <2>1, <2>4, <2>5, <2>7, <3>1, <3>2 DEF MovedRight
  <2> QED
    BY <2>6, <2>7
<1>8. CASE Persist(p)
  <2>1. tx[p].pc = "reserve" /\ ~HasLine(p) /\ tx'[p].pc \in {"redeem", "commit"}
        /\ tx'[p].delta = tx[p].delta /\ tx'[p].cart = tx[p].cart
    BY <1>1, <1>8 DEF Persist, TxStates
  <2>2. tx[p].cart.units[x] \in Nat
    <3>1. tx[p].cart \in Carts \cup {NoCart}
      BY <1>1 DEF TxStates
    <3> QED
      BY <3>1, CartTyped
  <2>3. tx[p].delta[x] = -tx[p].cart.units[x]
    BY <1>2, <2>1, <2>2, AllMoved DEF MovedRight
  <2> QED
    BY <1>3, <2>1, <2>3 DEF MovedRight
<1>9. CASE RunOut(p) \/ Redeem(p) \/ RedeemLost(p)
  <2>1. /\ tx[p].pc \in {"reserve", "redeem"} /\ tx'[p].pc = "commit" /\ tx'[p].number = tx[p].number
        /\ tx'[p].delta = tx[p].delta /\ tx'[p].cart = tx[p].cart
    BY <1>1, <1>9 DEF RunOut, Redeem, RedeemLost, TxStates
  <2> QED
    BY <1>2, <1>3, <2>1 DEF MovedRight
<1>10. CASE Claim(p)
  <2>1. /\ tx[p].pc = "claim" /\ tx'[p].pc = IF tx[p].to = "cancelled" THEN "restore" ELSE "commit"
        /\ tx'[p].number = tx[p].number /\ tx'[p].delta = tx[p].delta /\ tx'[p].line = tx[p].line
        /\ tx'[p].to = tx[p].to
    BY <1>1, <1>10 DEF Claim, TxStates
  <2>2. tx'[p].number = 0 /\ tx'[p].delta[x] = 0 /\ tx'[p].line = 1
    BY <1>2, <2>1 DEF MovedRight
  <2>3. CASE tx[p].to = "cancelled"
    BY <1>1, <2>1, <2>2, <2>3, NothingMoved
  <2>4. CASE tx[p].to # "cancelled"
    BY <2>1, <2>2, <2>4 DEF MovedRight
  <2> QED
    BY <2>3, <2>4
<1>11. CASE Restored(p)
  <2>1. /\ tx[p].pc = "restore" /\ ~HasLine(p) /\ tx'[p].pc = "commit" /\ tx'[p].number = tx[p].number
        /\ tx'[p].delta = tx[p].delta /\ tx'[p].cart = tx[p].cart /\ tx'[p].to = tx[p].to
    BY <1>1, <1>11 DEF Restored, TxStates
  <2> QED
    BY <1>2, <2>1, AllMoved DEF MovedRight
<1>12. CASE PersistFails(p) \/ Commit(p) \/ ClaimLost(p) \/ CommitEdit(p) \/ Expire(p)
  BY <1>4, <1>12 DEF PersistFails, Commit, ClaimLost, CommitEdit, Expire, Rollback
<1> QED
  BY <1>5, <1>6, <1>7, <1>8, <1>9, <1>10, <1>11, <1>12 DEF Step

\* What LinesSound says of one transaction.
MovedSoFar(t) ==
  \A x \in Products : Tracked(x) => t.delta[x] = IF Past(t, x) THEN -t.cart.units[x] ELSE 0

RefusedRight(t) ==
  /\ t.line <= Len(t.cart.lines) /\ Policy[t.cart.lines[t.line]] = "track_and_block"
  /\ MovedSoFar(t)

LinesRight(t, p) ==
  /\ p \in Customers /\ t.pc # "idle" => t.cart \in Carts
  /\ \A x \in Products : ~Tracked(x) => t.delta[x] = 0
  /\ t.pc = "redeem" => t.number # 0
  /\ p \in Customers /\ t.pc = "commit" /\ t.number = 0 => RefusedRight(t)

\* LinesSound is a matter of each transaction by itself.
LEMMA LinesByTransaction == LinesSound <=> \A p \in Procs : LinesRight(tx[p], p)
<1>1. ASSUME NEW p \in Procs
      PROVE  (HasLine(p) /\ Policy[Line(p)] = "track_and_block"
              /\ \A x \in Products : Tracked(x) =>
                   tx[p].delta[x] = IF Passed(p, x) THEN -tx[p].cart.units[x] ELSE 0)
             <=> RefusedRight(tx[p])
  BY DEF HasLine, Line, RefusedRight, MovedSoFar, Passed, Past
<1> QED
  BY <1>1 DEF LinesSound, LinesRight, Refused, Procs

\* A checkout takes what it counts and no more, and one that is refused has taken the
\* lines before the one that ran out.
LEMMA LinesStep ==
  ASSUME TypeOK, OpenOnce, UnitsMoved, LinesSound, NEW p \in Procs, Begin(p) \/ Step(p) \/ Expire(p)
  PROVE  LinesSound'
<1>1. /\ tx \in [Procs -> TxStates] /\ tx[p] \in TxStates /\ tx' \in [Procs -> TxStates]
      /\ tx[p].delta \in [Products -> Int] /\ counter \in Nat
      /\ \A q \in Procs \ {p} : tx'[q] = tx[q]
  BY TxTyped, StepFrame DEF TypeOK, TxStates
<1>2. \A q \in Procs : LinesRight(tx[q], q)
  BY LinesByTransaction
<1> SUFFICES LinesRight(tx'[p], p)
  <2>1. \A q \in Procs : LinesRight(tx'[q], q)
    BY <1>1, <1>2
  <2>2. \A c \in Customers : tx'[c].pc # "idle" => tx'[c].cart \in Carts
    BY <2>1 DEF LinesRight, Procs
  <2>3. ASSUME NEW q \in Procs
        PROVE  /\ \A x \in Products : ~Tracked(x)' => tx'[q].delta[x] = 0
               /\ tx'[q].pc = "redeem" => tx'[q].number # 0
    BY <2>1 DEF LinesRight, Tracked
  <2>4. ASSUME NEW q \in Procs, Refused(q)'
        PROVE  /\ HasLine(q)' /\ Policy[Line(q)'] = "track_and_block"
               /\ \A x \in Products : Tracked(x)' =>
                    tx'[q].delta[x] = IF Passed(q, x)' THEN -tx'[q].cart.units[x] ELSE 0
    BY <2>1, <2>4 DEF LinesRight, RefusedRight, MovedSoFar, Past, Tracked, Refused,
                      HasLine, Line, Passed
  <2> QED
    BY <2>2, <2>3, <2>4, Zenon DEF LinesSound
<1>3. p \in Customers => tx[p].pc \notin {"claim", "restore"} /\ p \notin Editors
  BY OneKind DEF OpenOnce
<1>4. CASE tx' = [tx EXCEPT ![p] = Closed]
  <2>1. tx'[p] = Closed
    BY <1>1, <1>4
  <2> QED
    BY <2>1, ClosedTyped DEF LinesRight
<1>5. CASE Begin(p)
  <2>1. CASE Refuse(p)
    BY <1>2, <2>1 DEF Refuse
  <2>2. CASE Validate(p)
    BY <1>1, <2>2 DEF Validate, Closed, LinesRight
  <2>3. ASSUME NEW o \in Customers, NEW to, BeginEdit(p, o, to)
        PROVE  LinesRight(tx'[p], p)
    BY <1>1, <1>3, <2>3 DEF BeginEdit, Closed, LinesRight
  <2> QED
    BY <1>5, <2>1, <2>2, <2>3 DEF Begin, BeginAdvance, BeginCancel, BeginSelfCancel
<1>6. CASE Skip(p)
  <2>1. /\ tx'[p].cart = tx[p].cart /\ tx'[p].pc = tx[p].pc /\ tx'[p].delta = tx[p].delta
        /\ tx[p].pc \in {"reserve", "restore"}
    BY <1>1, <1>6 DEF Skip, TxStates
  <2> QED
    BY <1>2, <2>1 DEF LinesRight
<1>7. CASE Reserve(p) \/ Restore(p)
  <2>1. /\ HasLine(p) /\ Tracked(Line(p)) /\ tx[p].pc \in {"reserve", "restore"}
        /\ \E d : tx' = [tx EXCEPT ![p].delta[Line(p)] = d, ![p].line = @ + 1]
    BY <1>7 DEF Reserve, Restore
  <2>2. /\ tx'[p].cart = tx[p].cart /\ tx'[p].pc = tx[p].pc
        /\ \A x \in Products \ {Line(p)} : tx'[p].delta[x] = tx[p].delta[x]
    BY <1>1, <2>1 DEF TxStates
  <2> QED
    BY <1>2, <2>1, <2>2 DEF LinesRight
<1>8. CASE RunOut(p)
  <2>1. /\ tx[p].pc = "reserve" /\ HasLine(p) /\ Policy[Line(p)] = "track_and_block"
    BY <1>8 DEF RunOut, Covers
  <2>2. /\ tx'[p].pc = "commit" /\ tx'[p].delta = tx[p].delta /\ tx'[p].cart = tx[p].cart
        /\ tx'[p].line = tx[p].line
    BY <1>1, <1>8 DEF RunOut, TxStates
  <2>3. MovedSoFar(tx[p])
    BY <2>1 DEF UnitsMoved, MovedSoFar, Passed, Past
  <2>4. RefusedRight(tx'[p])
    BY <2>1, <2>2, <2>3 DEF RefusedRight, MovedSoFar, Past, HasLine, Line
  <2> QED
    BY <1>2, <2>1, <2>2, <2>4 DEF LinesRight
<1>9. CASE Persist(p)
  <2>1. /\ tx'[p].number = counter + 1 /\ tx'[p].cart = tx[p].cart /\ tx'[p].delta = tx[p].delta
        /\ tx[p].pc = "reserve"
    BY <1>1, <1>9 DEF Persist, TxStates
  <2>2. tx'[p].number # 0
    BY <1>1, <2>1
  <2> QED
    BY <1>2, <2>1, <2>2 DEF LinesRight
<1>10. CASE Redeem(p) \/ RedeemLost(p)
  <2>1. /\ tx[p].pc = "redeem" /\ tx'[p].pc = "commit" /\ tx'[p].number = tx[p].number
        /\ tx'[p].cart = tx[p].cart /\ tx'[p].delta = tx[p].delta
    BY <1>1, <1>10 DEF Redeem, RedeemLost, TxStates
  <2> QED
    BY <1>2, <2>1 DEF LinesRight
<1>11. CASE Claim(p) \/ Restored(p)
  <2>1. /\ p \notin Customers
        /\ tx'[p].pc \in {"restore", "commit"} /\ tx'[p].delta = tx[p].delta
    BY <1>1, <1>3, <1>11 DEF Claim, Restored, TxStates
  <2> QED
    BY <1>2, <2>1 DEF LinesRight
<1>12. CASE PersistFails(p) \/ Commit(p) \/ ClaimLost(p) \/ CommitEdit(p) \/ Expire(p)
  BY <1>4, <1>12 DEF PersistFails, Commit, ClaimLost, CommitEdit, Expire, Rollback
<1> QED
  BY <1>5, <1>6, <1>7, <1>8, <1>9, <1>10, <1>11, <1>12 DEF Step

\* An order keeps the cart it was placed with, and whoever acts on it has read that one.
LEMMA CartsStep ==
  ASSUME TypeOK, OpenOnce, Claimed, CartsRead, NEW p \in Procs, Begin(p) \/ Step(p) \/ Expire(p)
  PROVE  CartsRead'
<1>1. \A q \in Procs \ {p} : tx'[q] = tx[q]
  BY StepFrame
<1>2. Editors \subseteq Procs
  BY DEF Procs
<1>3. ASSUME NEW c \in Customers, orders[c].status # "none"
      PROVE  orders'[c].status # "none" /\ orders'[c].cart = orders[c].cart
  BY <1>3, OrdersStep DEF Transitions
<1>4. ASSUME NEW c \in Customers, orders'[c].status = "none" PROVE orders'[c] = NoOrder
  <2>1. orders'[c] = orders[c]
    BY <1>4, OrdersStep DEF Transitions
  <2> QED
    BY <1>4, <2>1 DEF CartsRead
<1>5. ASSUME NEW e \in Editors, tx'[e].pc # "idle"
      PROVE  /\ orders'[tx'[e].order].status # "none"
             /\ tx'[e].cart = orders'[tx'[e].order].cart
  <2>1. ASSUME tx[e].pc # "idle"
        PROVE  /\ tx[e].order \in Customers /\ orders[tx[e].order].status # "none"
               /\ tx[e].cart = orders[tx[e].order].cart
    <3>1. tx[e].pc \in {"claim", "restore", "commit"}
      BY <1>2, <2>1 DEF OpenOnce, TypeOK, TxStates
    <3> QED
      BY <2>1, <3>1 DEF Claimed, CartsRead
  <2>2. CASE e # p
    BY <1>1, <1>2, <1>3, <1>5, <2>1, <2>2
  <2>3. CASE e = p /\ tx'[p].pc = "claim"
    BY <1>5, <2>3, EditorStep DEF Transitions
  <2>4. CASE e = p /\ tx'[p].pc # "claim"
    <3>1. /\ tx[p].pc = "restore" \/ Claim(p)
          /\ tx'[p].order = tx[p].order /\ tx'[p].cart = tx[p].cart /\ UNCHANGED orders
      BY <1>5, <2>4, EditorStep
    <3>2. tx[p].pc # "idle"
      BY <3>1 DEF Claim
    <3> QED
      BY <2>1, <2>4, <3>1, <3>2
  <2> QED
    BY <2>2, <2>3, <2>4
<1> QED
  BY <1>4, <1>5 DEF CartsRead

\* Deleting the coupon touches neither stock, numbers nor orders.
LEMMA DeletionStep ==
  ASSUME Inductive, CountRedemptions \/ DeleteCoupon
  PROVE  Inductive'
<1>1. UNCHANGED <<stock, counter, uses, orders, tx, told, leaked>> /\ redeemed' \subseteq redeemed
  BY DEF CountRedemptions, DeleteCoupon
<1>2. TypeOK'
  BY <1>1 DEF Inductive, TypeOK, CountRedemptions, DeleteCoupon
<1>3. Exclusive' /\ StockHeld' /\ UsesHeld' /\ NumbersHeld'
  BY <1>1 DEF Inductive, Exclusive, StockHeld, UsesHeld, NumbersHeld
<1>4. OpenOnce'
  BY <1>1 DEF Inductive, OpenOnce
<1>5. Claimed'
  BY <1>1 DEF Inductive, Claimed, Standing
<1>6. UnitsMoved' /\ CartsRead'
  BY <1>1 DEF Inductive, UnitsMoved, Passed, Tracked, CartsRead
<1>7. LinesSound'
  BY <1>1 DEF Inductive, LinesSound, Refused, HasLine, Line, Passed, Tracked
<1> QED
  BY <1>2, <1>3, <1>4, <1>5, <1>6, <1>7 DEF Inductive

\* The initial state has it all.
LEMMA InitInductive == Init => Inductive
<1> SUFFICES ASSUME Init PROVE Inductive
  OBVIOUS
<1> USE CheckoutAssumption
<1>1. TypeOK
  BY InitTyped
<1>2. /\ \A p \in Procs : tx[p] = Closed
      /\ \A c \in Customers : told[c] = "nothing" /\ orders[c].status = "none" /\ orders[c] = NoOrder
      /\ stock = Stock0 /\ uses = 0 /\ counter = 0 /\ redeemed = {}
  BY DEF Init, NoOrder
<1>3. Exclusive /\ StockHeld /\ UsesHeld /\ NumbersHeld
  BY <1>2, ClosedTyped DEF Exclusive, StockHeld, UsesHeld, NumbersHeld
<1>4. OpenOnce /\ Claimed
  BY <1>2, ClosedTyped DEF OpenOnce, Claimed, Procs
<1>5. UnitsMoved /\ LinesSound /\ CartsRead
  BY <1>2 DEF Closed, UnitsMoved, LinesSound, Refused, CartsRead, Procs
<1> QED
  BY <1>1, <1>3, <1>4, <1>5 DEF Inductive

\* Every step preserves the inductive invariant, which the properties below follow from.
LEMMA Invariance == Inductive /\ [Next]_vars => Inductive'
<1> SUFFICES ASSUME Inductive, [Next]_vars PROVE Inductive'
  OBVIOUS
<1>1. ASSUME NEW p \in Procs, Begin(p) \/ Step(p) \/ Expire(p) PROVE Inductive'
  BY <1>1, StepTyped, ExclusiveStep, StockStep, UsesStep, NumbersStep, OpenOnceStep, ClaimedStep,
     UnitsStep, LinesStep, CartsStep DEF Inductive
<1>2. CASE UNCHANGED vars
  BY <1>2 DEF vars, Inductive, TypeOK, Exclusive, StockHeld, UsesHeld, NumbersHeld,
              OpenOnce, Claimed, Standing, UnitsMoved, Passed, Tracked, LinesSound, Refused,
              HasLine, Line, CartsRead
<1> QED
  BY <1>1, <1>2, DeletionStep DEF Next

\* The inductive invariant holds in every state.
THEOREM InductiveHolds == Spec => []Inductive
  BY InitInductive, Invariance, PTL DEF Spec

\* Every variable keeps its type.
THEOREM TypesTheorem == Spec => []TypeOK
  BY InductiveHolds, PTL DEF Inductive

\* A product that blocks is never sold below zero, however many checkouts and
\* cancellations interleave, and whatever the stock and the carts are.
THEOREM OversellTheorem == Spec => []NoOversell
<1>1. Inductive => NoOversell
  BY DEF Inductive, StockHeld, NoOversell
<1> QED
  BY <1>1, InductiveHolds, PTL

\* Two requests on one order never commit a transition outside the table.
THEOREM TransitionsTheorem == Spec => OnlyTransitions
<1> DEFINE Allowed ==
      \A c \in Customers :
        orders[c].status \notin {"none", orders'[c].status}
          => <<orders[c].status, orders'[c].status>> \in Transitions
<1>1. ASSUME Inductive, NEW p \in Procs, Begin(p) \/ Step(p) \/ Expire(p) PROVE Allowed
  <2> SUFFICES ASSUME NEW c \in Customers, orders[c].status \notin {"none", orders'[c].status}
               PROVE  <<orders[c].status, orders'[c].status>> \in Transitions
    OBVIOUS
  <2> QED
    BY <1>1, OrdersStep DEF Inductive
<1>2. ASSUME CountRedemptions \/ DeleteCoupon PROVE Allowed
  BY <1>2 DEF CountRedemptions, DeleteCoupon
<1>3. Inductive /\ [Next]_vars => [Allowed]_vars
  BY <1>1, <1>2 DEF Next
<1> QED
  BY <1>3, InductiveHolds, PTL DEF Spec, OnlyTransitions

\* The uses of the coupon count its redemptions, until it is deleted.
Budget ==
  /\ uses <= MaxUses /\ IsFiniteSet(redeemed)
  /\ coupon # "gone" => uses = Cardinality(redeemed)

\* A step of a transaction keeps the count.
LEMMA BudgetStep ==
  ASSUME Inductive, Budget, NEW p \in Procs, Begin(p) \/ Step(p) \/ Expire(p)
  PROVE  Budget'
<1>1. TypeOK /\ OpenOnce /\ UsesHeld
  BY DEF Inductive
<1>2. coupon' = coupon
  BY DEF Begin, Step, Expire, Refuse, Validate, BeginAdvance, BeginCancel, BeginSelfCancel,
         BeginEdit, Skip, Reserve, RunOut, Persist, PersistFails, Redeem, RedeemLost, Commit,
         Claim, ClaimLost, Restore, Restored, CommitEdit, Rollback
<1>3. CASE Commit(p)
  <2>1. p \in Customers /\ p \in Procs /\ tx[p].pc # "idle" /\ tx[p].redeems \in {0, 1}
    BY <1>1, <1>3 DEF Commit, Procs, TypeOK, TxStates
  <2>2. p \notin redeemed
    BY <1>1, <2>1 DEF OpenOnce
  <2>3. uses' = uses + tx[p].redeems /\ uses' <= MaxUses /\ uses \in Nat
    BY <1>1, <1>3, <2>1 DEF Commit, UsesHeld, TypeOK
  <2>4. CASE tx[p].redeems = 0
    BY <1>2, <1>3, <2>3, <2>4 DEF Commit, Budget, TypeOK
  <2>5. CASE tx[p].redeems = 1
    <3>1. redeemed' = redeemed \cup {p}
      BY <1>3, <2>5 DEF Commit
    <3>2. IsFiniteSet(redeemed') /\ Cardinality(redeemed') = Cardinality(redeemed) + 1
      BY <2>2, <3>1, FS_AddElement DEF Budget
    <3> QED
      BY <1>2, <2>3, <2>5, <3>2 DEF Budget
  <2> QED
    BY <2>1, <2>4, <2>5
<1>4. CASE ~Commit(p)
  <2>1. uses' = uses /\ redeemed' = redeemed
    BY <1>1, <1>4, Effects, LineEffect, PersistEffect, RedeemEffect DEF CommitEdit
  <2> QED
    BY <1>2, <2>1 DEF Budget
<1> QED
  BY <1>3, <1>4

\* A coupon is never redeemed more often than MaxUses allows, and its count is
\* the number of its redemptions as long as it exists.
THEOREM BudgetTheorem == Spec => []CouponBudget
<1>1. Init => Budget
  BY CheckoutAssumption, FS_EmptySet DEF Init, Budget
<1>2. Inductive /\ Budget /\ [Next]_vars => Budget'
  <2> SUFFICES ASSUME Inductive, Budget, [Next]_vars PROVE Budget'
    OBVIOUS
  <2>1. CASE CountRedemptions
    BY <2>1 DEF CountRedemptions, Budget
  <2>2. CASE DeleteCoupon
    BY <2>2, FS_EmptySet DEF DeleteCoupon, Budget
  <2>3. CASE UNCHANGED vars
    BY <2>3 DEF vars, Budget
  <2> QED
    BY <2>1, <2>2, <2>3, BudgetStep DEF Next
<1>3. Budget => CouponBudget
  BY DEF Budget, CouponBudget
<1> QED
  BY <1>1, <1>2, <1>3, InductiveHolds, PTL DEF Spec

\* Every number that was given has one order, and no number has two.
Numbered ==
  /\ \A n \in 1..counter : \E c \in Customers : orders[c].status # "none" /\ orders[c].number = n
  /\ \A c, d \in Customers :
       /\ orders[c].status # "none" /\ orders[d].status # "none"
       /\ orders[c].number = orders[d].number
       => c = d

\* A step of a transaction keeps it so.
LEMMA NumberedStep ==
  ASSUME Inductive, Numbered, NEW p \in Procs, Begin(p) \/ Step(p) \/ Expire(p)
  PROVE  Numbered'
<1>1. TypeOK /\ OpenOnce /\ Claimed /\ NumbersHeld
  BY DEF Inductive
<1>2. orders \in [Customers -> OrderRows] /\ counter \in Nat /\ tx[p].number \in {0, counter + 1}
  BY <1>1 DEF TypeOK, NumbersHeld
<1>3. CASE Commit(p) /\ tx[p].number # 0
  <2>1. /\ p \in Customers /\ counter' = counter + 1
        /\ orders' = [orders EXCEPT ![p] = [status |-> "new", number |-> counter + 1,
                                             cart |-> tx[p].cart]]
    BY <1>2, <1>3 DEF Commit
  <2>2. orders'[p].status = "new" /\ orders'[p].number = counter + 1
    BY <1>2, <2>1
  <2>3. \A c \in Customers \ {p} : orders'[c] = orders[c]
    BY <1>2, <2>1
  <2>4. orders[p].status = "none"
    BY <1>1, <1>3, <2>1 DEF Commit, OpenOnce
  <2>5. \A c \in Customers : orders[c].status # "none" => orders[c].number \in 1..counter
    BY <1>1 DEF NumbersHeld
  <2>6. ASSUME NEW n \in 1..counter'
        PROVE  \E c \in Customers : orders'[c].status # "none" /\ orders'[c].number = n
    <3>1. CASE n = counter + 1
      BY <2>1, <2>2, <3>1
    <3>2. CASE n # counter + 1
      <4>1. n \in 1..counter
        BY <1>2, <2>1, <3>2
      <4>2. PICK c \in Customers : orders[c].status # "none" /\ orders[c].number = n
        BY <4>1 DEF Numbered
      <4> QED
        BY <2>3, <2>4, <4>2
    <3> QED
      BY <3>1, <3>2
  <2>7. ASSUME NEW c \in Customers, NEW d \in Customers, c # d,
               orders'[c].status # "none", orders'[d].status # "none"
        PROVE  orders'[c].number # orders'[d].number
    <3>1. CASE c # p /\ d # p
      BY <2>3, <2>7, <3>1 DEF Numbered
    <3>2. \A b \in Customers \ {p} : orders'[b].status # "none" => orders'[b].number # counter + 1
      BY <1>2, <2>3, <2>5
    <3> QED
      BY <2>2, <2>7, <3>1, <3>2
  <2> QED
    BY <2>6, <2>7 DEF Numbered
<1>4. CASE ~(Commit(p) /\ tx[p].number # 0)
  <2>1. counter' = counter
    BY <1>1, <1>4, Effects, LineEffect, PersistEffect, RedeemEffect DEF Commit, CommitEdit
  <2>2. ASSUME NEW c \in Customers
        PROVE  /\ orders'[c].number = orders[c].number
               /\ orders'[c].status = "none" <=> orders[c].status = "none"
    <3>1. CASE orders'[c] = orders[c]
      BY <3>1
    <3>2. CASE orders'[c] # orders[c]
      <4>1. ~Commit(p)
        BY <1>4, <3>2 DEF Commit
      <4> QED
        BY <1>1, <3>2, <4>1, OrdersStep DEF Transitions
    <3> QED
      BY <3>1, <3>2
  <2> QED
    BY <2>1, <2>2 DEF Numbered
<1> QED
  BY <1>3, <1>4

\* Order numbers are given once each and without a gap.
THEOREM NumbersTheorem == Spec => []NumbersDense
<1>1. Init => Numbered
  BY DEF Init, Numbered, NoOrder
<1>2. Inductive /\ Numbered /\ [Next]_vars => Numbered'
  <2> SUFFICES ASSUME Inductive, Numbered, [Next]_vars PROVE Numbered'
    OBVIOUS
  <2>1. CASE CountRedemptions \/ DeleteCoupon
    BY <2>1 DEF CountRedemptions, DeleteCoupon, Numbered
  <2>2. CASE UNCHANGED vars
    BY <2>2 DEF vars, Numbered
  <2> QED
    BY <2>1, <2>2, NumberedStep DEF Next
<1>3. Inductive /\ Numbered => NumbersDense
  <2> SUFFICES ASSUME Inductive, Numbered PROVE NumbersDense
    OBVIOUS
  <2> DEFINE Placed == {c \in Customers : orders[c].status # "none"}
  <2>1. {orders[c].number : c \in Placed} \subseteq 1..counter
    BY DEF Inductive, NumbersHeld
  <2>2. 1..counter \subseteq {orders[c].number : c \in Placed}
    BY DEF Numbered
  <2>3. \A c, d \in Placed : orders[c].number = orders[d].number => c = d
    BY DEF Numbered
  <2> QED
    BY <2>1, <2>2, <2>3 DEF NumbersDense
<1> QED
  BY <1>1, <1>2, <1>3, InductiveHolds, PTL DEF Spec

\* Where the units of a product are, as the sum of StockAccounted counts them.
Taken(x) == [o \in Customers |-> Sold(o, x)]

\* An order has taken whole units.
LEMMA UnitsTyped ==
  ASSUME NEW table \in [Customers -> OrderRows], NEW x \in Products, NEW o \in Customers
  PROVE  table[o].cart.units[x] \in Nat
<1>1. table[o].cart \in Carts \cup {NoCart}
  BY DEF OrderRows
<1> QED
  BY <1>1, CartTyped

\* A commit moves as many units off the shelf as it adds to an order, or leaks.
LEMMA AccountedStep ==
  ASSUME Inductive, Inductive', NEW p \in Procs, Begin(p) \/ Step(p) \/ Expire(p),
         NEW x \in Products, Tracked(x)
  PROVE  stock'[x] + leaked'[x] + SumOver(Taken(x)') = stock[x] + leaked[x] + SumOver(Taken(x))
<1> DEFINE before == Taken(x)
           after == Taken(x)'
<1>1. TypeOK /\ TypeOK' /\ OpenOnce /\ Claimed /\ UnitsMoved /\ CartsRead
  BY DEF Inductive
<1>2. /\ stock[x] \in Int /\ leaked[x] \in Int /\ tx[p].delta[x] \in Int /\ tx[p].number \in Nat
      /\ stock'[x] \in Int /\ leaked'[x] \in Int
      /\ orders \in [Customers -> OrderRows] /\ orders' \in [Customers -> OrderRows]
  BY <1>1 DEF TypeOK, TxStates
<1>3. IsFiniteSet(Customers)
  BY CheckoutAssumption
<1>4. /\ before = [o \in Customers |-> IF orders[o].status = "cancelled" THEN 0
                                        ELSE orders[o].cart.units[x]]
      /\ after = [o \in Customers |-> IF orders'[o].status = "cancelled" THEN 0
                                       ELSE orders'[o].cart.units[x]]
  BY DEF Taken, Sold
<1> SUFFICES stock'[x] + leaked'[x] + SumOver(after) = stock[x] + leaked[x] + SumOver(before)
  OBVIOUS
<1> HIDE DEF before, after
<1>5. before \in [Customers -> Int] /\ after \in [Customers -> Int]
  BY <1>2, <1>4, UnitsTyped
<1>6. SumOver(before) \in Int
  BY <1>3, <1>5, SumInt
<1>7. ASSUME NEW o \in Customers,
             \A c \in Customers \ {o} : orders'[c] = orders[c],
             stock'[x] + leaked'[x] + after[o] = stock[x] + leaked[x] + before[o]
      PROVE  stock'[x] + leaked'[x] + SumOver(after) = stock[x] + leaked[x] + SumOver(before)
  <2>1. \A c \in Customers \ {o} : after[c] = before[c]
    BY <1>4, <1>7
  <2>2. SumOver(after) = SumOver(before) - before[o] + after[o]
    BY <1>3, <1>5, <2>1, SumChange
  <2>3. before[o] \in Int /\ after[o] \in Int
    BY <1>5
  <2>4. /\ stock[x] \in Int /\ leaked[x] \in Int /\ stock'[x] \in Int /\ leaked'[x] \in Int
        /\ stock'[x] + leaked'[x] + after[o] = stock[x] + leaked[x] + before[o]
    BY <1>2, <1>7
  <2> QED
    BY ONLY <1>6, <2>2, <2>3, <2>4
<1>8. CASE UNCHANGED <<stock, leaked, orders>>
  BY <1>4, <1>8
<1>9. CASE Commit(p) /\ tx[p].number = 0
  <2>1. /\ stock'[x] = stock[x] + tx[p].delta[x] /\ leaked'[x] = leaked[x] - tx[p].delta[x]
        /\ UNCHANGED orders
    BY <1>9 DEF Commit
  <2>2. after = before
    BY <1>4, <2>1
  <2> QED
    BY <1>2, <1>6, <2>1, <2>2
<1>10. CASE Commit(p) /\ tx[p].number # 0
  <2>1. /\ p \in Customers /\ tx[p].pc = "commit" /\ UNCHANGED leaked
        /\ stock'[x] = stock[x] + tx[p].delta[x]
        /\ orders' = [orders EXCEPT ![p] = [status |-> "new", number |-> tx[p].number,
                                             cart |-> tx[p].cart]]
    BY <1>10 DEF Commit
  <2>2. orders[p] = NoOrder
    BY <1>1, <2>1 DEF OpenOnce, CartsRead
  <2>3. tx[p].delta[x] = -tx[p].cart.units[x] /\ tx[p].cart.units[x] \in Nat
    <3>1. tx[p].cart \in Carts \cup {NoCart}
      BY <1>1 DEF TypeOK, TxStates
    <3> QED
      BY <1>1, <1>10, <3>1, CartTyped DEF UnitsMoved
  <2>4. before[p] = 0 /\ after[p] = tx[p].cart.units[x]
    BY <1>2, <1>4, <2>1, <2>2 DEF NoOrder, NoCart
  <2>5. \A c \in Customers \ {p} : orders'[c] = orders[c]
    BY <1>2, <2>1
  <2> QED
    BY <1>2, <1>7, <2>1, <2>3, <2>4, <2>5
<1>11. CASE CommitEdit(p)
  <2> DEFINE o == tx[p].order
  <2>1. /\ p \in Editors /\ tx[p].pc = "commit" /\ UNCHANGED leaked
        /\ stock'[x] = stock[x] + tx[p].delta[x]
        /\ orders' = [orders EXCEPT ![o].status = tx[p].to]
    BY <1>11 DEF CommitEdit
  <2>2. /\ o \in Customers /\ orders[o].status # "cancelled"
        /\ tx[p].cart = orders[o].cart
    BY <1>1, <2>1 DEF Claimed, Standing, Transitions, CartsRead
  <2>3. tx[p].delta[x] = IF tx[p].to = "cancelled" THEN orders[o].cart.units[x] ELSE 0
    BY <1>1, <2>1, <2>2 DEF UnitsMoved
  <2>4. orders[o].cart.units[x] \in Nat
    BY <1>2, <2>2, UnitsTyped
  <2>5. /\ orders'[o].status = tx[p].to /\ orders'[o].cart = orders[o].cart
        /\ \A c \in Customers \ {o} : orders'[c] = orders[c]
    BY <1>2, <2>1, <2>2 DEF OrderRows
  <2>6. /\ before[o] = orders[o].cart.units[x]
        /\ after[o] = IF tx[p].to = "cancelled" THEN 0 ELSE orders[o].cart.units[x]
    BY <1>4, <2>2, <2>5
  <2>7. stock'[x] + leaked'[x] + after[o] = stock[x] + leaked[x] + before[o]
    BY <1>2, <2>1, <2>3, <2>4, <2>6
  <2> QED
    BY <1>7, <2>2, <2>5, <2>7
<1>12. UNCHANGED <<stock, leaked, orders>> \/ Commit(p) \/ CommitEdit(p)
  <2>1. Reserve(p) \/ Restore(p) => UNCHANGED committed
    BY <1>1, LineEffect
  <2>2. Persist(p) => UNCHANGED committed
    BY <1>1, PersistEffect
  <2>3. Redeem(p) => UNCHANGED committed
    BY <1>1, RedeemEffect
  <2> QED
    BY <1>1, <2>1, <2>2, <2>3, Effects DEF committed
<1> QED
  BY <1>8, <1>9, <1>10, <1>11, <1>12

\* Every unit of a tracked product is on the shelf, in an order that stands, or was
\* leaked by a refused checkout, however checkouts and cancellations interleave.
THEOREM StockTheorem == Spec => []StockAccounted
<1> DEFINE Kept == \A x \in Products : Tracked(x) =>
                     Stock0[x] = stock[x] + leaked[x] + SumOver(Taken(x))
<1>1. Init => Kept
  <2> SUFFICES ASSUME Init, NEW x \in Products PROVE Stock0[x] = stock[x] + leaked[x] + SumOver(Taken(x))
    OBVIOUS
  <2>1. Taken(x) = [o \in Customers |-> 0]
    BY DEF Taken, Sold, Init, NoOrder, NoCart
  <2>2. SumOver(Taken(x)) = 0
    BY <2>1, CheckoutAssumption, SumZero
  <2> QED
    BY <2>2, CheckoutAssumption DEF Init
<1>2. Inductive /\ Inductive' /\ Kept /\ [Next]_vars => Kept'
  <2> SUFFICES ASSUME Inductive, Inductive', Kept, [Next]_vars, NEW x \in Products, Tracked(x)
               PROVE  Stock0[x] = stock'[x] + leaked'[x] + SumOver(Taken(x)')
    BY DEF Tracked
  <2>1. CASE UNCHANGED <<stock, leaked, orders>>
    BY <2>1 DEF Taken, Sold
  <2>2. CASE \E p \in Procs : Begin(p) \/ Step(p) \/ Expire(p)
    BY <2>2, AccountedStep
  <2> QED
    BY <2>1, <2>2 DEF Next, CountRedemptions, DeleteCoupon, vars, committed
<1>3. Kept => StockAccounted
  BY DEF StockAccounted, Taken
<1> QED
  BY <1>1, <1>2, <1>3, InductiveHolds, PTL DEF Spec

--------------------------------------------------------------------------------
(* Checkout implements Shop *)

\* A whole cart has all of its units, as far as they are counted.
LEMMA WholeCart ==
  ASSUME NEW cart \in Carts \cup {NoCart}, NEW x \in Products
  PROVE  Store!Units(cart, Len(cart.lines), x) = IF Tracked(x) THEN cart.units[x] ELSE 0
<1>1. /\ DOMAIN cart.lines = 1 .. Len(cart.lines)
      /\ cart.units[x] # 0 => \E i \in DOMAIN cart.lines : cart.lines[i] = x
  BY CartTyped
<1> QED
  BY <1>1 DEF Store!Units, Tracked

\* A checkout that gave a number is an order placed at one stroke.
LEMMA CommitPlaces ==
  ASSUME Inductive, NEW p \in Customers, Commit(p), tx[p].number # 0
  PROVE  tx[p].cart \in Carts /\ Store!Place(p, tx[p].cart)
<1> DEFINE cart == tx[p].cart
<1>1. /\ TypeOK /\ StockHeld /\ NumbersHeld /\ OpenOnce /\ UnitsMoved /\ LinesSound /\ CartsRead
      /\ p \in Procs /\ tx[p].pc = "commit"
  BY DEF Inductive, Commit, Procs
<1>2. cart \in Carts /\ orders[p] = NoOrder /\ tx[p].number = counter + 1
  BY <1>1 DEF LinesSound, OpenOnce, CartsRead, NumbersHeld
<1>3. ASSUME NEW x \in Products
      PROVE  tx[p].delta[x] = -Store!Units(cart, Len(cart.lines), x)
  <2>1. Tracked(x) => tx[p].delta[x] = -cart.units[x]
    BY <1>1 DEF UnitsMoved
  <2>2. ~Tracked(x) => tx[p].delta[x] = 0
    BY <1>1 DEF LinesSound
  <2> QED
    BY <1>2, <2>1, <2>2, WholeCart
<1>4. ASSUME NEW x \in Products
      PROVE  /\ stock[x] \in Int /\ Store!Units(cart, Len(cart.lines), x) \in Int
             /\ stock[x] + tx[p].delta[x] = stock[x] - Store!Units(cart, Len(cart.lines), x)
  <2>1. stock[x] \in Int /\ cart.units[x] \in Nat
    BY <1>1, <1>2, CartTyped DEF TypeOK
  <2>2. Store!Units(cart, Len(cart.lines), x) \in Int
    BY <1>2, <2>1, WholeCart
  <2> QED
    BY <1>3, <2>1, <2>2
<1>5. Store!Take(cart, Len(cart.lines))
  <2>1. stock' = [x \in Products |-> stock[x] - Store!Units(cart, Len(cart.lines), x)]
    BY <1>4 DEF Commit
  <2>2. ASSUME NEW x \in Products, Policy[x] = "track_and_block"
        PROVE  Store!Units(cart, Len(cart.lines), x) <= stock[x]
    <3>1. stock[x] + tx[p].delta[x] >= 0
      BY <1>1, <2>2 DEF StockHeld
    <3> QED
      BY <1>4, <3>1
  <2> QED
    BY <2>1, <2>2 DEF Store!Take
<1>6. /\ counter' = counter + 1
      /\ orders' = [orders EXCEPT ![p] = [status |-> "new", number |-> counter + 1, cart |-> cart]]
  BY <1>2 DEF Commit
<1> QED
  BY <1>2, <1>5, <1>6 DEF Store!Place, Store!NoOrder, NoOrder, NoCart

\* One that gave none has taken the lines before the one that ran out.
LEMMA CommitSpills ==
  ASSUME Inductive, NEW p \in Customers, Commit(p), tx[p].number = 0
  PROVE  /\ tx[p].cart \in Carts /\ tx[p].line - 1 \in 0 .. (Len(tx[p].cart.lines) - 1)
         /\ Store!Spill(tx[p].cart, tx[p].line - 1)
<1> DEFINE cart == tx[p].cart
           n == tx[p].line - 1
<1>1. /\ TypeOK /\ StockHeld /\ LinesSound
      /\ p \in Procs /\ tx[p].pc = "commit"
  BY DEF Inductive, Commit, Procs
<1>2. /\ cart \in Carts /\ tx[p].line \in Nat \ {0} /\ tx[p].line <= Len(cart.lines)
      /\ Policy[cart.lines[tx[p].line]] = "track_and_block"
  BY <1>1 DEF LinesSound, Refused, HasLine, Line, TypeOK, TxStates
<1>3. /\ DOMAIN cart.lines = 1 .. Len(cart.lines) /\ Len(cart.lines) \in Nat
      /\ cart.units \in [Products -> Nat]
  BY <1>2, CartTyped
<1>4. /\ n \in 0 .. (Len(cart.lines) - 1) /\ n + 1 = tx[p].line
      /\ \A i : i \in 1..n <=> i \in DOMAIN cart.lines /\ i < tx[p].line
  <2>1. \A len, line \in Nat : line # 0 /\ line <= len =>
          /\ line - 1 \in 0 .. (len - 1) /\ (line - 1) + 1 = line
          /\ \A i : i \in 1 .. (line - 1) <=> i \in 1 .. len /\ i < line
    OBVIOUS
  <2>2. Len(cart.lines) \in Nat /\ tx[p].line \in Nat /\ tx[p].line # 0
    BY <1>2, <1>3
  <2> QED
    BY <1>2, <1>3, <2>1, <2>2
<1>5. ASSUME NEW x \in Products
      PROVE  tx[p].delta[x] = -Store!Units(cart, n, x) /\ Store!Units(cart, n, x) \in Int
  <2>1. Passed(p, x) <=> \E i \in 1..n : cart.lines[i] = x
    BY <1>4 DEF Passed
  <2>2. Tracked(x) => tx[p].delta[x] = IF Passed(p, x) THEN -cart.units[x] ELSE 0
    BY <1>1 DEF LinesSound, Refused
  <2>3. ~Tracked(x) => tx[p].delta[x] = 0
    BY <1>1 DEF LinesSound
  <2>4. Store!Units(cart, n, x) = IF Tracked(x) /\ Passed(p, x) THEN cart.units[x] ELSE 0
    BY <2>1 DEF Store!Units, Tracked
  <2> HIDE DEF n
  <2> QED
    BY <1>3, <2>2, <2>3, <2>4
<1> HIDE DEF n
<1>6. ASSUME NEW x \in Products
      PROVE  stock[x] \in Int /\ stock[x] + tx[p].delta[x] = stock[x] - Store!Units(cart, n, x)
  BY <1>1, <1>5 DEF TypeOK
<1>7. Store!Take(cart, n)
  <2>1. stock' = [x \in Products |-> stock[x] - Store!Units(cart, n, x)]
    BY <1>6 DEF Commit
  <2>2. ASSUME NEW x \in Products, Policy[x] = "track_and_block"
        PROVE  Store!Units(cart, n, x) <= stock[x]
    <3>1. stock[x] + tx[p].delta[x] >= 0
      BY <1>1, <2>2 DEF StockHeld
    <3> QED
      BY <1>5, <1>6, <3>1
  <2> QED
    BY <2>1, <2>2 DEF Store!Take
<1>8. UNCHANGED <<counter, orders>>
  BY DEF Commit
<1>9. Store!Spill(cart, n)
  BY <1>2, <1>4, <1>7, <1>8 DEF Store!Spill
<1> QED
  BY <1>2, <1>4, <1>9 DEF n

\* A transition that commits moves its order on, or gives its units back, all of them.
LEMMA EditKeeps ==
  ASSUME Inductive, NEW p \in Editors, CommitEdit(p)
  PROVE  /\ tx[p].order \in Customers
         /\ \/ Store!Cancel(tx[p].order)
            \/ \E to \in {"confirmed", "preparing", "delivered"} : Store!Advance(tx[p].order, to)
<1> DEFINE o == tx[p].order
           to == tx[p].to
<1>1. /\ TypeOK /\ Claimed /\ UnitsMoved /\ LinesSound /\ CartsRead
      /\ p \in Procs /\ tx[p].pc = "commit"
  BY DEF Inductive, CommitEdit, Procs
<1>2. /\ o \in Customers /\ <<orders[o].status, to>> \in Transitions
      /\ tx[p].cart = orders[o].cart
  BY <1>1 DEF Claimed, Standing, CartsRead
<1>3. orders[o].cart \in Carts \cup {NoCart}
  BY <1>1, <1>2 DEF TypeOK, OrderRows
<1>4. ASSUME NEW x \in Products
      PROVE  /\ stock[x] \in Int
             /\ tx[p].delta[x] = IF to = "cancelled"
                                 THEN Store!Units(orders[o].cart, Len(orders[o].cart.lines), x) ELSE 0
  <2>1. Tracked(x) => tx[p].delta[x] = IF to = "cancelled" THEN orders[o].cart.units[x] ELSE 0
    BY <1>1, <1>2 DEF UnitsMoved
  <2>2. ~Tracked(x) => tx[p].delta[x] = 0
    BY <1>1 DEF LinesSound
  <2> QED
    BY <1>1, <1>3, <2>1, <2>2, WholeCart DEF TypeOK
<1>5. /\ stock' = [x \in Products |-> stock[x] + tx[p].delta[x]]
      /\ orders' = [orders EXCEPT ![o].status = to]
      /\ UNCHANGED counter
  BY DEF CommitEdit
<1>6. CASE to = "cancelled"
  <2>1. orders[o].status \in {"new", "confirmed", "preparing"}
    BY <1>2, <1>6 DEF Transitions
  <2>2. stock' = [x \in Products |->
                    stock[x] + Store!Units(orders[o].cart, Len(orders[o].cart.lines), x)]
    BY <1>4, <1>5, <1>6
  <2>3. Store!Cancel(o)
    BY <1>5, <1>6, <2>1, <2>2 DEF Store!Cancel
  <2> QED
    BY <1>2, <2>3
<1>7. CASE to # "cancelled"
  <2>1. /\ to \in {"confirmed", "preparing", "delivered"}
        /\ <<orders[o].status, to>> \in {<<"new", "confirmed">>, <<"confirmed", "preparing">>,
                                         <<"preparing", "delivered">>}
    BY <1>2, <1>7 DEF Transitions
  <2>2. stock' = stock
    <3>1. \A x \in Products : stock[x] + tx[p].delta[x] = stock[x]
      BY <1>4, <1>7
    <3> QED
      BY <1>1, <1>5, <3>1 DEF TypeOK
  <2>3. Store!Advance(o, to)
    BY <1>5, <2>1, <2>2 DEF Store!Advance
  <2> QED
    BY <1>2, <2>1, <2>3
<1> QED
  BY <1>6, <1>7

\* For one who sees only what was committed, orders take and give back their units at
\* one stroke, and a refused checkout keeps those of the lines before the one that ran out.
THEOREM ShopTheorem == Spec => ShopKept
<1>1. Init => Store!Init
  BY DEF Init, Store!Init, Store!NoOrder, NoOrder, NoCart
<1>2. Inductive /\ [Next]_vars => [Store!Next]_Store!vars
  <2> SUFFICES ASSUME Inductive, [Next]_vars PROVE Store!Next \/ UNCHANGED Store!vars
    OBVIOUS
  <2>1. CASE UNCHANGED <<stock, counter, orders>>
    BY <2>1 DEF Store!vars
  <2>2. ASSUME NEW p \in Procs, Commit(p) PROVE Store!Next
    <3>1. p \in Customers
      BY <2>2 DEF Commit
    <3>2. CASE tx[p].number # 0
      BY <2>2, <3>1, <3>2, CommitPlaces DEF Store!Next
    <3>3. CASE tx[p].number = 0
      BY <2>2, <3>1, <3>3, CommitSpills DEF Store!Next
    <3> QED
      BY <3>2, <3>3
  <2>3. ASSUME NEW p \in Procs, CommitEdit(p) PROVE Store!Next
    <3>1. p \in Editors
      BY <2>3 DEF CommitEdit
    <3> QED
      BY <2>3, <3>1, EditKeeps DEF Store!Next
  <2>4. ASSUME NEW p \in Procs, Begin(p) \/ Step(p) \/ Expire(p)
        PROVE  UNCHANGED <<stock, counter, orders>> \/ Commit(p) \/ CommitEdit(p)
    <3>1. TypeOK
      BY DEF Inductive
    <3>2. Reserve(p) \/ Restore(p) => UNCHANGED committed
      BY <3>1, LineEffect
    <3>3. Persist(p) => UNCHANGED committed
      BY <3>1, PersistEffect
    <3>4. Redeem(p) => UNCHANGED committed
      BY <3>1, RedeemEffect
    <3> QED
      BY <2>4, <3>1, <3>2, <3>3, <3>4, Effects DEF committed
  <2> QED
    BY <2>1, <2>2, <2>3, <2>4 DEF Next, CountRedemptions, DeleteCoupon, vars, committed
<1> QED
  BY <1>1, <1>2, InductiveHolds, PTL DEF Spec, ShopKept, Store!Spec
===============================================================================
