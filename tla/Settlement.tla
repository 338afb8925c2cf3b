------------------------------- MODULE Settlement -------------------------------
(***************************************************************************)
(* Buy-now orders (src/server/orders/index.ts): placed by a customer, moved *)
(* along by the merchant and by the notices of a payment gateway, which    *)
(* come late, twice or in the wrong order.  A change of status records the *)
(* payment and emits its events in one transaction, and the customers      *)
(* index (src/server/customers/derive.ts) is rebuilt after it committed.   *)
(*                                                                         *)
(* changeOrderStatus reads the order and then updates it by a condition on *)
(* what it read; the row is locked from the update to the commit, so the   *)
(* read and the commit are the two moments others can tell apart.  Every   *)
(* order here is one customer's, and each amounts to one unit of money.    *)
(* The gateway may also name an order that changeOrderStatus never moves:  *)
(* one of the cart, whose statuses are others, or one that is gone.        *)
(***************************************************************************)
EXTENDS Outbox

CONSTANTS
  Requests,   \* requests of the merchant and of the gateway
  Online,     \* orders whose customer can pay at the gateway
  Others,     \* orders of the cart, or gone, that a notice may name all the same
  MaxFailures \* bound: requests that die or whose answer is lost

ASSUME SettlementAssumption ==
  /\ "none" \notin Orders /\ IsFiniteSet(Orders)
  /\ Online \subseteq Orders
  /\ Others \cap Orders = {} /\ "none" \notin Others
  /\ MaxFailures \in Nat

VARIABLES
  status,     \* of each order, "none" before it is placed
  payments,   \* Payment rows of each order, by method
  request,    \* what each request is doing
  sent,       \* notices the gateway has sent
  acked,      \* notices it had a 2xx for
  customer,   \* the customers row: orders_count and total_spent
  failures,   \* requests that failed
  \* History, read by properties only:
  overtaken,  \* rebuilds whose scan something committed after
  astray      \* the index was last written by such a rebuild, or a rebuild was lost

vars == <<outboxVars, status, payments, request, sent, acked, customer, failures,
          overtaken, astray>>

orderVars == <<status, payments>>
gateVars == <<sent, acked>>
indexVars == <<customer, overtaken, astray>>

--------------------------------------------------------------------------------

Statuses == {"pending", "paid", "fulfilled", "cancelled", "refunded"}

\* Mutant of Transitions: a cancelled order can still be refunded.
RefundsCancelled == [pending |-> {"paid", "cancelled"},
                     paid |-> {"fulfilled", "refunded", "cancelled"},
                     fulfilled |-> {"refunded"},
                     cancelled |-> {"refunded"},
                     refunded |-> {}]

\* BUY_NOW_TRANSITIONS.
Transitions == [pending |-> {"paid", "cancelled"},
                paid |-> {"fulfilled", "refunded", "cancelled"},
                fulfilled |-> {"refunded"},
                cancelled |-> {},
                refunded |-> {}]

CanMove(from, to) == from \in Statuses /\ to \in Transitions[from]

Methods == {"gateway", "other"}

\* A notice of a failed attempt is left out: settleOrder changes nothing for it.
Notices == [order : Online \cup Others, status : {"paid", "refunded"}]

NoNotice == [order |-> "none", status |-> "none"]

Placed == {o \in Orders : status[o] # "none"}

\* foldOrdersIntoTotals.
Spending(s) == s \notin {"none", "cancelled", "refunded"}

Totals(s) ==
  [count |-> Cardinality({o \in Orders : s[o] # "none"}),
   spent |-> Cardinality({o \in Orders : Spending(s[o])})]

RequestStates ==
  [pc : {"idle", "read", "committed", "scanned"}, order : Orders \cup {"none"},
   from : Statuses \cup {"none"}, to : Statuses \cup {"none"},
   notice : Notices \cup {NoNotice}, own : BOOLEAN, seen : [count : Int, spent : Int]]

\* notice is the one to answer, own says that the rebuild follows a change of its own.
Free == [pc |-> "idle", order |-> "none", from |-> "none", to |-> "none",
         notice |-> NoNotice, own |-> FALSE, seen |-> [count |-> 0, spent |-> 0]]

Init ==
  /\ OutboxInit
  /\ status = [o \in Orders |-> "none"]
  /\ payments = [o \in Orders |-> [m \in Methods |-> 0]]
  /\ request = [r \in Requests |-> Free]
  /\ sent = {} /\ acked = {}
  /\ customer = [count |-> 0, spent |-> 0]
  /\ failures = 0
  /\ overtaken = {} /\ astray = FALSE

\* A rebuild that has scanned misses what commits now.
Overtake == overtaken' = overtaken \cup {r \in Requests : request[r].pc = "scanned"}

\* Mutant of Upserted: what was read with the order is written back.
UpsertsFromScan == [count |-> Totals(status).count + 1, spent |-> 1]

\* upsertCustomerFromOrder increments what the row holds.
Upserted == [count |-> customer.count + 1, spent |-> customer.spent + 1]

\* placeOrder, when nothing refuses it.
Place(o) ==
  /\ status[o] = "none"
  /\ status' = [status EXCEPT ![o] = "pending"]
  /\ customer' = Upserted
  /\ outbox' = Emitted(o, {"order.placed"})
  /\ Overtake
  /\ UNCHANGED <<active, pass, deaths, payments, request, sent, acked, failures, astray>>

\* The gateway: the customer pays, the money is sent back.
Notify(n) ==
  /\ n.order \in Orders => status[n.order] # "none"
  /\ n \notin sent
  /\ n.status = "refunded" => [n EXCEPT !.status = "paid"] \in sent
  /\ sent' = sent \cup {n}
  /\ UNCHANGED <<outboxVars, orderVars, request, acked, indexVars, failures>>

\* setOrderStatus in the dashboard: the read.
Press(r, o, to) ==
  /\ request[r].pc = "idle"
  /\ CanMove(status[o], to)
  /\ request' = [request EXCEPT ![r] =
       [Free EXCEPT !.pc = "read", !.order = o, !.from = status[o], !.to = to]]
  /\ UNCHANGED <<outboxVars, orderVars, gateVars, indexVars, failures>>

\* changeOrderStatus has no filter on the channel: of an order of the cart it
\* reads a status that is none of Statuses, of one that is gone nothing.
Found(o) == IF o \in Orders THEN status[o] ELSE "none"

\* Mutant of AckedAtOnce: 200 before the notice is applied.
AcksFirst(n, applies) == acked \cup {n}

\* A notice that cannot apply, illegal_transition or not_found, is answered 200
\* at once.
AckedAtOnce(n, applies) == IF applies THEN acked ELSE acked \cup {n}

\* settleOrder: the read.  The gateway repeats a notice until it is answered and
\* may have it delivered again after that.
Receive(r, n) ==
  LET applies == CanMove(Found(n.order), n.status)
  IN /\ request[r].pc = "idle"
     /\ n \in sent
     /\ request' = IF applies
          THEN [request EXCEPT ![r] =
                 [Free EXCEPT !.pc = "read", !.order = n.order, !.from = Found(n.order),
                              !.to = n.status, !.notice = n]]
          ELSE request
     /\ acked' = AckedAtOnce(n, applies)
     /\ UNCHANGED <<outboxVars, orderVars, sent, indexVars, failures>>

\* 200, whether or not the notice changed anything.
Acked(r) == acked \cup ({request[r].notice} \ {NoNotice})

\* recordPaymentInTx.
Paid(r) ==
  LET method == IF request[r].notice # NoNotice THEN "gateway" ELSE "other"
  IN [payments EXCEPT ![request[r].order][method] = @ + 1]

\* Mutant of StillAsRead: the order is updated by id.
FoundById(r) == TRUE

\* The condition of the updateMany.
StillAsRead(r) == status[request[r].order] = request[r].from

\* Mutant of EventsOf: order.paid for every order that is settled.
EventsOfSettled(to) ==
  {"order.status_changed"}
    \cup (IF to \in {"paid", "fulfilled"} THEN {"payment.recorded", "order.paid"} ELSE {})

EventsOf(to) ==
  {"order.status_changed"} \cup (IF to = "paid" THEN {"payment.recorded", "order.paid"} ELSE {})

\* The updateMany finds the row as it was read; what follows commits with it.
Commit(r) ==
  LET o == request[r].order
      to == request[r].to
  IN /\ request[r].pc = "read"
     /\ StillAsRead(r)
     /\ status' = [status EXCEPT ![o] = to]
     /\ payments' = IF to = "paid" THEN Paid(r) ELSE payments
     /\ outbox' = Emitted(o, EventsOf(to))
     /\ request' = [request EXCEPT ![r] =
          [Free EXCEPT !.pc = "committed", !.notice = request[r].notice, !.own = TRUE]]
     /\ Overtake
     /\ UNCHANGED <<active, pass, deaths, gateVars, customer, astray, failures>>

\* It did not: illegal_transition, which the gateway takes for a success.
TooLate(r) ==
  /\ request[r].pc = "read"
  /\ ~StillAsRead(r)
  /\ acked' = Acked(r)
  /\ request' = [request EXCEPT ![r] = Free]
  /\ UNCHANGED <<outboxVars, orderVars, sent, indexVars, failures>>

\* recomputeCustomerTotals after the commit, or the merchant's button.
PressRebuild(r) ==
  /\ request[r].pc = "idle"
  /\ Placed # {}
  /\ request' = [request EXCEPT ![r] = [Free EXCEPT !.pc = "committed"]]
  /\ UNCHANGED <<outboxVars, orderVars, gateVars, indexVars, failures>>

Scan(r) ==
  /\ request[r].pc = "committed"
  /\ request' = [request EXCEPT ![r].pc = "scanned", ![r].seen = Totals(status)]
  /\ overtaken' = overtaken \ {r}
  /\ UNCHANGED <<outboxVars, orderVars, gateVars, customer, astray, failures>>

Write(r) ==
  /\ request[r].pc = "scanned"
  /\ customer' = request[r].seen
  /\ astray' = (r \in overtaken)
  /\ acked' = Acked(r)
  /\ request' = [request EXCEPT ![r] = Free]
  /\ overtaken' = overtaken \ {r}
  /\ UNCHANGED <<outboxVars, orderVars, sent, failures>>

\* A crash, a throw or an answer that never arrives, at any moment: a transaction
\* that has not committed is rolled back, a notice is not answered.
Fail(r) ==
  /\ request[r].pc # "idle"
  /\ failures < MaxFailures
  /\ failures' = failures + 1
  /\ astray' = (astray \/ (request[r].own))
  /\ request' = [request EXCEPT ![r] = Free]
  /\ overtaken' = overtaken \ {r}
  /\ UNCHANGED <<outboxVars, orderVars, gateVars, customer>>

Aside == UNCHANGED <<orderVars, request, gateVars, indexVars, failures>>

Handle(r) == Commit(r) \/ TooLate(r) \/ Scan(r) \/ Write(r)

Next ==
  \/ \E o \in Orders : Place(o)
  \/ \E n \in Notices : Notify(n)
  \/ \E r \in Requests :
       \/ \E o \in Orders, to \in Statuses : Press(r, o, to)
       \/ \E n \in Notices : Receive(r, n)
       \/ PressRebuild(r)
       \/ Handle(r)
       \/ Fail(r)
  \/ Dispatch /\ Aside

Spec == Init /\ [][Next]_vars

--------------------------------------------------------------------------------
(* Properties *)

TypeOK ==
  /\ status \in [Orders -> Statuses \cup {"none"}]
  /\ payments \in [Orders -> [Methods -> Nat]]
  /\ request \in [Requests -> RequestStates]
  /\ sent \subseteq Notices /\ acked \subseteq Notices
  /\ customer \in [count : Int, spent : Int]
  /\ failures \in Nat
  /\ overtaken \subseteq Requests /\ astray \in BOOLEAN

Rows(o) == payments[o]["gateway"] + payments[o]["other"]

\* An order has one Payment from the moment it is paid, never two, and a cancelled
\* one has none unless it was paid before (orders/index.ts:439-447: two people who
\* press at the same second must not record the payment twice).
PaidOnce ==
  \A o \in Orders :
    /\ status[o] \in {"none", "pending"} => Rows(o) = 0
    /\ status[o] \in {"paid", "fulfilled", "refunded"} => Rows(o) = 1
    /\ Rows(o) <= 1

PaidRows(o) == {e \in DOMAIN outbox : e.order = o /\ e.type = "order.paid"}

\* The endpoint hears of a payment once: an order.paid delivery has its Payment, and
\* while the endpoint is on a Payment has its delivery (events/emit.ts:17-18: "an event
\* that commits without its cause, or a cause that commits without its event, is a lie").
PaymentsAnnounced ==
  \A o \in Orders :
    /\ \A e, f \in PaidRows(o) : e = f
    /\ PaidRows(o) # {} => Rows(o) = 1
    /\ active /\ "order.paid" \in Subscribed /\ Rows(o) = 1 => PaidRows(o) # {}

\* The gateway is told to stop repeating that a buy-now order is paid only when
\* a Payment is recorded or the order had been cancelled.  Every notice about
\* another order is dropped with the same 200 (settleOrder, index.ts:616-652).
AckedIsAccounted ==
  \A n \in acked :
    n.status = "paid" => n.order \in Others \/ Rows(n.order) = 1 \/ status[n.order] = "cancelled"

\* What a request holds: a legal move of an order that was placed, the notice it
\* answers, and after the commit what the notice said.
RequestSound(r) ==
  LET q == request[r]
  IN /\ q.pc = "read" =>
          /\ q.order \in Orders /\ CanMove(q.from, q.to) /\ status[q.order] # "none"
          /\ q.notice # NoNotice => q.notice = [order |-> q.order, status |-> q.to]
          /\ ~q.own
          /\ q.from # "pending" => status[q.order] # "pending"
     /\ q.pc = "idle" => q = Free
     /\ q.notice # NoNotice => q.notice.order \in Orders
     /\ q.pc \in {"committed", "scanned"} /\ q.notice # NoNotice /\ q.notice.status = "paid" =>
          Rows(q.notice.order) = 1
     /\ q.pc = "scanned" /\ r \notin overtaken => q.seen = Totals(status)

RequestsSound == \A r \in Requests : RequestSound(r)

NoticesSound ==
  /\ acked \subseteq sent
  /\ \A n \in sent : n.order \in Orders => status[n.order] # "none"
  /\ \A r \in Requests : request[r].notice # NoNotice => request[r].notice \in sent

\* The two ways the customers row is written agree: unless a rebuild is under way,
\* was lost, or wrote what it had scanned before another commit, the row is what
\* the orders say (customers/derive.ts:17-28).
IndexExact ==
  \/ astray
  \/ \E r \in Requests : request[r].own
  \/ customer = Totals(status)

\* What the proofs carry from step to step.
Inductive ==
  /\ OutboxTypes /\ TypeOK
  /\ RowsSound /\ PassesSound /\ EndedRightly
  /\ PaidOnce /\ PaymentsAnnounced /\ AckedIsAccounted
  /\ RequestsSound /\ NoticesSound /\ IndexExact

\* Whoever reports the money and however often, it is recorded once, returned only
\* after that, and the endpoint hears of it only after that.
Promise == INSTANCE Ledger WITH
  rows <- [o \in Orders |-> Rows(o)],
  back <- {o \in Orders : status[o] = "refunded"},
  heard <- {e.order : e \in {d \in DOMAIN outbox : d.type = "order.paid" /\ outbox[d].heard}}

LedgerKept == Promise!Spec

\* A payment of a buy-now order that the gateway reported is recorded or the
\* order is cancelled, however often the notice is lost on the way.
PaymentArrives ==
  \A o \in Online :
    [order |-> o, status |-> "paid"] \in sent ~> Rows(o) = 1 \/ status[o] = "cancelled"
================================================================================
