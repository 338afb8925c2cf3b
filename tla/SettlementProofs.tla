---------------------------- MODULE SettlementProofs ----------------------------
(***************************************************************************)
(* Proofs about Settlement, for every set of orders, requests and passes,  *)
(* every subscription and every bound.                                     *)
(***************************************************************************)
EXTENDS Settlement, OutboxProofs

ShopInv ==
  /\ TypeOK /\ PaidOnce /\ PaymentsAnnounced /\ AckedIsAccounted
  /\ RequestsSound /\ NoticesSound /\ IndexExact

LEMMA Parts == Inductive <=> OutboxInv /\ ShopInv
BY DEF Inductive, OutboxInv, ShopInv

\* Totals are numbers.
LEMMA TotalsTyped ==
  ASSUME NEW s
  PROVE  Totals(s) \in [count : Int, spent : Int]
<1>1. IsFiniteSet({o \in Orders : s[o] # "none"}) /\ IsFiniteSet({o \in Orders : Spending(s[o])})
  BY SettlementAssumption, FS_Subset
<1> QED
  BY <1>1, FS_CardinalityType DEF Totals

\* An order that is placed adds one to the count and to the spending.
LEMMA PlacedAddsOne ==
  ASSUME NEW s \in [Orders -> Statuses \cup {"none"}], NEW o \in Orders, s[o] = "none"
  PROVE  Totals([s EXCEPT ![o] = "pending"])
           = [count |-> Totals(s).count + 1, spent |-> Totals(s).spent + 1]
<1> DEFINE t == [s EXCEPT ![o] = "pending"]
           N(f) == {x \in Orders : f[x] # "none"}
           S(f) == {x \in Orders : Spending(f[x])}
<1>1. IsFiniteSet(N(s)) /\ IsFiniteSet(S(s))
  BY SettlementAssumption, FS_Subset
<1>2. N(t) = N(s) \cup {o} /\ o \notin N(s)
  OBVIOUS
<1>3. S(t) = S(s) \cup {o} /\ o \notin S(s)
  BY DEF Spending
<1>4. Cardinality(N(t)) = Cardinality(N(s)) + 1
  <2> HIDE DEF N, t
  <2> QED
    BY <1>1, <1>2, FS_AddElement
<1>5. Cardinality(S(t)) = Cardinality(S(s)) + 1
  <2> HIDE DEF S, t
  <2> QED
    BY <1>1, <1>3, FS_AddElement
<1> QED
  BY <1>4, <1>5 DEF Totals

\* What the transition table says of a payment.
LEMMA MovesOfMoney ==
  ASSUME NEW from, NEW to, CanMove(from, to)
  PROVE  /\ from \in Statuses /\ to \in Statuses /\ to # "pending"
         /\ to = "paid" <=> from = "pending" /\ to # "cancelled"
         /\ to = "refunded" => from \in {"paid", "fulfilled"}
         /\ to = "fulfilled" => from = "paid"
         /\ to = "cancelled" => from \in {"pending", "paid"}
<1>1. from \in Statuses /\ to \in Transitions[from]
  BY DEF CanMove
<1>2. CASE from = "pending"
  BY <1>1, <1>2 DEF Transitions, Statuses
<1>3. CASE from = "paid"
  BY <1>1, <1>3 DEF Transitions, Statuses
<1>4. CASE from = "fulfilled"
  BY <1>1, <1>4 DEF Transitions, Statuses
<1>5. CASE from \in {"cancelled", "refunded"}
  BY <1>1, <1>5 DEF Transitions
<1> QED
  BY <1>1, <1>2, <1>3, <1>4, <1>5 DEF Statuses

\* A settled order cannot be paid; one that is not placed was never paid.
LEMMA CannotBePaid ==
  ASSUME NEW s \in Statuses, ~CanMove(s, "paid")
  PROVE  s # "pending"
BY DEF CanMove, Transitions

LEMMA NoNoticeIsNone == NoNotice \notin Notices
BY SettlementAssumption DEF NoNotice, Notices

LEMMA FreeTyped ==
  /\ Free \in RequestStates
  /\ Free.pc = "idle" /\ Free.notice = NoNotice /\ Free.own = FALSE
BY DEF Free, RequestStates

\* A request that was given a new state.
LEMMA RequestMoved ==
  ASSUME TypeOK, NEW r \in Requests, NEW q \in RequestStates, request' = [request EXCEPT ![r] = q]
  PROVE  /\ request' \in [Requests -> RequestStates]
         /\ request'[r] = q
         /\ \A x \in Requests : x # r => request'[x] = request[x]
BY DEF TypeOK

\* Orders and index as they were: the other requests are as sound as before.
LEMMA OtherRequests ==
  ASSUME RequestsSound, NEW x \in Requests, request'[x] = request[x], UNCHANGED orderVars,
         x \in overtaken => x \in overtaken'
  PROVE  RequestSound(x)'
<1>1. RequestSound(x)
  BY DEF RequestsSound
<1>2. \A o : Rows(o)' = Rows(o)
  BY DEF Rows, orderVars
<1> QED
  BY <1>1, <1>2 DEF RequestSound, orderVars

\* Nothing emitted and nothing paid.
LEMMA StillAnnounced ==
  ASSUME PaymentsAnnounced, DOMAIN outbox' = DOMAIN outbox, active' => active, UNCHANGED payments
  PROVE  PaymentsAnnounced'
<1>1. \A o : Rows(o)' = Rows(o) /\ PaidRows(o)' = PaidRows(o)
  BY DEF Rows, PaidRows
<1> QED
  BY <1>1 DEF PaymentsAnnounced

LEMMA StillPaidOnce ==
  ASSUME UNCHANGED orderVars
  PROVE  /\ PaidOnce => PaidOnce'
         /\ AckedIsAccounted /\ UNCHANGED acked => AckedIsAccounted'
BY DEF orderVars, PaidOnce, AckedIsAccounted, Rows

--------------------------------------------------------------------------------
(* Steps that only move a request *)

\* A request starts, goes on or ends without a change of orders or of the index: what is
\* left to show is that its own new state is sound, and what it acknowledges accounted.
LEMMA RequestStep ==
  ASSUME Inductive, NEW r \in Requests, NEW q \in RequestStates,
         request' = [request EXCEPT ![r] = q],
         UNCHANGED <<outboxVars, orderVars, sent, customer, failures, astray>>,
         acked' \subseteq sent,
         \A n \in acked' \ acked :
           n.status = "paid" => n.order \in Others \/ Rows(n.order) = 1 \/ status[n.order] = "cancelled",
         overtaken' \in {overtaken, overtaken \ {r}},
         q.notice # NoNotice => q.notice \in sent,
         q.own = request[r].own,
         RequestSound(r)'
  PROVE  Inductive'
<1>1. OutboxInv /\ TypeOK /\ PaidOnce /\ PaymentsAnnounced /\ AckedIsAccounted
      /\ RequestsSound /\ NoticesSound /\ IndexExact
  BY Parts DEF ShopInv
<1>2. /\ request' \in [Requests -> RequestStates] /\ request'[r] = q
      /\ \A x \in Requests : x # r => request'[x] = request[x]
  BY <1>1, RequestMoved
<1>3. OutboxInv'
  BY <1>1 DEF OutboxInv, outboxVars, OutboxTypes, RowsSound, PassesSound, EndedRightly, HoldsSeen
<1>4. TypeOK'
  BY <1>1, <1>2 DEF TypeOK, orderVars, NoticesSound
<1>5. PaidOnce' /\ PaymentsAnnounced'
  BY <1>1, StillPaidOnce, StillAnnounced DEF outboxVars, orderVars
<1>6. AckedIsAccounted'
  BY <1>1 DEF AckedIsAccounted, orderVars, Rows
<1>7. RequestsSound'
  <2>1. ASSUME NEW x \in Requests, x # r PROVE RequestSound(x)'
    BY <1>1, <1>2, <2>1, OtherRequests
  <2> QED
    BY <2>1 DEF RequestsSound
<1>8. NoticesSound'
  BY <1>1, <1>2 DEF NoticesSound, orderVars
<1>9. IndexExact'
  <2>1. \A x \in Requests : request'[x].own = request[x].own
    BY <1>2
  <2> QED
    BY <1>1, <2>1 DEF IndexExact, orderVars
<1> QED
  BY <1>3, <1>4, <1>5, <1>6, <1>7, <1>8, <1>9, Parts DEF Inductive, OutboxInv

LEMMA PressKeeps ==
  ASSUME Inductive, NEW r \in Requests, NEW o \in Orders, NEW to \in Statuses, Press(r, o, to)
  PROVE  Inductive'
<1> DEFINE q == [Free EXCEPT !.pc = "read", !.order = o, !.from = status[o], !.to = to]
<1>1. TypeOK /\ RequestsSound
  BY DEF Inductive
<1>2. /\ request[r] = Free /\ request' = [request EXCEPT ![r] = q]
      /\ UNCHANGED <<outboxVars, orderVars, gateVars, indexVars, failures>>
      /\ CanMove(status[o], to)
  BY <1>1 DEF Press, RequestsSound, RequestSound
<1>3. q \in RequestStates /\ q.pc = "read" /\ q.order = o /\ q.from = status[o] /\ q.to = to
      /\ q.notice = NoNotice /\ q.own = FALSE
  BY <1>1, FreeTyped DEF RequestStates, TypeOK
<1> HIDE DEF q
<1>4. request'[r] = q
  BY <1>1, <1>2, <1>3, RequestMoved
<1>5. RequestSound(r)'
  BY <1>2, <1>3, <1>4, MovesOfMoney DEF RequestSound, orderVars, Statuses
<1>6. UNCHANGED <<outboxVars, orderVars, sent, customer, failures, astray>> /\ acked' = acked
      /\ overtaken' = overtaken
  BY <1>2 DEF gateVars, indexVars
<1>7. acked \subseteq sent /\ q.own = request[r].own
  BY <1>2, <1>3, FreeTyped DEF Inductive, NoticesSound, Free
<1> QED
  BY <1>2, <1>3, <1>5, <1>6, <1>7, RequestStep

LEMMA PressRebuildKeeps ==
  ASSUME Inductive, NEW r \in Requests, PressRebuild(r)
  PROVE  Inductive'
<1> DEFINE q == [Free EXCEPT !.pc = "committed"]
<1>1. TypeOK /\ RequestsSound
  BY DEF Inductive
<1>2. /\ request[r] = Free /\ request' = [request EXCEPT ![r] = q]
      /\ UNCHANGED <<outboxVars, orderVars, gateVars, indexVars, failures>>
  BY <1>1 DEF PressRebuild, RequestsSound, RequestSound
<1>3. q \in RequestStates /\ q.pc = "committed" /\ q.notice = NoNotice /\ q.own = FALSE
  BY FreeTyped DEF RequestStates
<1> HIDE DEF q
<1>4. request'[r] = q
  BY <1>1, <1>2, <1>3, RequestMoved
<1>5. RequestSound(r)'
  BY <1>3, <1>4 DEF RequestSound
<1>6. UNCHANGED <<outboxVars, orderVars, sent, customer, failures, astray>> /\ acked' = acked
      /\ overtaken' = overtaken
  BY <1>2 DEF gateVars, indexVars
<1>7. acked \subseteq sent /\ q.own = request[r].own
  BY <1>2, <1>3, FreeTyped DEF Inductive, NoticesSound, Free
<1> QED
  BY <1>2, <1>3, <1>5, <1>6, <1>7, RequestStep

LEMMA ScanKeeps ==
  ASSUME Inductive, NEW r \in Requests, Scan(r)
  PROVE  Inductive'
<1> DEFINE q == [request[r] EXCEPT !.pc = "scanned", !.seen = Totals(status)]
<1>1. TypeOK /\ RequestsSound /\ NoticesSound
  BY DEF Inductive
<1>2. request[r] \in RequestStates /\ request[r].pc = "committed"
  BY <1>1 DEF TypeOK, Scan
<1>3. q \in RequestStates /\ q.pc = "scanned" /\ q.notice = request[r].notice
      /\ q.own = request[r].own /\ q.seen = Totals(status)
  BY <1>2, TotalsTyped DEF RequestStates
<1>4. /\ request' = [request EXCEPT ![r] = q]
      /\ UNCHANGED <<outboxVars, orderVars, gateVars, customer, astray, failures>>
      /\ overtaken' = overtaken \ {r}
  BY <1>1, <1>2 DEF Scan, RequestStates, TypeOK
<1> HIDE DEF q
<1>5. request'[r] = q
  BY <1>1, <1>3, <1>4, RequestMoved
<1>6. RequestSound(r)'
  <2>1. RequestSound(r)
    BY <1>1 DEF RequestsSound
  <2>2. \A o : Rows(o)' = Rows(o)
    BY <1>4 DEF Rows, orderVars
  <2> QED
    BY <1>2, <1>3, <1>4, <1>5, <2>1, <2>2 DEF RequestSound, orderVars
<1>7. UNCHANGED <<outboxVars, orderVars, sent, customer, failures, astray>> /\ acked' = acked
  BY <1>4 DEF gateVars
<1>8. acked \subseteq sent /\ (q.notice # NoNotice => q.notice \in sent)
  BY <1>1, <1>3 DEF NoticesSound
<1> QED
  BY <1>3, <1>4, <1>6, <1>7, <1>8, RequestStep

LEMMA TooLateKeeps ==
  ASSUME Inductive, NEW r \in Requests, TooLate(r)
  PROVE  Inductive'
<1>1. TypeOK /\ RequestsSound /\ NoticesSound /\ PaidOnce
  BY DEF Inductive
<1>2. /\ request[r].pc = "read" /\ status[request[r].order] # request[r].from
      /\ acked' = Acked(r) /\ request' = [request EXCEPT ![r] = Free]
      /\ UNCHANGED <<outboxVars, orderVars, sent, indexVars, failures>>
  BY DEF TooLate, StillAsRead
<1> DEFINE n == request[r].notice
           o == request[r].order
<1>3. /\ o \in Orders /\ CanMove(request[r].from, request[r].to) /\ status[o] # "none"
      /\ n # NoNotice => n = [order |-> o, status |-> request[r].to]
      /\ ~request[r].own
  BY <1>1, <1>2 DEF RequestsSound, RequestSound
<1>4. \A m \in acked' \ acked : m = n /\ n # NoNotice
  BY <1>2 DEF Acked
<1>5. acked' \subseteq sent
  BY <1>1, <1>2 DEF Acked, NoticesSound
<1>6. ASSUME NEW m \in acked' \ acked, m.status = "paid"
      PROVE  Rows(m.order) = 1 \/ status[m.order] = "cancelled"
  <2>1. m.order = o /\ request[r].to = "paid"
    BY <1>3, <1>4, <1>6
  <2>2. request[r].from = "pending"
    BY <1>3, <2>1, MovesOfMoney
  <2>3. status[o] \in {"paid", "fulfilled", "refunded", "cancelled"}
    BY <1>1, <1>2, <1>3, <2>2 DEF TypeOK, Statuses
  <2> QED
    BY <1>1, <1>3, <2>1, <2>3 DEF PaidOnce
<1>7. request'[r] = Free
  BY <1>1, <1>2, FreeTyped, RequestMoved
<1>8. RequestSound(r)'
  BY <1>7, FreeTyped DEF RequestSound
<1>9. Free.own = request[r].own
  BY <1>1, <1>3 DEF TypeOK, RequestStates, Free
<1> QED
  BY <1>2, <1>5, <1>6, <1>8, <1>9, FreeTyped, RequestStep DEF indexVars

LEMMA ReceiveKeeps ==
  ASSUME Inductive, NEW r \in Requests, NEW n \in Notices, Receive(r, n)
  PROVE  Inductive'
<1> DEFINE q == [Free EXCEPT !.pc = "read", !.order = n.order, !.from = Found(n.order),
                             !.to = n.status, !.notice = n]
<1>1. TypeOK /\ RequestsSound /\ NoticesSound /\ PaidOnce
  BY DEF Inductive
<1>2. /\ request[r].pc = "idle" /\ n \in sent
      /\ acked' = AckedAtOnce(n, CanMove(Found(n.order), n.status))
      /\ UNCHANGED <<outboxVars, orderVars, sent, indexVars, failures>>
  BY DEF Receive
<1>3. /\ n.order \in Online \cup Others /\ n.status \in {"paid", "refunded"}
      /\ n = [order |-> n.order, status |-> n.status]
      /\ n.order \notin Others => n.order \in Orders /\ Found(n.order) = status[n.order]
      /\ n.order \notin Others => status[n.order] \in Statuses
  BY <1>1, <1>2, SettlementAssumption DEF Notices, NoticesSound, TypeOK, Found
<1>4. request[r] = Free /\ request \in [Requests -> RequestStates]
  BY <1>1, <1>2 DEF RequestsSound, RequestSound, TypeOK
<1>5. CASE CanMove(Found(n.order), n.status)
  <2>0. n.order \in Orders /\ Found(n.order) = status[n.order] /\ status[n.order] \in Statuses
    BY <1>1, <1>3, <1>5 DEF CanMove, Found, Statuses, TypeOK
  <2>1. request' = [request EXCEPT ![r] = q] /\ acked' = acked
    BY <1>2, <1>5 DEF Receive, AckedAtOnce
  <2>2. /\ q \in RequestStates /\ q.pc = "read" /\ q.order = n.order /\ q.from = status[n.order]
        /\ q.to = n.status /\ q.notice = n /\ q.own = FALSE
    BY <1>1, <1>3, <2>0, FreeTyped DEF RequestStates, TypeOK, Statuses
  <2> HIDE DEF q
  <2>3. request'[r] = q
    BY <1>1, <2>1, <2>2, RequestMoved
  <2>4. RequestSound(r)'
    BY <1>2, <1>3, <1>5, <2>0, <2>2, <2>3 DEF RequestSound, orderVars, Statuses
  <2>5. acked' \subseteq sent /\ q.own = request[r].own
    BY <1>1, <1>4, <2>1, <2>2, FreeTyped DEF NoticesSound, Free
  <2> QED
    BY <1>2, <2>1, <2>2, <2>4, <2>5, RequestStep DEF indexVars
<1>6. CASE ~CanMove(Found(n.order), n.status)
  <2>1. request' = request /\ acked' = acked \cup {n}
    BY <1>2, <1>6 DEF Receive, AckedAtOnce
  <2>2. request' = [request EXCEPT ![r] = Free] /\ Free.own = request[r].own
    BY <1>4, <2>1
  <2>3. ASSUME NEW m \in acked' \ acked, m.status = "paid"
        PROVE  m.order \in Others \/ Rows(m.order) = 1 \/ status[m.order] = "cancelled"
    <3> SUFFICES ASSUME n.order \notin Others
                 PROVE  Rows(n.order) = 1 \/ status[n.order] = "cancelled"
      BY <2>1, <2>3
    <3>1. n.status = "paid" /\ status[n.order] # "pending"
      BY <1>3, <1>6, <2>1, <2>3, CannotBePaid
    <3>2. status[n.order] \in {"paid", "fulfilled", "refunded", "cancelled"}
      BY <1>3, <3>1 DEF Statuses
    <3> QED
      BY <1>1, <1>3, <3>2 DEF PaidOnce
  <2>4. RequestSound(r)'
    BY <1>4, <2>1, FreeTyped DEF RequestSound
  <2>5. acked' \subseteq sent
    BY <1>1, <1>2, <2>1 DEF NoticesSound
  <2> QED
    BY <1>2, <2>2, <2>3, <2>4, <2>5, FreeTyped, RequestStep DEF indexVars
<1> QED
  BY <1>5, <1>6

--------------------------------------------------------------------------------
(* The other steps *)

\* A step of the outbox, orders and index as they were.
LEMMA DispatchKeeps ==
  ASSUME Inductive, Dispatch, Aside
  PROVE  Inductive'
<1>1. OutboxInv /\ TypeOK /\ PaidOnce /\ PaymentsAnnounced /\ AckedIsAccounted
      /\ RequestsSound /\ NoticesSound /\ IndexExact
  BY Parts DEF ShopInv
<1>2. OutboxInv' /\ DOMAIN outbox' = DOMAIN outbox /\ (active' => active)
  BY <1>1, BeginKeeps, GiveUpKeeps, PostKeeps, RecordKeeps, DieKeeps, RipenKeeps, SwitchOffKeeps
     DEF Dispatch, BeginPass
<1>3. UNCHANGED <<status, payments, request, sent, acked, customer, overtaken, astray, failures>>
  BY DEF Aside, orderVars, gateVars, indexVars
<1>4. PaymentsAnnounced'
  BY <1>1, <1>2, <1>3, StillAnnounced
<1>5. RequestsSound'
  <2>1. ASSUME NEW x \in Requests PROVE RequestSound(x)'
    BY <1>1, <1>3, OtherRequests DEF orderVars
  <2> QED
    BY <2>1 DEF RequestsSound
<1>6. TypeOK' /\ PaidOnce' /\ AckedIsAccounted' /\ NoticesSound' /\ IndexExact'
  BY <1>1, <1>3, StillPaidOnce DEF TypeOK, orderVars, NoticesSound, IndexExact
<1> QED
  BY <1>2, <1>4, <1>5, <1>6, Parts DEF ShopInv, Inductive, OutboxInv

LEMMA NotifyKeeps ==
  ASSUME Inductive, NEW n \in Notices, Notify(n)
  PROVE  Inductive'
<1>1. OutboxInv /\ TypeOK /\ PaidOnce /\ PaymentsAnnounced /\ AckedIsAccounted
      /\ RequestsSound /\ NoticesSound /\ IndexExact
  BY Parts DEF ShopInv
<1>2. /\ UNCHANGED <<outbox, active, pass, deaths, status, payments, request, acked, customer,
                     overtaken, astray, failures>>
      /\ sent' = sent \cup {n} /\ (n.order \in Orders => status[n.order] # "none")
  BY DEF Notify, outboxVars, orderVars, indexVars
<1>3. OutboxInv'
  BY <1>1, <1>2 DEF OutboxInv, OutboxTypes, RowsSound, PassesSound, EndedRightly, HoldsSeen
<1>4. PaymentsAnnounced'
  BY <1>1, <1>2, StillAnnounced
<1>5. RequestsSound'
  <2>1. ASSUME NEW x \in Requests PROVE RequestSound(x)'
    BY <1>1, <1>2, OtherRequests DEF orderVars
  <2> QED
    BY <2>1 DEF RequestsSound
<1>6. TypeOK' /\ PaidOnce' /\ AckedIsAccounted' /\ NoticesSound' /\ IndexExact'
  BY <1>1, <1>2, StillPaidOnce DEF TypeOK, orderVars, NoticesSound, IndexExact
<1> QED
  BY <1>3, <1>4, <1>5, <1>6 DEF Inductive, OutboxInv

LEMMA PlaceKeeps ==
  ASSUME Inductive, NEW o \in Orders, Place(o)
  PROVE  Inductive'
<1>1. OutboxInv /\ TypeOK /\ PaidOnce /\ PaymentsAnnounced /\ AckedIsAccounted
      /\ RequestsSound /\ NoticesSound /\ IndexExact
  BY Parts DEF ShopInv
<1>2. /\ UNCHANGED <<active, pass, deaths, payments, request, sent, acked, failures, astray>>
      /\ status[o] = "none" /\ status' = [status EXCEPT ![o] = "pending"]
      /\ customer' = [count |-> customer.count + 1, spent |-> customer.spent + 1]
      /\ outbox' = Emitted(o, {"order.placed"})
      /\ overtaken' = overtaken \cup {r \in Requests : request[r].pc = "scanned"}
  BY DEF Place, Upserted, Overtake
<1>3. \A x : Rows(x)' = Rows(x)
  BY <1>2 DEF Rows
<1>4. /\ status' \in [Orders -> Statuses \cup {"none"}] /\ status'[o] = "pending"
      /\ \A x \in Orders : x # o => status'[x] = status[x]
  BY <1>1, <1>2 DEF TypeOK, Statuses
<1>5. /\ OutboxInv' /\ DOMAIN outbox \subseteq DOMAIN outbox'
      /\ \A e \in DOMAIN outbox' \ DOMAIN outbox : e.type = "order.placed"
  BY <1>1, <1>2, EmittedKeeps DEF EventTypes
<1>6. TypeOK'
  BY <1>1, <1>2, <1>4 DEF TypeOK
<1>7. PaidOnce' /\ AckedIsAccounted'
  <2>1. Rows(o) = 0
    BY <1>1, <1>2 DEF PaidOnce
  <2>2. \A n \in acked : n.order \in Others \/ n.order \in Orders
    BY <1>1, SettlementAssumption DEF TypeOK, Notices
  <2> QED
    BY <1>1, <1>2, <1>3, <1>4, <2>1, <2>2 DEF PaidOnce, AckedIsAccounted
<1>8. PaymentsAnnounced'
  <2>1. \A x : PaidRows(x)' = PaidRows(x)
    BY <1>5 DEF PaidRows
  <2> QED
    BY <1>1, <1>2, <1>3, <2>1 DEF PaymentsAnnounced
<1>9. RequestsSound'
  <2> SUFFICES ASSUME NEW r \in Requests PROVE RequestSound(r)'
    BY DEF RequestsSound
  <2>1. RequestSound(r) /\ request'[r] = request[r]
    BY <1>1, <1>2 DEF RequestsSound
  <2>2. request[r].pc = "scanned" => r \in overtaken'
    BY <1>2
  <2> QED
    BY <1>2, <1>3, <1>4, <2>1, <2>2 DEF RequestSound
<1>10. NoticesSound'
  <2>1. \A n \in sent : n.order \in Orders => status[n.order] # "none"
    BY <1>1, SettlementAssumption DEF NoticesSound, TypeOK, Notices
  <2> QED
    BY <1>1, <1>2, <1>4, <2>1 DEF NoticesSound
<1>11. IndexExact'
  <2>1. Totals(status') = [count |-> Totals(status).count + 1, spent |-> Totals(status).spent + 1]
    BY <1>1, <1>2, PlacedAddsOne DEF TypeOK
  <2> QED
    BY <1>1, <1>2, <2>1 DEF IndexExact
<1> QED
  BY <1>5, <1>6, <1>7, <1>8, <1>9, <1>10, <1>11 DEF Inductive, OutboxInv

LEMMA WriteKeeps ==
  ASSUME Inductive, NEW r \in Requests, Write(r)
  PROVE  Inductive'
<1>1. OutboxInv /\ TypeOK /\ PaidOnce /\ PaymentsAnnounced /\ AckedIsAccounted
      /\ RequestsSound /\ NoticesSound /\ IndexExact
  BY Parts DEF ShopInv
<1>2. /\ UNCHANGED <<outbox, active, pass, deaths, status, payments, sent, failures>>
      /\ request[r].pc = "scanned" /\ customer' = request[r].seen /\ astray' = (r \in overtaken)
      /\ acked' = Acked(r) /\ request' = [request EXCEPT ![r] = Free]
      /\ overtaken' = overtaken \ {r}
  BY DEF Write, outboxVars, orderVars
<1>3. /\ request' \in [Requests -> RequestStates] /\ request'[r] = Free
      /\ \A x \in Requests : x # r => request'[x] = request[x]
  BY <1>1, <1>2, FreeTyped, RequestMoved
<1>4. /\ RequestSound(r) /\ request[r] \in RequestStates
      /\ request[r].notice # NoNotice => request[r].notice \in sent /\ request[r].notice \in Notices
  BY <1>1 DEF RequestsSound, TypeOK, NoticesSound, RequestStates
<1>5. OutboxInv'
  BY <1>1, <1>2 DEF OutboxInv, OutboxTypes, RowsSound, PassesSound, EndedRightly, HoldsSeen
<1>6. TypeOK'
  BY <1>1, <1>2, <1>3, <1>4 DEF TypeOK, Acked, RequestStates
<1>7. PaidOnce' /\ PaymentsAnnounced'
  BY <1>1, <1>2, StillPaidOnce, StillAnnounced DEF orderVars
<1>8. AckedIsAccounted'
  BY <1>1, <1>2, <1>4 DEF AckedIsAccounted, Acked, Rows, RequestSound
<1>9. RequestsSound'
  <2>1. ASSUME NEW x \in Requests, x # r PROVE RequestSound(x)'
    BY <1>1, <1>2, <1>3, <2>1, OtherRequests DEF orderVars
  <2>2. RequestSound(r)'
    BY <1>3, FreeTyped DEF RequestSound
  <2> QED
    BY <2>1, <2>2 DEF RequestsSound
<1>10. NoticesSound'
  BY <1>1, <1>2, <1>3, <1>4, FreeTyped DEF NoticesSound, Acked
<1>11. IndexExact'
  BY <1>2, <1>4 DEF IndexExact, RequestSound
<1> QED
  BY <1>5, <1>6, <1>7, <1>8, <1>9, <1>10, <1>11 DEF Inductive, OutboxInv

LEMMA FailKeeps ==
  ASSUME Inductive, NEW r \in Requests, Fail(r)
  PROVE  Inductive'
<1>1. OutboxInv /\ TypeOK /\ PaidOnce /\ PaymentsAnnounced /\ AckedIsAccounted
      /\ RequestsSound /\ NoticesSound /\ IndexExact
  BY Parts DEF ShopInv
<1>2. /\ UNCHANGED <<outbox, active, pass, deaths, status, payments, sent, acked, customer>>
      /\ failures' = failures + 1 /\ astray' = (astray \/ request[r].own)
      /\ request' = [request EXCEPT ![r] = Free] /\ overtaken' = overtaken \ {r}
  BY DEF Fail, outboxVars, orderVars, gateVars
<1>3. /\ request' \in [Requests -> RequestStates] /\ request'[r] = Free
      /\ \A x \in Requests : x # r => request'[x] = request[x]
  BY <1>1, <1>2, FreeTyped, RequestMoved
<1>4. request[r].own \in BOOLEAN
  BY <1>1 DEF TypeOK, RequestStates
<1>5. OutboxInv'
  BY <1>1, <1>2 DEF OutboxInv, OutboxTypes, RowsSound, PassesSound, EndedRightly, HoldsSeen
<1>6. TypeOK'
  <2>1. failures' \in Nat /\ overtaken' \subseteq Requests /\ (astray \/ request[r].own) \in BOOLEAN
    BY <1>1, <1>2, <1>4 DEF TypeOK
  <2> QED
    BY <1>1, <1>2, <1>3, <2>1 DEF TypeOK
<1>7. PaidOnce' /\ PaymentsAnnounced' /\ AckedIsAccounted'
  BY <1>1, <1>2, StillPaidOnce, StillAnnounced DEF orderVars
<1>8. RequestsSound'
  <2>1. ASSUME NEW x \in Requests, x # r PROVE RequestSound(x)'
    BY <1>1, <1>2, <1>3, <2>1, OtherRequests DEF orderVars
  <2>2. RequestSound(r)'
    BY <1>3, FreeTyped DEF RequestSound
  <2> QED
    BY <2>1, <2>2 DEF RequestsSound
<1>9. NoticesSound'
  BY <1>1, <1>2, <1>3, FreeTyped DEF NoticesSound
<1>10. IndexExact'
  BY <1>1, <1>2, <1>3, <1>4 DEF IndexExact
<1> QED
  BY <1>5, <1>6, <1>7, <1>8, <1>9, <1>10 DEF Inductive, OutboxInv

--------------------------------------------------------------------------------
(* The commit of a change of status *)

\* What the commit does, said of the order it is about.
LEMMA CommitIs ==
  ASSUME Inductive, NEW r \in Requests, Commit(r)
  PROVE  \E o \in Orders, to \in Statuses :
            /\ status[o] # "none" /\ CanMove(status[o], to)
            /\ request[r].notice # NoNotice =>
                 request[r].notice = [order |-> o, status |-> to] /\ request[r].notice \in sent
            /\ status' = [status EXCEPT ![o] = to]
            /\ \A x \in Orders : Rows(x)' = IF x = o /\ to = "paid" THEN Rows(x) + 1 ELSE Rows(x)
            /\ payments' \in [Orders -> [Methods -> Nat]]
            /\ outbox' = Emitted(o, EventsOf(to))
            /\ UNCHANGED <<active, pass, deaths, sent, acked, customer, astray, failures>>
            /\ overtaken' = overtaken \cup {x \in Requests : request[x].pc = "scanned"}
<1>1. TypeOK /\ RequestsSound /\ NoticesSound
  BY DEF Inductive
<1>0. PICK o \in Orders, to \in Statuses : o = request[r].order /\ to = request[r].to
  BY <1>1, MovesOfMoney DEF RequestsSound, RequestSound, Commit
<1> DEFINE method == IF request[r].notice # NoNotice THEN "gateway" ELSE "other"
<1>2. /\ request[r].pc = "read" /\ status[o] = request[r].from
      /\ status' = [status EXCEPT ![o] = to]
      /\ payments' = IF to = "paid" THEN Paid(r) ELSE payments
      /\ outbox' = Emitted(o, EventsOf(to))
      /\ UNCHANGED <<active, pass, deaths, sent, acked, customer, astray, failures>>
      /\ overtaken' = overtaken \cup {x \in Requests : request[x].pc = "scanned"}
  BY <1>0 DEF Commit, StillAsRead, gateVars, Overtake
<1>3. /\ o \in Orders /\ status[o] # "none" /\ CanMove(status[o], to)
      /\ request[r].notice # NoNotice => request[r].notice = [order |-> o, status |-> to]
      /\ request[r].notice # NoNotice => request[r].notice \in sent
  BY <1>0, <1>1, <1>2 DEF RequestsSound, RequestSound, NoticesSound
<1>4. payments' \in [Orders -> [Methods -> Nat]]
      /\ \A x \in Orders : Rows(x)' = IF x = o /\ to = "paid" THEN Rows(x) + 1 ELSE Rows(x)
  <2>1. payments \in [Orders -> [Methods -> Nat]] /\ method \in Methods
    BY <1>1 DEF TypeOK, Methods
  <2>2. CASE to # "paid"
    BY <1>2, <2>1, <2>2 DEF Rows
  <2>3. CASE to = "paid"
    <3>1. payments' = [payments EXCEPT ![o][method] = @ + 1]
      BY <1>0, <1>2, <2>3 DEF Paid
    <3> HIDE DEF method
    <3>2. \A x \in Orders : payments[x] \in [Methods -> Nat]
      BY <2>1
    <3>3. /\ payments' \in [Orders -> [Methods -> Nat]]
          /\ \A x \in Orders : x # o => payments'[x] = payments[x]
          /\ payments'[o] = [payments[o] EXCEPT ![method] = @ + 1]
      BY <1>3, <2>1, <3>1, <3>2
    <3>4. Rows(o)' = Rows(o) + 1
      BY <1>3, <2>1, <3>2, <3>3 DEF Rows, Methods
    <3>5. \A x \in Orders : x # o => Rows(x)' = Rows(x)
      BY <3>3 DEF Rows
    <3> QED
      BY <2>3, <3>3, <3>4, <3>5
  <2> QED
    BY <2>2, <2>3
<1> QED
  BY <1>2, <1>3, <1>4

LEMMA CommitKeeps ==
  ASSUME Inductive, NEW r \in Requests, Commit(r)
  PROVE  Inductive'
<1> DEFINE q == [Free EXCEPT !.pc = "committed", !.notice = request[r].notice, !.own = TRUE]
<1>1. OutboxInv /\ TypeOK /\ PaidOnce /\ PaymentsAnnounced /\ AckedIsAccounted
      /\ RequestsSound /\ NoticesSound /\ IndexExact
  BY Parts DEF ShopInv
<1>2. PICK o \in Orders, to \in Statuses :
      /\ status[o] # "none" /\ CanMove(status[o], to)
      /\ request[r].notice # NoNotice =>
           request[r].notice = [order |-> o, status |-> to] /\ request[r].notice \in sent
      /\ status' = [status EXCEPT ![o] = to]
      /\ \A x \in Orders : Rows(x)' = IF x = o /\ to = "paid" THEN Rows(x) + 1 ELSE Rows(x)
      /\ payments' \in [Orders -> [Methods -> Nat]]
      /\ outbox' = Emitted(o, EventsOf(to))
      /\ UNCHANGED <<active, pass, deaths, sent, acked, customer, astray, failures>>
      /\ overtaken' = overtaken \cup {x \in Requests : request[x].pc = "scanned"}
  BY CommitIs
<1>3. q \in RequestStates /\ q.pc = "committed" /\ q.notice = request[r].notice /\ q.own = TRUE
      /\ request' = [request EXCEPT ![r] = q]
  BY <1>1, FreeTyped DEF Commit, RequestStates, TypeOK
<1> HIDE DEF q
<1>4. /\ request' \in [Requests -> RequestStates] /\ request'[r] = q
      /\ \A x \in Requests : x # r => request'[x] = request[x]
  BY <1>1, <1>3, RequestMoved
<1>5. /\ to \in Statuses /\ to # "pending" /\ status[o] \in Statuses
      /\ to = "paid" <=> status[o] = "pending" /\ to # "cancelled"
      /\ to = "refunded" => status[o] \in {"paid", "fulfilled"}
      /\ to = "fulfilled" => status[o] = "paid"
      /\ to = "cancelled" => status[o] \in {"pending", "paid"}
  BY <1>2, MovesOfMoney
<1>6. /\ status' \in [Orders -> Statuses \cup {"none"}] /\ status'[o] = to
      /\ \A x \in Orders : x # o => status'[x] = status[x]
  BY <1>1, <1>2, <1>5 DEF TypeOK
<1>7. EventsOf(to) \subseteq EventTypes /\ ("order.paid" \in EventsOf(to) <=> to = "paid")
  BY DEF EventsOf, EventTypes
<1>8. /\ OutboxInv' /\ DOMAIN outbox \subseteq DOMAIN outbox'
      /\ \A e \in DOMAIN outbox' \ DOMAIN outbox :
           /\ active /\ e.order = o /\ e.type \in EventsOf(to) \cap Subscribed
           /\ e.created = Cardinality(DOMAIN outbox)
      /\ \A t \in EventsOf(to) \cap Subscribed : active =>
           \E e \in DOMAIN outbox' : e.order = o /\ e.type = t
  BY <1>1, <1>2, <1>7, EmittedKeeps
<1>9. TypeOK'
  BY <1>1, <1>2, <1>4, <1>6 DEF TypeOK
<1>10. \A x \in Orders : Rows(x) \in Nat
  BY <1>1 DEF TypeOK, Rows, Methods
<1>11. Rows(o) = IF status[o] = "pending" THEN 0 ELSE Rows(o)
  BY <1>1, <1>2 DEF PaidOnce
<1>12. PaidOnce'
  <2>1. ASSUME NEW x \in Orders, x # o
        PROVE  /\ status'[x] \in {"none", "pending"} => Rows(x)' = 0
               /\ status'[x] \in {"paid", "fulfilled", "refunded"} => Rows(x)' = 1
               /\ Rows(x)' <= 1
    BY <1>1, <1>2, <1>6, <2>1 DEF PaidOnce
  <2>2. CASE to = "paid"
    <3>1. Rows(o)' = 1
      BY <1>2, <1>5, <1>11, <2>2
    <3> QED
      BY <1>6, <2>1, <2>2, <3>1 DEF PaidOnce
  <2>3. CASE to # "paid"
    <3>1. Rows(o)' = Rows(o) /\ Rows(o) <= 1
          /\ (to \in {"fulfilled", "refunded"} => Rows(o) = 1)
      BY <1>1, <1>2, <1>5, <2>3 DEF PaidOnce
    <3>2. to \in {"fulfilled", "refunded", "cancelled"}
      BY <1>5, <2>3 DEF Statuses
    <3> QED
      BY <1>6, <2>1, <3>1, <3>2 DEF PaidOnce
  <2> QED
    BY <2>2, <2>3
<1>13. PaymentsAnnounced'
  <2>1. ASSUME NEW x \in Orders, x # o \/ to # "paid"
        PROVE  /\ Rows(x)' = Rows(x) /\ PaidRows(x)' = PaidRows(x)
    <3>1. \A e \in DOMAIN outbox' \ DOMAIN outbox : e.order # x \/ e.type # "order.paid"
      BY <1>7, <1>8, <2>1
    <3> QED
      BY <1>2, <1>8, <2>1, <3>1 DEF PaidRows
  <2>2. ASSUME to = "paid"
        PROVE  /\ \A e, f \in PaidRows(o)' : e = f
               /\ Rows(o)' = 1
               /\ active' /\ "order.paid" \in Subscribed => PaidRows(o)' # {}
    <3>1. Rows(o) = 0 /\ Rows(o)' = 1
      BY <1>2, <1>5, <1>11, <2>2
    <3>2. PaidRows(o) = {}
      BY <1>1, <1>2, <3>1 DEF PaymentsAnnounced
    <3>3. ASSUME NEW e \in PaidRows(o)', NEW f \in PaidRows(o)' PROVE e = f
      <4>1. /\ e \in DOMAIN outbox' \ DOMAIN outbox /\ f \in DOMAIN outbox' \ DOMAIN outbox
            /\ e.type = "order.paid" /\ f.type = "order.paid" /\ e.order = o /\ f.order = o
        BY <3>2, <3>3 DEF PaidRows
      <4>2. e.created = f.created
        BY <1>8, <4>1
      <4>3. e \in Events /\ f \in Events
        BY <1>8, <4>1 DEF OutboxInv, OutboxTypes
      <4> QED
        BY <4>1, <4>2, <4>3 DEF Events
    <3>4. active' /\ "order.paid" \in Subscribed => PaidRows(o)' # {}
      BY <1>2, <1>7, <1>8, <2>2 DEF PaidRows
    <3> QED
      BY <3>1, <3>3, <3>4
  <2>3. ASSUME NEW x \in Orders
        PROVE  /\ \A e, f \in PaidRows(x)' : e = f
               /\ PaidRows(x)' # {} => Rows(x)' = 1
               /\ active' /\ "order.paid" \in Subscribed /\ Rows(x)' = 1 => PaidRows(x)' # {}
    <3>1. CASE x = o /\ to = "paid"
      BY <2>2, <3>1
    <3>2. CASE x # o \/ to # "paid"
      BY <1>1, <1>2, <2>1, <3>2 DEF PaymentsAnnounced
    <3> QED
      BY <3>1, <3>2
  <2> QED
    BY <2>3 DEF PaymentsAnnounced
<1>14. AckedIsAccounted'
  <2>1. ASSUME NEW n \in acked, n.status = "paid"
        PROVE  n.order \in Others \/ Rows(n.order)' = 1 \/ status'[n.order] = "cancelled"
    <3> SUFFICES ASSUME n.order \notin Others
                 PROVE  Rows(n.order)' = 1 \/ status'[n.order] = "cancelled"
      OBVIOUS
    <3>1. n.order \in Orders /\ (Rows(n.order) = 1 \/ status[n.order] = "cancelled")
      BY <1>1, <2>1, SettlementAssumption DEF AckedIsAccounted, TypeOK, Notices
    <3>2. CASE n.order # o
      BY <1>2, <1>6, <3>1, <3>2
    <3>3. CASE n.order = o
      <4>1. status[o] # "cancelled"
        BY <1>2 DEF CanMove, Transitions
      <4>2. to # "paid"
        BY <1>5, <1>11, <3>1, <3>3, <4>1
      <4> QED
        BY <1>2, <3>1, <3>3, <4>1, <4>2
    <3> QED
      BY <3>2, <3>3
  <2> QED
    BY <1>2, <2>1 DEF AckedIsAccounted
<1>15. RequestsSound'
  <2>1. ASSUME NEW x \in Requests, x # r PROVE RequestSound(x)'
    <3>1. RequestSound(x) /\ request'[x] = request[x] /\ request[x] \in RequestStates
      BY <1>1, <1>4, <2>1 DEF RequestsSound, TypeOK
    <3>2. request[x].pc = "scanned" => x \in overtaken'
      BY <1>2
    <3>3. ASSUME request[x].pc = "read"
          PROVE  /\ status'[request[x].order] # "none"
                 /\ request[x].from # "pending" => status'[request[x].order] # "pending"
      BY <1>5, <1>6, <3>1, <3>3 DEF RequestSound, Statuses
    <3>4. ASSUME NEW n, n = request[x].notice, n # NoNotice, n.status = "paid",
                 request[x].pc \in {"committed", "scanned"}
          PROVE  Rows(n.order)' = 1
      <4>1. Rows(n.order) = 1
        BY <3>1, <3>4 DEF RequestSound
      <4>2. n.order \in Orders
        BY <3>1, <3>4 DEF RequestSound
      <4>3. ~(n.order = o /\ to = "paid")
        BY <1>5, <1>11, <4>1
      <4> QED
        BY <1>2, <4>1, <4>2, <4>3
    <3> QED
      BY <3>1, <3>2, <3>3, <3>4 DEF RequestSound
  <2>2. RequestSound(r)'
    <3>1. ASSUME NEW n, n = q.notice, n # NoNotice, n.status = "paid" PROVE Rows(n.order)' = 1
      <4>1. n.order = o /\ to = "paid"
        BY <1>2, <1>3, <3>1
      <4> QED
        BY <1>2, <1>5, <1>11, <4>1
    <3>2. q.notice # NoNotice => q.notice.order \in Orders
      BY <1>2, <1>3
    <3> QED
      BY <1>3, <1>4, <3>1, <3>2 DEF RequestSound
  <2> QED
    BY <2>1, <2>2 DEF RequestsSound
<1>16. NoticesSound'
  <2>1. \A n \in sent : n.order \in Orders => status[n.order] # "none"
    BY <1>1, SettlementAssumption DEF NoticesSound, TypeOK, Notices
  <2>2. \A n \in sent : n.order \in Orders => status'[n.order] # "none"
    BY <1>5, <1>6, <2>1 DEF Statuses
  <2> QED
    BY <1>1, <1>2, <1>3, <1>4, <2>2 DEF NoticesSound
<1>17. IndexExact'
  BY <1>3, <1>4 DEF IndexExact
<1> QED
  BY <1>8, <1>9, <1>12, <1>13, <1>14, <1>15, <1>16, <1>17 DEF Inductive, OutboxInv

--------------------------------------------------------------------------------
(* The invariant *)

LEMMA InitInductive == Init => Inductive
<1> SUFFICES ASSUME Init PROVE Inductive
  OBVIOUS
<1>1. OutboxInv
  BY OutboxStarts DEF Init
<1>2. TypeOK
  <2>1. request \in [Requests -> RequestStates] /\ payments \in [Orders -> [Methods -> Nat]]
    BY FreeTyped DEF Init
  <2>2. status \in [Orders -> Statuses \cup {"none"}] /\ customer \in [count : Int, spent : Int]
    BY DEF Init
  <2> QED
    BY <2>1, <2>2 DEF Init, TypeOK
<1>3. \A o \in Orders : Rows(o) = 0 /\ status[o] = "none" /\ PaidRows(o) = {}
  BY DEF Init, OutboxInit, Rows, PaidRows, Methods
<1>4. PaidOnce /\ PaymentsAnnounced /\ AckedIsAccounted
  BY <1>3 DEF PaidOnce, PaymentsAnnounced, AckedIsAccounted, Init
<1>5. \A r \in Requests : request[r] = Free
  BY DEF Init
<1>6. RequestsSound
  BY <1>5, FreeTyped DEF RequestsSound, RequestSound
<1>7. NoticesSound
  BY <1>5, FreeTyped DEF NoticesSound, Init
<1>8. IndexExact
  <2>1. {o \in Orders : status[o] # "none"} = {} /\ {o \in Orders : Spending(status[o])} = {}
    BY <1>3 DEF Spending
  <2>2. Totals(status) = [count |-> 0, spent |-> 0]
    BY <2>1, FS_EmptySet DEF Totals
  <2> QED
    BY <2>2 DEF IndexExact, Init
<1> QED
  BY <1>1, <1>2, <1>4, <1>6, <1>7, <1>8, Parts DEF ShopInv

LEMMA StepInductive == Inductive /\ [Next]_vars => Inductive'
<1> SUFFICES ASSUME Inductive, [Next]_vars PROVE Inductive'
  OBVIOUS
<1>1. CASE UNCHANGED vars
  <2>1. UNCHANGED <<outbox, active, pass, deaths>> /\ Aside
    BY <1>1 DEF vars, outboxVars, Aside, orderVars, gateVars, indexVars
  <2>2. OutboxInv'
    BY <2>1 DEF Inductive, OutboxInv, OutboxTypes, RowsSound, PassesSound, EndedRightly, HoldsSeen
  <2>3. PaymentsAnnounced'
    BY <2>1, StillAnnounced DEF Inductive, Aside, orderVars
  <2>4. RequestsSound'
    <3>1. ASSUME NEW x \in Requests PROVE RequestSound(x)'
      BY <2>1, OtherRequests DEF Inductive, Aside, indexVars
    <3> QED
      BY <3>1 DEF RequestsSound
  <2>5. TypeOK' /\ PaidOnce' /\ AckedIsAccounted' /\ NoticesSound' /\ IndexExact'
    BY <2>1, StillPaidOnce DEF Inductive, TypeOK, Aside, orderVars, gateVars, indexVars,
       NoticesSound, IndexExact
  <2> QED
    BY <2>2, <2>3, <2>4, <2>5 DEF Inductive, OutboxInv
<1>2. ASSUME NEW o \in Orders, Place(o) PROVE Inductive'
  BY <1>2, PlaceKeeps
<1>3. ASSUME NEW n \in Notices, Notify(n) PROVE Inductive'
  BY <1>3, NotifyKeeps
<1>4. ASSUME NEW r \in Requests, NEW o \in Orders, NEW to \in Statuses, Press(r, o, to)
      PROVE  Inductive'
  BY <1>4, PressKeeps
<1>5. ASSUME NEW r \in Requests, NEW n \in Notices, Receive(r, n) PROVE Inductive'
  BY <1>5, ReceiveKeeps
<1>6. ASSUME NEW r \in Requests, PressRebuild(r) \/ Fail(r) PROVE Inductive'
  BY <1>6, PressRebuildKeeps, FailKeeps
<1>7. ASSUME NEW r \in Requests, Handle(r) PROVE Inductive'
  BY <1>7, CommitKeeps, TooLateKeeps, ScanKeeps, WriteKeeps DEF Handle
<1>8. CASE Dispatch /\ Aside
  BY <1>8, DispatchKeeps
<1> QED
  BY <1>1, <1>2, <1>3, <1>4, <1>5, <1>6, <1>7, <1>8 DEF Next

\* The invariant that carries the others: the types, what requests and passes hold, and
\* the six below.
THEOREM Invariance == Spec => []Inductive
<1> QED
  BY InitInductive, StepInductive, PTL DEF Spec

\* A Payment is recorded once, whoever reports it, however many press at once and however
\* often the gateway repeats itself.
THEOREM PaidOnceHolds == Spec => []PaidOnce
<1>1. Inductive => PaidOnce
  BY DEF Inductive
<1> QED
  BY <1>1, Invariance, PTL

\* A Payment and its order.paid delivery exist together, one of each.
THEOREM PaymentsAnnouncedHolds == Spec => []PaymentsAnnounced
<1>1. Inductive => PaymentsAnnounced
  BY DEF Inductive
<1> QED
  BY <1>1, Invariance, PTL

\* Of a buy-now order that is paid the gateway has its answer only when the money is
\* recorded or the order was cancelled; of any other order it has it at once.
THEOREM AckedIsAccountedHolds == Spec => []AckedIsAccounted
<1>1. Inductive => AckedIsAccounted
  BY DEF Inductive
<1> QED
  BY <1>1, Invariance, PTL

\* The customers row is what the orders say, but for a rebuild under way, lost or overtaken.
THEOREM IndexExactHolds == Spec => []IndexExact
<1>1. Inductive => IndexExact
  BY DEF Inductive
<1> QED
  BY <1>1, Invariance, PTL

\* A delivery marked delivered was received, one given up was posted MaxAttempts times or
\* its endpoint is off, whatever passes overlap.
THEOREM EndedRightlyHolds == Spec => []EndedRightly
<1>1. Inductive => EndedRightly
  BY DEF Inductive
<1> QED
  BY <1>1, Invariance, PTL

--------------------------------------------------------------------------------
(* The ledger *)

Back == {o \in Orders : status[o] = "refunded"}
Told == {e.order : e \in {d \in DOMAIN outbox : d.type = "order.paid" /\ outbox[d].heard}}
Money == [o \in Orders |-> Rows(o)]

\* Steps that neither pay nor return nor tell.
LEMMA QuietStep ==
  ASSUME UNCHANGED orderVars, Told' = Told
  PROVE  UNCHANGED Promise!vars
BY DEF Promise!vars, orderVars, Told, Rows

\* Rows that are added have not been heard.
LEMMA EmittedUnheard ==
  ASSUME OutboxInv, NEW o \in Orders, NEW types \in SUBSET EventTypes,
         outbox' = Emitted(o, types), UNCHANGED <<active, pass, deaths>>
  PROVE  Told' = Told
<1>1. /\ DOMAIN outbox \subseteq DOMAIN outbox'
      /\ \A e \in DOMAIN outbox : outbox'[e] = outbox[e]
      /\ \A e \in DOMAIN outbox' \ DOMAIN outbox : ~outbox'[e].heard
  BY EmittedKeeps
<1>2. {d \in DOMAIN outbox' : d.type = "order.paid" /\ outbox'[d].heard}
        = {d \in DOMAIN outbox : d.type = "order.paid" /\ outbox[d].heard}
  BY <1>1
<1> QED
  BY <1>2 DEF Told

\* A post tells at most one order's payment, which is recorded.
LEMMA PostTells ==
  ASSUME Inductive, NEW p \in Passes, Post(p), UNCHANGED orderVars
  PROVE  UNCHANGED Promise!vars \/ \E o \in Orders : Promise!Hear(o)
<1>1. OutboxInv /\ PaymentsAnnounced
  BY Parts DEF ShopInv
<1>2. PICK e \in DOMAIN outbox :
        /\ DOMAIN outbox' = DOMAIN outbox
        /\ \A f \in DOMAIN outbox : f # e => outbox'[f] = outbox[f]
        /\ outbox[e].heard => outbox'[e].heard
  BY <1>1, PostKeeps
<1>3. CASE e.type = "order.paid" /\ outbox'[e].heard
  <2>1. e.order \in Orders
    BY <1>1 DEF OutboxInv, OutboxTypes, Events
  <2>2. Told' = Told \cup {e.order}
    BY <1>2, <1>3 DEF Told
  <2>3. e \in PaidRows(e.order)
    BY <1>3 DEF PaidRows
  <2>4. Rows(e.order) = 1
    BY <1>1, <2>1, <2>3 DEF PaymentsAnnounced
  <2>5. Promise!Hear(e.order)
    BY <2>1, <2>2, <2>4 DEF Promise!Hear, orderVars, Told, Rows
  <2> QED
    BY <2>1, <2>5
<1>4. CASE ~(e.type = "order.paid" /\ outbox'[e].heard)
  <2>1. Told' = Told
    BY <1>2, <1>4 DEF Told
  <2> QED
    BY <2>1, QuietStep
<1> QED
  BY <1>3, <1>4

\* The commit pays, returns or does neither.
LEMMA CommitPays ==
  ASSUME Inductive, NEW r \in Requests, Commit(r)
  PROVE  UNCHANGED Promise!vars \/ \E o \in Orders : Promise!Pay(o) \/ Promise!Return(o)
<1>1. OutboxInv /\ TypeOK /\ PaidOnce
  BY Parts DEF ShopInv
<1>2. PICK o \in Orders, to \in Statuses :
      /\ CanMove(status[o], to)
      /\ status' = [status EXCEPT ![o] = to]
      /\ \A x \in Orders : Rows(x)' = IF x = o /\ to = "paid" THEN Rows(x) + 1 ELSE Rows(x)
      /\ outbox' = Emitted(o, EventsOf(to))
      /\ UNCHANGED <<active, pass, deaths>>
  BY CommitIs
<1>3. Told' = Told
  <2>1. EventsOf(to) \subseteq EventTypes
    BY DEF EventsOf, EventTypes
  <2> QED
    BY <1>1, <1>2, <2>1, EmittedUnheard
<1>4. /\ status'[o] = to /\ (\A x \in Orders : x # o => status'[x] = status[x])
  BY <1>1, <1>2 DEF TypeOK
<1>5. status[o] \notin {"cancelled", "refunded"}
  BY <1>2 DEF CanMove, Transitions
<1>6. CASE to = "paid"
  <2>1. status[o] = "pending" /\ Rows(o) = 0
    <3>1. status[o] = "pending"
      BY <1>2, <1>6, MovesOfMoney
    <3> QED
      BY <1>1, <3>1 DEF PaidOnce
  <2>2. Money' = [Money EXCEPT ![o] = 1] /\ Money[o] = 0
    <3>1. \A x \in Orders : Rows(x)' = IF x = o THEN 1 ELSE Rows(x)
      BY <1>2, <1>6, <2>1
    <3>2. Money' = [x \in Orders |-> Rows(x)']
      BY DEF Money
    <3> QED
      BY <2>1, <3>1, <3>2 DEF Money
  <2>3. Back' = Back
    BY <1>4, <1>6, <2>1 DEF Back
  <2>4. Promise!Pay(o)
    BY <1>3, <2>2, <2>3 DEF Promise!Pay, Money, Back, Told
  <2> QED
    BY <2>4
<1>7. CASE to = "refunded"
  <2>1. status[o] \in {"paid", "fulfilled"} /\ Rows(o) = 1
    <3>1. status[o] \in {"paid", "fulfilled"}
      BY <1>2, <1>7, MovesOfMoney
    <3> QED
      BY <1>1, <3>1 DEF PaidOnce
  <2>2. Money' = Money /\ Money[o] = 1
    BY <1>2, <1>7, <2>1 DEF Money
  <2>3. Back' = Back \cup {o} /\ o \notin Back
    BY <1>4, <1>7, <2>1 DEF Back
  <2>4. Promise!Return(o)
    BY <1>3, <2>2, <2>3 DEF Promise!Return, Money, Back, Told
  <2> QED
    BY <2>4
<1>8. CASE to \notin {"paid", "refunded"}
  <2>1. Money' = Money
    BY <1>2, <1>8 DEF Money
  <2>2. Back' = Back
    BY <1>4, <1>5, <1>8 DEF Back
  <2> QED
    BY <1>3, <2>1, <2>2 DEF Promise!vars, Money, Back, Told
<1> QED
  BY <1>6, <1>7, <1>8

\* Settlement keeps the ledger: every step of orders, requests and the outbox is a payment,
\* a return, an answer of the endpoint, or nothing to the ledger.
THEOREM KeepsTheLedger == Spec => LedgerKept
<1>1. Init => Promise!Init
  <2> SUFFICES ASSUME Init PROVE Promise!Init
    OBVIOUS
  <2>1. \A o \in Orders : Rows(o) = 0 /\ status[o] = "none"
    BY DEF Init, Rows, Methods
  <2>2. DOMAIN outbox = {}
    BY DEF Init, OutboxInit
  <2> QED
    BY <2>1, <2>2 DEF Promise!Init
<1>2. Inductive /\ [Next]_vars => [Promise!Next]_(Promise!vars)
  <2> SUFFICES ASSUME Inductive, [Next]_vars PROVE [Promise!Next]_(Promise!vars)
    OBVIOUS
  <2>1. OutboxInv /\ TypeOK
    BY Parts DEF ShopInv
  <2>2. CASE UNCHANGED <<orderVars, outbox>>
    BY <2>2, QuietStep DEF Told
  <2>3. CASE UNCHANGED vars
    BY <2>2, <2>3 DEF vars, outboxVars, orderVars
  <2>4. ASSUME NEW o \in Orders, Place(o) PROVE UNCHANGED Promise!vars
    <3>1. /\ UNCHANGED <<active, pass, deaths, payments>> /\ status[o] = "none"
          /\ status' = [status EXCEPT ![o] = "pending"] /\ outbox' = Emitted(o, {"order.placed"})
      BY <2>4 DEF Place
    <3>2. Told' = Told
      BY <2>1, <3>1, EmittedUnheard DEF EventTypes
    <3>3. Back' = Back
      BY <2>1, <3>1 DEF Back, TypeOK
    <3>4. Money' = Money
      BY <3>1 DEF Money, Rows
    <3> QED
      BY <3>2, <3>3, <3>4 DEF Promise!vars, Money, Back, Told
  <2>5. ASSUME NEW n \in Notices, Notify(n) PROVE [Promise!Next]_(Promise!vars)
    BY <2>2, <2>5 DEF Notify, outboxVars
  <2>6. ASSUME NEW r \in Requests, NEW o \in Orders, NEW to \in Statuses, Press(r, o, to)
        PROVE  [Promise!Next]_(Promise!vars)
    BY <2>2, <2>6 DEF Press, outboxVars
  <2>7. ASSUME NEW r \in Requests, NEW n \in Notices, Receive(r, n)
        PROVE  [Promise!Next]_(Promise!vars)
    BY <2>2, <2>7 DEF Receive, outboxVars
  <2>8. ASSUME NEW r \in Requests,
               PressRebuild(r) \/ Fail(r) \/ TooLate(r) \/ Scan(r) \/ Write(r)
        PROVE  [Promise!Next]_(Promise!vars)
    BY <2>2, <2>8 DEF PressRebuild, Fail, TooLate, Scan, Write, outboxVars
  <2>9. ASSUME NEW r \in Requests, Commit(r) PROVE [Promise!Next]_(Promise!vars)
    BY <2>9, CommitPays DEF Promise!Next
  <2>10. ASSUME Aside, NEW p \in Passes, Post(p) PROVE [Promise!Next]_(Promise!vars)
    BY <2>10, PostTells DEF Promise!Next, Aside
  <2>11. ASSUME Aside, NEW p \in Passes, BeginPass(p) \/ Die(p) PROVE [Promise!Next]_(Promise!vars)
    BY <2>2, <2>11 DEF BeginPass, Die, Aside
  <2>12. ASSUME DOMAIN outbox' = DOMAIN outbox,
                \A e \in DOMAIN outbox : outbox'[e].heard = outbox[e].heard, Aside
         PROVE  UNCHANGED Promise!vars
    <3>1. {d \in DOMAIN outbox' : d.type = "order.paid" /\ outbox'[d].heard}
            = {d \in DOMAIN outbox : d.type = "order.paid" /\ outbox[d].heard}
      BY <2>12
    <3>2. Told' = Told
      BY <3>1 DEF Told
    <3> QED
      BY <2>12, <3>2, QuietStep DEF Aside
  <2>13. ASSUME Aside, NEW p \in Passes, GiveUp(p) \/ Record(p) PROVE UNCHANGED Promise!vars
    BY <2>1, <2>12, <2>13, GiveUpKeeps, RecordKeeps
  <2>14. ASSUME Aside, NEW e \in DOMAIN outbox, Ripen(e) PROVE UNCHANGED Promise!vars
    BY <2>1, <2>12, <2>14, RipenKeeps
  <2>15. CASE Aside /\ SwitchOff
    BY <2>2, <2>15 DEF SwitchOff, Aside
  <2> QED
    BY <2>3, <2>4, <2>5, <2>6, <2>7, <2>8, <2>9, <2>10, <2>11, <2>13, <2>14, <2>15
       DEF Next, Handle, Dispatch
<1> QED
  BY <1>1, <1>2, Invariance, PTL DEF Spec, LedgerKept, Promise!Spec
================================================================================
