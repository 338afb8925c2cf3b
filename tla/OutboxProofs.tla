------------------------------ MODULE OutboxProofs ------------------------------
(***************************************************************************)
(* Proofs about the outbox, for every number of passes, every subscription *)
(* and every limit: what holds of the deliveries whoever adds rows.        *)
(***************************************************************************)
EXTENDS Outbox, FiniteSetTheorems, TLAPS

OutboxInv == OutboxTypes /\ RowsSound /\ PassesSound /\ EndedRightly

\* What one pass writes leaves what the others hold true: an event keeps its row, the
\* row's counts only grow, and an endpoint that is off stays off.
Grown ==
  /\ DOMAIN outbox \subseteq DOMAIN outbox'
  /\ \A e \in DOMAIN outbox : outbox[e].sent <= outbox'[e].sent
                              /\ (outbox[e].heard => outbox'[e].heard)
                              /\ outbox'[e].sent \in Nat
  /\ active' => active

LEMMA HeldStays ==
  ASSUME OutboxTypes, Grown, NEW t, HoldsSeen(t)
  PROVE  HoldsSeen(t)'
<1>1. t.event \in DOMAIN outbox /\ t \in Entries
  BY DEF HoldsSeen
<1>2. t.attempts \in Nat /\ outbox[t.event].sent \in Nat /\ outbox'[t.event].sent \in Nat
  BY <1>1 DEF OutboxTypes, Deliveries, Entries, Grown
<1>3. t.attempts <= outbox'[t.event].sent
  BY <1>1, <1>2 DEF Grown, HoldsSeen
<1>4. active \in BOOLEAN
  BY DEF OutboxTypes
<1> QED
  BY <1>1, <1>3, <1>4 DEF Grown, HoldsSeen

\* A pass that is not the one that moved.
LEMMA OthersSound ==
  ASSUME OutboxTypes, PassesSound, Grown, NEW q \in Passes, pass'[q] = pass[q]
  PROVE  /\ \A t \in pass'[q].todo : HoldsSeen(t)'
         /\ pass'[q].answer # "none" =>
              /\ HoldsSeen(pass[q].now)'
              /\ pass'[q].now.attempts < outbox'[pass'[q].now.event].sent
              /\ pass'[q].answer = "ok" => outbox'[pass'[q].now.event].heard
<1>1. \A t \in pass[q].todo : HoldsSeen(t)'
  BY HeldStays DEF PassesSound
<1>2. ASSUME pass[q].answer # "none"
      PROVE  /\ HoldsSeen(pass[q].now)'
             /\ pass[q].now.attempts < outbox'[pass[q].now.event].sent
             /\ pass[q].answer = "ok" => outbox'[pass[q].now.event].heard
  <2> DEFINE now == pass[q].now
  <2>1. HoldsSeen(now) /\ now.attempts < outbox[now.event].sent
        /\ (pass[q].answer = "ok" => outbox[now.event].heard)
    BY <1>2 DEF PassesSound
  <2>2. now.event \in DOMAIN outbox /\ now.attempts \in Nat
        /\ outbox[now.event].sent \in Nat /\ outbox'[now.event].sent \in Nat
    BY <2>1 DEF HoldsSeen, Entries, OutboxTypes, Deliveries, Grown
  <2>3. HoldsSeen(now)'
    BY <2>1, HeldStays
  <2> QED
    BY <2>1, <2>2, <2>3 DEF Grown
<1> QED
  BY <1>1, <1>2

\* A row written anew has its type if what is written has.
LEMMA RowWritten ==
  ASSUME OutboxTypes, NEW e \in DOMAIN outbox, NEW row \in Deliveries,
         outbox' = [outbox EXCEPT ![e] = row], UNCHANGED <<active, deaths>>,
         pass' \in [Passes -> [todo : SUBSET Entries, now : Entries \cup {Nothing},
                               answer : {"none", "ok", "bad"}]]
  PROVE  /\ OutboxTypes'
         /\ DOMAIN outbox' = DOMAIN outbox
         /\ outbox'[e] = row
         /\ \A f \in DOMAIN outbox : f # e => outbox'[f] = outbox[f]
<1>1. DOMAIN outbox' = DOMAIN outbox /\ outbox'[e] = row
      /\ \A f \in DOMAIN outbox : f # e => outbox'[f] = outbox[f]
  BY DEF OutboxTypes
<1>2. outbox' = [f \in DOMAIN outbox' |-> outbox'[f]]
  BY DEF OutboxTypes
<1> QED
  BY <1>1, <1>2 DEF OutboxTypes

PassStates == [todo : SUBSET Entries, now : Entries \cup {Nothing},
               answer : {"none", "ok", "bad"}]

LEMMA IdleTyped == Idle \in PassStates
BY DEF Idle, PassStates

\* A pass that was given a new state.
LEMMA PassMoved ==
  ASSUME OutboxTypes, NEW p \in Passes, NEW s \in PassStates, pass' = [pass EXCEPT ![p] = s]
  PROVE  /\ pass' \in [Passes -> PassStates]
         /\ pass'[p] = s
         /\ \A q \in Passes : q # p => pass'[q] = pass[q]
BY DEF OutboxTypes, PassStates

--------------------------------------------------------------------------------
(* The dispatcher *)

LEMMA BeginKeeps ==
  ASSUME OutboxInv, NEW p \in Passes, BeginPass(p)
  PROVE  OutboxInv' /\ outbox' = outbox
<1> DEFINE held(taken) == {[event |-> e, attempts |-> outbox[e].attempts, on |-> active] : e \in taken}
<1>1. PICK taken \in SUBSET Due : pass' = [pass EXCEPT ![p].todo = held(taken)]
  BY DEF BeginPass
<1>2. OutboxTypes /\ RowsSound /\ PassesSound /\ EndedRightly
        /\ UNCHANGED <<outbox, active, deaths>> /\ pass[p] = Idle
  BY DEF OutboxInv, BeginPass
<1>3. \A t \in held(taken) : HoldsSeen(t)
  <2> SUFFICES ASSUME NEW e \in taken
               PROVE  HoldsSeen([event |-> e, attempts |-> outbox[e].attempts, on |-> active])
    OBVIOUS
  <2>1. e \in DOMAIN outbox /\ e \in Events /\ outbox[e] \in Deliveries /\ outbox[e].status = "pending"
    BY <1>2 DEF Due, OutboxTypes
  <2>2. outbox[e].attempts < MaxAttempts /\ outbox[e].attempts <= outbox[e].sent
    BY <1>2, <2>1 DEF RowsSound
  <2>3. outbox[e].attempts \in Nat /\ active \in BOOLEAN
    BY <1>2, <2>1 DEF OutboxTypes, Deliveries
  <2> QED
    BY <2>1, <2>2, <2>3 DEF HoldsSeen, Entries
<1>4. held(taken) \subseteq Entries
  BY <1>3 DEF HoldsSeen
<1>5. [pass[p] EXCEPT !.todo = held(taken)] \in PassStates
  BY <1>2, <1>4 DEF Idle, PassStates
<1>6. /\ pass' = [pass EXCEPT ![p] = [pass[p] EXCEPT !.todo = held(taken)]]
      /\ [pass[p] EXCEPT !.todo = held(taken)].todo = held(taken)
      /\ [pass[p] EXCEPT !.todo = held(taken)].answer = "none"
  BY <1>1, <1>2 DEF Idle, OutboxTypes
<1> HIDE DEF held
<1>7. /\ pass' \in [Passes -> PassStates]
      /\ pass'[p].todo = held(taken) /\ pass'[p].answer = "none"
      /\ \A q \in Passes : q # p => pass'[q] = pass[q]
  BY <1>2, <1>5, <1>6, PassMoved
<1>8. PassesSound'
  BY <1>2, <1>3, <1>7 DEF PassesSound, HoldsSeen
<1> QED
  BY <1>2, <1>7, <1>8 DEF OutboxInv, OutboxTypes, RowsSound, EndedRightly, PassStates

LEMMA GiveUpKeeps ==
  ASSUME OutboxInv, NEW p \in Passes, GiveUp(p)
  PROVE  /\ OutboxInv' /\ active' = active /\ DOMAIN outbox' = DOMAIN outbox
         /\ \A e \in DOMAIN outbox : outbox'[e].heard = outbox[e].heard
<1>1. PICK t \in pass[p].todo :
        /\ ~t.on
        /\ outbox' = [outbox EXCEPT ![t.event].status = "dead"]
        /\ pass' = [pass EXCEPT ![p].todo = @ \ {t}]
  BY DEF GiveUp
<1>2. OutboxTypes /\ RowsSound /\ PassesSound /\ EndedRightly /\ UNCHANGED <<active, deaths>>
      /\ pass[p].answer = "none"
  BY DEF OutboxInv, GiveUp
<1>3. HoldsSeen(t) /\ t.event \in DOMAIN outbox /\ ~active
  BY <1>1, <1>2 DEF PassesSound, HoldsSeen
<1> DEFINE e == t.event
           row == [outbox[e] EXCEPT !.status = "dead"]
<1>4. outbox[e] \in Deliveries
  BY <1>2, <1>3 DEF OutboxTypes
<1>5. /\ row \in Deliveries /\ outbox' = [outbox EXCEPT ![e] = row]
      /\ row.status = "dead" /\ row.sent = outbox[e].sent /\ row.heard = outbox[e].heard
      /\ row.attempts = outbox[e].attempts
  BY <1>1, <1>4 DEF Deliveries
<1>6. pass[p] \in PassStates
  BY <1>2 DEF OutboxTypes, PassStates
<1>7. /\ [pass[p] EXCEPT !.todo = @ \ {t}] \in PassStates
      /\ pass' = [pass EXCEPT ![p] = [pass[p] EXCEPT !.todo = @ \ {t}]]
      /\ [pass[p] EXCEPT !.todo = @ \ {t}].todo \subseteq pass[p].todo
      /\ [pass[p] EXCEPT !.todo = @ \ {t}].answer = "none"
  BY <1>1, <1>2, <1>6 DEF PassStates
<1>8. /\ pass' \in [Passes -> PassStates]
      /\ pass'[p].todo \subseteq pass[p].todo /\ pass'[p].answer = "none"
      /\ \A q \in Passes : q # p => pass'[q] = pass[q]
  BY <1>2, <1>7, PassMoved
<1> HIDE DEF row, e
<1>9. /\ OutboxTypes' /\ DOMAIN outbox' = DOMAIN outbox /\ outbox'[e] = row
      /\ \A f \in DOMAIN outbox : f # e => outbox'[f] = outbox[f]
  BY <1>2, <1>3, <1>5, <1>8, RowWritten DEF PassStates, e
<1>10. Grown
  <2>1. \A f \in DOMAIN outbox : outbox[f].sent \in Nat
    BY <1>2 DEF OutboxTypes, Deliveries
  <2> QED
    BY <1>2, <1>5, <1>9, <2>1 DEF Grown
<1>11. PassesSound'
  <2>1. \A q \in Passes \ {p} : pass'[q] = pass[q]
    BY <1>8
  <2>2. \A x \in pass'[p].todo : HoldsSeen(x)'
    BY <1>2, <1>8, <1>10, HeldStays DEF PassesSound
  <2> QED
    BY <1>2, <1>8, <1>10, <2>1, <2>2, OthersSound DEF PassesSound
<1>12. RowsSound' /\ EndedRightly'
  BY <1>2, <1>3, <1>5, <1>9 DEF RowsSound, EndedRightly
<1> QED
  BY <1>2, <1>5, <1>9, <1>11, <1>12 DEF OutboxInv

LEMMA PostKeeps ==
  ASSUME OutboxInv, NEW p \in Passes, Post(p)
  PROVE  /\ OutboxInv' /\ active' = active /\ DOMAIN outbox' = DOMAIN outbox
         /\ \E e \in DOMAIN outbox :
              /\ \A f \in DOMAIN outbox : f # e => outbox'[f] = outbox[f]
              /\ outbox[e].heard => outbox'[e].heard
<1>1. PICK t \in pass[p].todo, answer \in {"ok", "bad"}, got \in BOOLEAN :
        /\ t.on
        /\ answer = "ok" => got
        /\ pass' = [pass EXCEPT ![p] = [todo |-> @.todo \ {t}, now |-> t, answer |-> answer]]
        /\ outbox' = [outbox EXCEPT
             ![t.event].sent = IF @ < MaxAttempts THEN @ + 1 ELSE @,
             ![t.event].heard = @ \/ got]
  BY DEF Post
<1>2. OutboxTypes /\ RowsSound /\ PassesSound /\ EndedRightly /\ UNCHANGED <<active, deaths>>
  BY DEF OutboxInv, Post
<1>3. HoldsSeen(t) /\ t.event \in DOMAIN outbox /\ t \in Entries
  BY <1>1, <1>2 DEF PassesSound, HoldsSeen
<1> DEFINE e == t.event
           more == IF outbox[e].sent < MaxAttempts THEN outbox[e].sent + 1 ELSE outbox[e].sent
           row == [outbox[e] EXCEPT !.sent = more, !.heard = outbox[e].heard \/ got]
<1>4. outbox[e] \in Deliveries /\ MaxAttempts \in Nat
  BY <1>2, <1>3, OutboxAssumption DEF OutboxTypes
<1>5. more \in Nat /\ outbox[e].sent <= more /\ t.attempts < more /\ more <= MaxAttempts
      /\ outbox[e].attempts <= more
  <2>1. outbox[e].sent \in Nat /\ outbox[e].attempts \in Nat /\ t.attempts \in Nat
    BY <1>3, <1>4 DEF Deliveries, Entries
  <2>2. t.attempts < MaxAttempts /\ t.attempts <= outbox[e].sent
        /\ outbox[e].attempts <= outbox[e].sent /\ outbox[e].sent <= MaxAttempts
    BY <1>2, <1>3 DEF HoldsSeen, RowsSound
  <2> QED
    BY <1>4, <2>1, <2>2
<1>6. outbox[e].sent = MaxAttempts => more = MaxAttempts
  BY <1>4 DEF Deliveries
<1>7. (outbox[e].heard \/ got) \in BOOLEAN
  BY <1>4 DEF Deliveries
<1> HIDE DEF more, e
<1>8. /\ row \in Deliveries /\ outbox' = [outbox EXCEPT ![e] = row]
      /\ row.status = outbox[e].status /\ row.sent = more /\ row.attempts = outbox[e].attempts
      /\ outbox[e].heard => row.heard
      /\ got => row.heard
  <2>1. outbox' = [outbox EXCEPT ![e].sent = more, ![e].heard = @ \/ got]
    BY <1>1, <1>2, <1>3 DEF more, e, OutboxTypes
  <2> QED
    BY <1>2, <1>3, <1>4, <1>5, <1>7, <2>1 DEF Deliveries, OutboxTypes, e
<1> DEFINE s == [todo |-> pass[p].todo \ {t}, now |-> t, answer |-> answer]
<1>9. /\ s \in PassStates /\ pass' = [pass EXCEPT ![p] = s]
  BY <1>1, <1>2, <1>3 DEF OutboxTypes, PassStates
<1>10. /\ pass' \in [Passes -> PassStates] /\ pass'[p] = s
       /\ \A q \in Passes : q # p => pass'[q] = pass[q]
  <2> HIDE DEF s
  <2> QED
    BY <1>2, <1>9, PassMoved
<1> HIDE DEF row
<1>11. /\ OutboxTypes' /\ DOMAIN outbox' = DOMAIN outbox /\ outbox'[e] = row
       /\ \A f \in DOMAIN outbox : f # e => outbox'[f] = outbox[f]
  BY <1>2, <1>3, <1>8, <1>10, RowWritten DEF PassStates, e
<1>12. Grown
  <2>1. \A f \in DOMAIN outbox : outbox[f].sent \in Nat
    BY <1>2 DEF OutboxTypes, Deliveries
  <2> QED
    BY <1>2, <1>5, <1>8, <1>11, <2>1 DEF Grown
<1>13. PassesSound'
  <2>1. \A q \in Passes \ {p} : pass'[q] = pass[q]
    BY <1>10
  <2>2. \A x \in pass'[p].todo : HoldsSeen(x)'
    BY <1>2, <1>10, <1>12, HeldStays DEF PassesSound
  <2>3. HoldsSeen(t)' /\ t.attempts < outbox'[e].sent /\ (answer = "ok" => outbox'[e].heard)
    BY <1>1, <1>2, <1>3, <1>5, <1>8, <1>11, <1>12, HeldStays
  <2>4. pass'[p].now = t /\ pass'[p].answer = answer
    BY <1>10
  <2> QED
    BY <1>2, <1>10, <1>12, <2>1, <2>2, <2>3, <2>4, OthersSound DEF PassesSound, HoldsSeen, e
<1>14. RowsSound' /\ EndedRightly'
  BY <1>2, <1>3, <1>4, <1>5, <1>6, <1>8, <1>11 DEF RowsSound, EndedRightly, e, Deliveries
<1> QED
  BY <1>2, <1>3, <1>8, <1>11, <1>13, <1>14 DEF OutboxInv, e

LEMMA RecordKeeps ==
  ASSUME OutboxInv, NEW p \in Passes, Record(p)
  PROVE  /\ OutboxInv' /\ active' = active /\ DOMAIN outbox' = DOMAIN outbox
         /\ \A e \in DOMAIN outbox : outbox'[e].heard = outbox[e].heard
<1> DEFINE t == pass[p].now
           e == t.event
           n == t.attempts + 1
           row == IF pass[p].answer = "ok"
                  THEN [outbox[e] EXCEPT !.status = "delivered", !.attempts = n]
                  ELSE Retried(outbox[e], n)
<1>1. OutboxTypes /\ RowsSound /\ PassesSound /\ EndedRightly /\ UNCHANGED <<active, deaths>>
  BY DEF OutboxInv, Record
<1>2. /\ pass[p].answer # "none"
      /\ outbox' = [outbox EXCEPT ![e] = row]
      /\ pass' = [pass EXCEPT ![p].now = Nothing, ![p].answer = "none"]
  BY <1>1 DEF Record, OutboxTypes
<1>3. /\ HoldsSeen(t) /\ e \in DOMAIN outbox /\ t \in Entries
      /\ t.attempts < outbox[e].sent /\ (pass[p].answer = "ok" => outbox[e].heard)
  BY <1>1, <1>2 DEF PassesSound, HoldsSeen
<1>4. outbox[e] \in Deliveries /\ MaxAttempts \in Nat
  BY <1>1, <1>3, OutboxAssumption DEF OutboxTypes
<1>5. n \in Nat /\ n <= outbox[e].sent /\ outbox[e].sent <= MaxAttempts
  BY <1>1, <1>3, <1>4 DEF Entries, RowsSound, Deliveries
<1> HIDE DEF n, e
<1>6. /\ row \in Deliveries /\ row.sent = outbox[e].sent /\ row.heard = outbox[e].heard
      /\ row.attempts = n
      /\ row.status = "pending" => n < MaxAttempts
      /\ row.status = "delivered" => outbox[e].heard
      /\ row.status = "dead" => n >= MaxAttempts
  <2>1. CASE pass[p].answer = "ok"
    BY <1>3, <1>4, <1>5, <2>1 DEF Deliveries
  <2>2. CASE pass[p].answer # "ok" /\ n >= MaxAttempts
    <3>1. row = [outbox[e] EXCEPT !.status = "dead", !.attempts = n]
      BY <2>2 DEF Retried
    <3> QED
      BY <1>4, <1>5, <2>2, <3>1 DEF Deliveries
  <2>3. CASE pass[p].answer # "ok" /\ ~(n >= MaxAttempts)
    <3>1. row = [outbox[e] EXCEPT !.status = "pending", !.attempts = n, !.due = FALSE]
      BY <2>3 DEF Retried
    <3>2. n < MaxAttempts
      BY <1>4, <1>5, <2>3
    <3> QED
      BY <1>4, <1>5, <3>1, <3>2 DEF Deliveries
  <2> QED
    BY <2>1, <2>2, <2>3
<1>7. pass[p] \in PassStates
  BY <1>1 DEF OutboxTypes, PassStates
<1>8. /\ [pass[p] EXCEPT !.now = Nothing, !.answer = "none"] \in PassStates
      /\ pass' = [pass EXCEPT ![p] = [pass[p] EXCEPT !.now = Nothing, !.answer = "none"]]
      /\ [pass[p] EXCEPT !.now = Nothing, !.answer = "none"].todo = pass[p].todo
      /\ [pass[p] EXCEPT !.now = Nothing, !.answer = "none"].answer = "none"
  <2>1. pass \in [Passes -> PassStates]
    BY <1>1 DEF OutboxTypes, PassStates
  <2> QED
    BY <1>2, <1>7, <2>1 DEF PassStates
<1>9. /\ pass' \in [Passes -> PassStates]
      /\ pass'[p].todo = pass[p].todo /\ pass'[p].answer = "none"
      /\ \A q \in Passes : q # p => pass'[q] = pass[q]
  BY <1>1, <1>8, PassMoved
<1> HIDE DEF row
<1>10. /\ OutboxTypes' /\ DOMAIN outbox' = DOMAIN outbox /\ outbox'[e] = row
       /\ \A f \in DOMAIN outbox : f # e => outbox'[f] = outbox[f]
  BY <1>1, <1>2, <1>3, <1>6, <1>9, RowWritten DEF PassStates
<1>11. Grown
  <2>1. \A f \in DOMAIN outbox : outbox[f].sent \in Nat
    BY <1>1 DEF OutboxTypes, Deliveries
  <2> QED
    BY <1>1, <1>6, <1>10, <2>1 DEF Grown
<1>12. PassesSound'
  <2>1. \A q \in Passes \ {p} : pass'[q] = pass[q]
    BY <1>9
  <2>2. \A x \in pass'[p].todo : HoldsSeen(x)'
    BY <1>1, <1>9, <1>11, HeldStays DEF PassesSound
  <2> QED
    BY <1>1, <1>9, <1>11, <2>1, <2>2, OthersSound DEF PassesSound
<1>13. RowsSound' /\ EndedRightly'
  BY <1>1, <1>3, <1>4, <1>5, <1>6, <1>10 DEF RowsSound, EndedRightly, Deliveries
<1> QED
  BY <1>1, <1>6, <1>10, <1>12, <1>13 DEF OutboxInv

LEMMA DieKeeps ==
  ASSUME OutboxInv, NEW p \in Passes, Die(p)
  PROVE  OutboxInv' /\ outbox' = outbox /\ active' = active
<1>1. /\ OutboxTypes /\ RowsSound /\ PassesSound /\ EndedRightly
      /\ UNCHANGED <<outbox, active>> /\ deaths' = deaths + 1
      /\ pass' = [pass EXCEPT ![p] = Idle]
  BY DEF OutboxInv, Die
<1>2. /\ pass' \in [Passes -> PassStates] /\ pass'[p] = Idle
      /\ \A q \in Passes : q # p => pass'[q] = pass[q]
  BY <1>1, IdleTyped, PassMoved
<1>3. PassesSound'
  BY <1>1, <1>2 DEF PassesSound, HoldsSeen, Idle
<1> QED
  BY <1>1, <1>2, <1>3 DEF OutboxInv, OutboxTypes, RowsSound, EndedRightly, PassStates

LEMMA RipenKeeps ==
  ASSUME OutboxInv, NEW e \in DOMAIN outbox, Ripen(e)
  PROVE  /\ OutboxInv' /\ active' = active /\ DOMAIN outbox' = DOMAIN outbox
         /\ \A f \in DOMAIN outbox : outbox'[f].heard = outbox[f].heard
<1>1. /\ OutboxTypes /\ RowsSound /\ PassesSound /\ EndedRightly
      /\ UNCHANGED <<active, pass, deaths>> /\ outbox' = [outbox EXCEPT ![e].due = TRUE]
  BY DEF OutboxInv, Ripen
<1> DEFINE row == [outbox[e] EXCEPT !.due = TRUE]
<1>2. outbox[e] \in Deliveries
  BY <1>1 DEF OutboxTypes
<1>3. /\ row \in Deliveries /\ outbox' = [outbox EXCEPT ![e] = row]
      /\ row.status = outbox[e].status /\ row.sent = outbox[e].sent
      /\ row.attempts = outbox[e].attempts /\ row.heard = outbox[e].heard
  BY <1>1, <1>2 DEF Deliveries
<1> HIDE DEF row
<1>4. /\ OutboxTypes' /\ DOMAIN outbox' = DOMAIN outbox /\ outbox'[e] = row
      /\ \A f \in DOMAIN outbox : f # e => outbox'[f] = outbox[f]
  BY <1>1, <1>3, RowWritten DEF OutboxTypes
<1>5. Grown
  <2>1. \A f \in DOMAIN outbox : outbox[f].sent \in Nat
    BY <1>1 DEF OutboxTypes, Deliveries
  <2> QED
    BY <1>1, <1>3, <1>4, <2>1 DEF Grown
<1>6. PassesSound'
  BY <1>1, <1>5, OthersSound DEF PassesSound
<1>7. RowsSound' /\ EndedRightly'
  BY <1>1, <1>3, <1>4 DEF RowsSound, EndedRightly
<1> QED
  BY <1>1, <1>3, <1>4, <1>6, <1>7 DEF OutboxInv

LEMMA SwitchOffKeeps ==
  ASSUME OutboxInv, SwitchOff
  PROVE  OutboxInv' /\ outbox' = outbox /\ active' = FALSE
BY DEF OutboxInv, SwitchOff, OutboxTypes, RowsSound, EndedRightly, PassesSound, HoldsSeen

--------------------------------------------------------------------------------
(* New rows *)

LEMMA EmittedKeeps ==
  ASSUME OutboxInv, NEW o \in Orders, NEW types \in SUBSET EventTypes,
         outbox' = Emitted(o, types), UNCHANGED <<active, pass, deaths>>
  PROVE  /\ OutboxInv' /\ DOMAIN outbox \subseteq DOMAIN outbox'
         /\ \A e \in DOMAIN outbox : outbox'[e] = outbox[e]
         /\ \A e \in DOMAIN outbox' \ DOMAIN outbox :
              /\ active /\ e.order = o /\ e.type \in types \cap Subscribed
              /\ e.created = Cardinality(DOMAIN outbox) /\ ~outbox'[e].heard
         /\ \A t \in types \cap Subscribed : active =>
              \E e \in DOMAIN outbox' : e.order = o /\ e.type = t
<1> DEFINE c == Cardinality(DOMAIN outbox)
           new == IF active THEN [order : {o}, type : types \cap Subscribed, created : {c}] ELSE {}
           of(t) == [order |-> o, type |-> t, created |-> c]
<1>1. OutboxTypes /\ RowsSound /\ PassesSound /\ EndedRightly
  BY DEF OutboxInv
<1>2. c \in Nat
  BY <1>1, FS_CardinalityType DEF OutboxTypes
<1> HIDE DEF c
<1>3. outbox' = [e \in DOMAIN outbox \cup new |-> IF e \in DOMAIN outbox THEN outbox[e] ELSE Fresh]
  BY DEF Emitted, c
<1>4. new \subseteq Events
  BY <1>2 DEF Events
<1>5. IsFiniteSet(new)
  <2>1. new \subseteq {of("order.placed"), of("order.status_changed")}
                        \cup {of("order.paid"), of("payment.recorded")}
    <3> SUFFICES ASSUME NEW e \in new
                 PROVE  \E t \in EventTypes : e = of(t)
      BY DEF EventTypes
    <3>1. e.type \in EventTypes /\ e = [order |-> o, type |-> e.type, created |-> c]
      OBVIOUS
    <3> QED
      BY <3>1
  <2>2. \A x, y : IsFiniteSet({x, y})
    <3> TAKE x, y
    <3>1. {x, y} = {x} \cup {y}
      OBVIOUS
    <3>2. IsFiniteSet({x})
      BY FS_Singleton
    <3> QED
      BY <3>1, <3>2, FS_AddElement
  <2>3. IsFiniteSet({of("order.placed"), of("order.status_changed")}
                      \cup {of("order.paid"), of("payment.recorded")})
    BY <2>2, FS_Union
  <2> HIDE DEF new
  <2> QED
    BY <2>1, <2>3, FS_Subset
<1>6. /\ \A e \in new : active /\ e.order = o /\ e.type \in types \cap Subscribed /\ e.created = c
      /\ \A t \in types \cap Subscribed : active => of(t) \in new
  OBVIOUS
<1> HIDE DEF new
<1>7. DOMAIN outbox' = DOMAIN outbox \cup new
      /\ (\A e \in DOMAIN outbox : outbox'[e] = outbox[e])
      /\ \A e \in DOMAIN outbox' \ DOMAIN outbox : e \in new /\ outbox'[e] = Fresh
  BY <1>3
<1>8. Fresh \in Deliveries /\ ~Fresh.heard /\ Fresh.attempts = 0 /\ Fresh.sent = 0
      /\ Fresh.status = "pending"
  BY DEF Fresh, Deliveries
<1>9. OutboxTypes'
  <2>1. IsFiniteSet(DOMAIN outbox')
    <3>1. IsFiniteSet(DOMAIN outbox \cup new)
      BY <1>1, <1>5, FS_Union DEF OutboxTypes
    <3> QED
      BY <1>7, <3>1
  <2>2. outbox' = [e \in DOMAIN outbox' |-> outbox'[e]]
    BY <1>3
  <2>3. DOMAIN outbox' \subseteq Events /\ \A e \in DOMAIN outbox' : outbox'[e] \in Deliveries
    BY <1>1, <1>4, <1>7, <1>8 DEF OutboxTypes
  <2> QED
    BY <1>1, <2>1, <2>2, <2>3 DEF OutboxTypes
<1>10. Grown
  <2>1. \A f \in DOMAIN outbox : outbox[f].sent \in Nat
    BY <1>1 DEF OutboxTypes, Deliveries
  <2> QED
    BY <1>7, <2>1 DEF Grown
<1>11. PassesSound'
  BY <1>1, <1>10, OthersSound DEF PassesSound
<1>12. RowsSound' /\ EndedRightly'
  <2>1. \A e \in DOMAIN outbox' : e \in DOMAIN outbox \/ outbox'[e] = Fresh
    BY <1>7
  <2> QED
    BY <1>1, <1>7, <1>8, <2>1, OutboxAssumption DEF RowsSound, EndedRightly
<1>13. \A t \in types \cap Subscribed : active => \E e \in DOMAIN outbox' : e.order = o /\ e.type = t
  <2> TAKE t \in types \cap Subscribed
  <2>1. active => of(t) \in DOMAIN outbox' /\ of(t).order = o /\ of(t).type = t
    BY <1>6, <1>7
  <2> QED
    BY <2>1
<1> QED
  BY <1>6, <1>7, <1>8, <1>9, <1>11, <1>12, <1>13 DEF OutboxInv, c

LEMMA OutboxStarts == OutboxInit => OutboxInv
<1> SUFFICES ASSUME OutboxInit PROVE OutboxInv
  OBVIOUS
<1>1. DOMAIN outbox = {} /\ outbox = [e \in DOMAIN outbox |-> outbox[e]]
  BY DEF OutboxInit
<1>2. OutboxTypes
  BY <1>1, FS_EmptySet, IdleTyped DEF OutboxInit, OutboxTypes, PassStates
<1>3. PassesSound
  BY DEF OutboxInit, PassesSound, Idle
<1> QED
  BY <1>1, <1>2, <1>3 DEF OutboxInv, RowsSound, EndedRightly
================================================================================
