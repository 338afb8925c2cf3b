--------------------------------- MODULE Outbox ---------------------------------
(***************************************************************************)
(* The webhook outbox (src/server/events).  Deliveries are rows written by *)
(* the transaction that made the change they tell of; a repeatable job     *)
(* posts the ones that are due.  Nothing keeps two passes of that job      *)
(* apart, and a pass writes each row by id, from what it read when it      *)
(* started.                                                                *)
(***************************************************************************)
EXTENDS Integers, FiniteSets

CONSTANTS
  Orders,       \* what the events are about
  Passes,       \* dispatch jobs that can run at once
  Subscribed,   \* event types the endpoint is subscribed to
  Limit,        \* rows a pass takes
  MaxAttempts,  \* WEBHOOK_MAX_ATTEMPTS
  MaxDeaths     \* bound: passes that die half way

ASSUME OutboxAssumption ==
  /\ Limit \in Nat \ {0}
  /\ MaxAttempts \in Nat \ {0}
  /\ MaxDeaths \in Nat

VARIABLES
  outbox,  \* webhook_deliveries of the endpoint: a row for each event it gets
  active,  \* the endpoint's switch, which nothing in the repository turns
  pass,    \* what each pass has still to do, and the answer it is holding
  deaths   \* passes that died

outboxVars == <<outbox, active, pass, deaths>>

EventTypes == {"order.placed", "order.status_changed", "order.paid", "payment.recorded"}

\* The rows of one transaction are not told apart by age.
Events == [order : Orders, type : EventTypes, created : Nat]

\* sent and heard are history: how often the row was posted, and whether the
\* receiver got it.
Deliveries == [status : {"pending", "delivered", "dead"}, attempts : Nat, due : BOOLEAN,
               sent : Nat, heard : BOOLEAN]

Entries == [event : Events, attempts : Nat, on : BOOLEAN]

--------------------------------------------------------------------------------

Nothing == [event |-> "none"]

Idle == [todo |-> {}, now |-> Nothing, answer |-> "none"]

OutboxInit ==
  /\ outbox = [e \in {} |-> Nothing]
  /\ active = TRUE
  /\ pass = [p \in Passes |-> Idle]
  /\ deaths = 0

Fresh == [status |-> "pending", attempts |-> 0, due |-> TRUE, sent |-> 0, heard |-> FALSE]

\* One row for each event the endpoint wants, in the caller's transaction.
Emitted(order, types) ==
  LET new == IF active
             THEN [order : {order}, type : types \cap Subscribed,
                   created : {Cardinality(DOMAIN outbox)}]
             ELSE {}
  IN [e \in DOMAIN outbox \cup new |-> IF e \in DOMAIN outbox THEN outbox[e] ELSE Fresh]

\* dispatchPendingWebhooks reads the oldest rows that are due.
Due == {e \in DOMAIN outbox : outbox[e].status = "pending" /\ outbox[e].due}

BeginPass(p) ==
  /\ pass[p] = Idle
  /\ \E taken \in SUBSET Due :
       /\ taken # {}
       /\ Cardinality(taken) <= Limit
       /\ \A e \in taken, f \in Due \ taken : e.created <= f.created
       /\ taken = Due \/ Cardinality(taken) = Limit
       /\ pass' = [pass EXCEPT ![p].todo =
            {[event |-> e, attempts |-> outbox[e].attempts, on |-> active] : e \in taken}]
  /\ UNCHANGED <<outbox, active, deaths>>

\* A row of an endpoint that is off is given up.
GiveUp(p) ==
  /\ pass[p].answer = "none"
  /\ \E t \in pass[p].todo :
       /\ ~t.on
       /\ outbox' = [outbox EXCEPT ![t.event].status = "dead"]
       /\ pass' = [pass EXCEPT ![p].todo = @ \ {t}]
  /\ UNCHANGED <<active, deaths>>

\* The POST.  Neither an answer other than 2xx, nor a timeout, nor a 2xx that
\* could not be stored says that the receiver did not get it.
Post(p) ==
  /\ pass[p].answer = "none"
  /\ \E t \in pass[p].todo, answer \in {"ok", "bad"}, got \in BOOLEAN :
       /\ t.on
       /\ answer = "ok" => got
       /\ pass' = [pass EXCEPT ![p] = [todo |-> @.todo \ {t}, now |-> t, answer |-> answer]]
       /\ outbox' = [outbox EXCEPT
            ![t.event].sent = IF @ < MaxAttempts THEN @ + 1 ELSE @,
            ![t.event].heard = @ \/ got]
  /\ UNCHANGED <<active, deaths>>

\* Mutant of Retried: given up one attempt early.
RetriedLess(row, attempts) ==
  IF attempts + 1 >= MaxAttempts
  THEN [row EXCEPT !.status = "dead", !.attempts = attempts]
  ELSE [row EXCEPT !.status = "pending", !.attempts = attempts, !.due = FALSE]

\* Mutant of Retried: the attempt is not counted.
RetriedForever(row, attempts) ==
  [row EXCEPT !.status = "pending", !.due = FALSE]

\* scheduleRetry.
Retried(row, attempts) ==
  IF attempts >= MaxAttempts
  THEN [row EXCEPT !.status = "dead", !.attempts = attempts]
  ELSE [row EXCEPT !.status = "pending", !.attempts = attempts, !.due = FALSE]

\* The update that follows the answer.
Record(p) ==
  /\ pass[p].answer # "none"
  /\ LET t == pass[p].now
         attempts == t.attempts + 1
     IN outbox' = [outbox EXCEPT ![t.event] =
          IF pass[p].answer = "ok"
          THEN [@ EXCEPT !.status = "delivered", !.attempts = attempts]
          ELSE Retried(@, attempts)]
  /\ pass' = [pass EXCEPT ![p].now = Nothing, ![p].answer = "none"]
  /\ UNCHANGED <<active, deaths>>

\* The worker stops or a query fails: rows the pass had not written stay due.
Die(p) ==
  /\ pass[p] # Idle
  /\ deaths < MaxDeaths
  /\ deaths' = deaths + 1
  /\ pass' = [pass EXCEPT ![p] = Idle]
  /\ UNCHANGED <<outbox, active>>

\* nextAttemptAt comes.
Ripen(e) ==
  /\ outbox[e].status = "pending" /\ ~outbox[e].due
  /\ outbox' = [outbox EXCEPT ![e].due = TRUE]
  /\ UNCHANGED <<active, pass, deaths>>

SwitchOff ==
  /\ active
  /\ active' = FALSE
  /\ UNCHANGED <<outbox, pass, deaths>>

Dispatch ==
  \/ \E p \in Passes : BeginPass(p) \/ GiveUp(p) \/ Post(p) \/ Record(p) \/ Die(p)
  \/ \E e \in DOMAIN outbox : Ripen(e)
  \/ SwitchOff

--------------------------------------------------------------------------------
(* Properties *)

OutboxTypes ==
  /\ DOMAIN outbox \subseteq Events /\ IsFiniteSet(DOMAIN outbox)
  /\ \A e \in DOMAIN outbox : outbox[e] \in Deliveries
  /\ outbox = [e \in DOMAIN outbox |-> outbox[e]]
  /\ active \in BOOLEAN
  /\ pass \in [Passes -> [todo : SUBSET Entries, now : Entries \cup {Nothing},
                       answer : {"none", "ok", "bad"}]]
  /\ deaths \in Nat

\* What a pass holds was true when it was read, and rows only move on since.
HoldsSeen(t) ==
  /\ t \in Entries /\ t.event \in DOMAIN outbox
  /\ t.attempts < MaxAttempts /\ t.attempts <= outbox[t.event].sent
  /\ t.on \/ ~active

PassesSound ==
  \A p \in Passes :
    /\ \A t \in pass[p].todo : HoldsSeen(t)
    /\ pass[p].answer # "none" =>
         /\ HoldsSeen(pass[p].now)
         /\ pass[p].now.attempts < outbox[pass[p].now.event].sent
         /\ pass[p].answer = "ok" => outbox[pass[p].now.event].heard

RowsSound ==
  \A e \in DOMAIN outbox :
    /\ outbox[e].attempts <= outbox[e].sent /\ outbox[e].sent <= MaxAttempts
    /\ outbox[e].status = "pending" => outbox[e].attempts < MaxAttempts

\* A delivery marked delivered was received; one given up was posted as often as
\* the configuration says, or its endpoint is off.  Two passes that hold the same
\* row and write it in either order (dispatcher.ts:28-148) keep both.
EndedRightly ==
  \A e \in DOMAIN outbox :
    /\ outbox[e].status = "delivered" => outbox[e].heard
    /\ outbox[e].status = "dead" => outbox[e].sent = MaxAttempts \/ ~active
================================================================================
