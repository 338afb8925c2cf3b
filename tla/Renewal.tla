------------------------------- MODULE Renewal -------------------------------
(***************************************************************************)
(* The dates of a subscription: the nightly sweep reads them and queues    *)
(* reminders, the suspension and the purge; the jobs run later and read    *)
(* the row again; and operators move the dates meanwhile.                  *)
(*                                                                         *)
(* Account has the archive and the steps of a purge; here a purge is its   *)
(* quiesce, after which no transaction of the tenant begins.               *)
(***************************************************************************)
EXTENDS Integers, FiniteSets

CONSTANTS
  Operators,    \* requests of the admin panel
  Slots,        \* room in the lifecycle queue
  Period,       \* nights in a billing period
  Retention,    \* nights in RETENTION_DAYS
  Extensions,   \* nights by which an operator moves the retention out
  Late,         \* bound: a date that passed longer ago counts as this many nights ago
  Week, Three,  \* nights before a date at which the early and the late reminder begin
  Attempts,     \* tries of a job
  MaxRequests,  \* bound: requests that begin
  MaxFaults     \* bound: lost dispatches and failed runs

ASSUME RenewalAssumption ==
  /\ Period \in Nat \ {0} /\ Retention \in Nat \ {0} /\ Late \in Nat \ {0}
  /\ Extensions \subseteq Nat \ {0}
  /\ Week \in Nat /\ Three \in Nat /\ Three < Week
  /\ Attempts \in Nat \ {0}
  /\ MaxRequests \in Nat /\ MaxFaults \in Nat

VARIABLES
  sub,       \* the subscription row; "gone" once its purge has begun
  rows,      \* subscription_reminders, and for each stage the date its message named
  jobs,      \* the lifecycle queue and its workers
  request,   \* the transactions of the operators
  dates,     \* how many dates were set
  \* History, of the dates that are set; a message is a stage and a date:
  told,      \* messages that were sent
  asked,     \* messages that were due, by a date still to come, when a sweep looked
  missed,    \* those of them that an outage took, or that no worker took all day
  brief,     \* dates that had passed, or passed that night, when they were set
  crossed,   \* dates on which two transactions overlapped
  begun,     \* requests so far
  faults     \* faults so far

vars == <<sub, rows, jobs, request, dates, told, asked, missed, brief, crossed,
          begun, faults>>

owed == <<asked, missed, brief>>

--------------------------------------------------------------------------------
PreExpiry == {"pre_expiry_t7", "pre_expiry_t3", "pre_expiry_t0"}
RetentionStages == {"retention_r7", "retention_r3"}
Stages == PreExpiry \union RetentionStages

\* A date: the of-th that was set, and the nights that are left, fewer than none
\* once it has passed.
Date(of, left) == [of |-> of, left |-> left]
NoDate == Date(0, -Late)

\* addMonths and addDays move the date that was read, which may have passed.
Moved(d, nights) == Date(dates + 1, d.left + nights)

\* preExpiryStageFor and retentionStageFor; neither is asked about an earlier night.
PreExpiryStageFor(left) ==
  CASE left <= 0 -> "pre_expiry_t0"
    [] left > 0 /\ left <= Three -> "pre_expiry_t3"
    [] OTHER -> "pre_expiry_t7"
RetentionStageFor(left) == IF left <= Three THEN "retention_r3" ELSE "retention_r7"

Remind(stage) == [kind |-> "remind", stage |-> stage]
Suspend == [kind |-> "suspend", stage |-> "none"]
Purge == [kind |-> "purge", stage |-> "none"]
Tasks == {Remind(s) : s \in Stages} \union {Suspend, Purge}

Job(task, pc, tries) == [task |-> task, pc |-> pc, of |-> NoDate.of, tries |-> tries]
NoJob == Job([kind |-> "none", stage |-> "none"], "free", 0)
Queued(task) == Job(task, "queued", Attempts)

Idle == [pc |-> "idle", base |-> NoDate]

\* The date a reminder's stage counts down to.
Deadline(row, stage) == IF stage \in RetentionStages THEN row.retentionUntil ELSE row.periodEnd

Fault == faults < MaxFaults /\ faults' = faults + 1
NoFault == UNCHANGED faults

Init ==
  /\ sub = [status |-> "active",
            periodEnd |-> Date(1, Period), retentionUntil |-> NoDate]
  /\ rows = [s \in Stages |-> NoDate.of]
  /\ jobs = [j \in Slots |-> NoJob]
  /\ request = [o \in Operators |-> Idle]
  /\ dates = 1
  /\ told = {} /\ asked = {} /\ missed = {} /\ brief = {} /\ crossed = {}
  /\ begun = 0 /\ faults = 0

--------------------------------------------------------------------------------
(* The nightly sweep, lifecycle-sweep.ts *)

\* Mutant of Due: an else between the reminder and the suspension.
DueOneJob(s) ==
  CASE s.status = "active" /\ s.periodEnd.left <= Week ->
         {Remind(PreExpiryStageFor(s.periodEnd.left))}
    [] s.status = "suspended" /\ s.retentionUntil.left < 0 ->
         {Purge} \ {jobs[j].task : j \in Slots}
    [] s.status = "suspended" /\ s.retentionUntil.left \in 0 .. Week ->
         {Remind(RetentionStageFor(s.retentionUntil.left))}
    [] OTHER -> {}

\* What the sweep queues for a row.  A purge has a stable job id.
Due(s) ==
  CASE s.status = "active" ->
         (IF s.periodEnd.left <= Week
          THEN {Remind(PreExpiryStageFor(s.periodEnd.left))} ELSE {})
           \union (IF s.periodEnd.left < 0 THEN {Suspend} ELSE {})
    [] s.status = "suspended" ->
         IF s.retentionUntil.left < 0
         THEN {Purge} \ {jobs[j].task : j \in Slots}
         ELSE IF s.retentionUntil.left <= Week
              THEN {Remind(RetentionStageFor(s.retentionUntil.left))} ELSE {}
    [] OTHER -> {}

Sooner(d) == [d EXCEPT !.left = IF @ <= -Late THEN @ ELSE @ - 1]

\* The message a reminder job is for.
MessageOf(s, stage) == <<stage, Deadline(s, stage).of>>
Messages(s, tasks) == {MessageOf(s, t.stage) : t \in {u \in tasks : u.kind = "remind"}}

\* What a merchant should hear tonight of a date that is still to come.
Expecting(s) ==
  CASE s.status = "active" /\ s.periodEnd.left \in 0 .. Week ->
         {MessageOf(s, PreExpiryStageFor(s.periodEnd.left))}
    [] s.status = "suspended" /\ s.retentionUntil.left \in 0 .. Week ->
         {MessageOf(s, RetentionStageFor(s.retentionUntil.left))}
    [] OTHER -> {}

\* A transaction lasts seconds, so none is open across a night; the sweep only
\* reads, so it is one step.  An enqueue may be given up (dispatchJob), and a
\* night may pass without a worker: then everything due is lost.
Night ==
  LET s == [sub EXCEPT !.periodEnd = Sooner(@), !.retentionUntil = Sooner(@)]
      room == {j \in Slots : jobs[j] = NoJob}
  IN  /\ sub.status # "gone"
      /\ \A j \in Slots : jobs[j].pc # "open"
      /\ \A o \in Operators : request[o] = Idle
      /\ sub' = s
      /\ asked' = asked \union Expecting(s)
      /\ \E kept \in SUBSET Due(s) :
           /\ IF kept = Due(s) THEN NoFault ELSE Fault
           /\ missed' = ((missed \union Messages(s, {jobs[j].task : j \in Slots}))
                            \ Expecting(s)) \union Messages(s, Due(s) \ kept)
           /\ \E place \in [kept -> room] :
                /\ \A t, u \in kept : place[t] = place[u] => t = u
                /\ jobs' = [j \in Slots |->
                     IF \E t \in kept : place[t] = j
                     THEN Queued(CHOOSE t \in kept : place[t] = j) ELSE jobs[j]]
      /\ UNCHANGED <<rows, request, dates, told, brief, crossed, begun>>

--------------------------------------------------------------------------------
(* Jobs *)

Ends(j) == jobs' = [jobs EXCEPT ![j] = NoJob]

\* A run that throws is tried again, Attempts times in all.
Retries(j) ==
  jobs' = [jobs EXCEPT ![j] =
            IF @.tries <= 1 THEN NoJob ELSE Job(@.task, "queued", @.tries - 1)]

OnlyJobs == UNCHANGED <<sub, rows, request, dates, told, asked, brief, crossed, begun>>

\* A date that changes while a reminder is between its read and its insert, or
\* that is set from a reading which is no longer the row's: what is told of the
\* old one, or of the new one, may be told twice or not at all.
Crossed(stages, stale) ==
  LET between == {j \in Slots : jobs[j].pc = "open" /\ jobs[j].task.stage \in stages}
  IN  crossed' = crossed \union stale \union {jobs[j].of : j \in between}

\* What is known of another date is history.
Standing(messages) == {m \in messages : m[2] = Deadline(sub', m[1]).of}
Retold ==
  /\ told' = Standing(told) /\ asked' = Standing(asked) /\ missed' = Standing(missed)
  /\ brief' = {d.of : d \in {e \in {sub'.periodEnd, sub'.retentionUntil} :
                             e.of \in brief \/ (e.of > dates /\ e.left <= 0)}}

\* A reminder is for one status, and looks at nothing else (send-reminder.ts).
Expected(stage) == IF stage \in RetentionStages THEN "suspended" ELSE "active"

\* The transaction of a reminder reads the row ...
ReadReminder(j) ==
  LET stage == jobs[j].task.stage IN
  /\ jobs[j].pc = "queued" /\ jobs[j].task.kind = "remind" /\ sub.status # "gone"
  /\ IF sub.status = Expected(stage)
     THEN jobs' = [jobs EXCEPT ![j].pc = "open", ![j].of = Deadline(sub, stage).of]
     ELSE Ends(j)
  /\ OnlyJobs /\ NoFault /\ UNCHANGED missed

\* ... and inserts the stage, which is its primary key, with the message.
SendReminder(j) ==
  LET stage == jobs[j].task.stage
      message == <<stage, jobs[j].of>>
  IN  /\ jobs[j].pc = "open" /\ jobs[j].task.kind = "remind"
      /\ sub.status # "gone" /\ rows[stage] = NoDate.of
      /\ rows' = [rows EXCEPT ![stage] = jobs[j].of]
      /\ told' = told \union {message}
      /\ Ends(j)
      /\ UNCHANGED <<sub, request, dates, owed, crossed, begun, faults>>

\* A stage that was sent already: P2002.
SkipReminder(j) ==
  /\ jobs[j].pc = "open" /\ jobs[j].task.kind = "remind"
  /\ rows[jobs[j].task.stage] # NoDate.of
  /\ Ends(j) /\ OnlyJobs /\ NoFault /\ UNCHANGED missed

\* suspend() asks for the status and throws for any but active ...
ReadSuspend(j) ==
  /\ jobs[j].pc = "queued" /\ jobs[j].task = Suspend
  /\ IF sub.status = "active"
     THEN jobs' = [jobs EXCEPT ![j].pc = "open"]
     ELSE Retries(j)
  /\ OnlyJobs /\ NoFault /\ UNCHANGED missed

\* ... and writes the row it has read, by id.
CommitSuspend(j) ==
  /\ jobs[j].pc = "open" /\ jobs[j].task = Suspend /\ sub.status # "gone"
  /\ sub' = [sub EXCEPT !.status = "suspended",
                        !.retentionUntil = Date(dates + 1, Retention)]
  /\ dates' = dates + 1
  /\ Retold
  /\ Crossed(RetentionStages, IF sub.status = "active" THEN {} ELSE {sub.retentionUntil.of})
  /\ Ends(j)
  /\ UNCHANGED <<rows, request, begun, faults>>

\* purgeTenant: the quiesce asks for the status, and no more; the job of an account
\* that is not suspended any longer is skipped.
RunPurge(j) ==
  /\ jobs[j].pc = "queued" /\ jobs[j].task = Purge
  /\ sub' = [sub EXCEPT !.status = IF @ = "suspended" THEN "gone" ELSE @]
  /\ Ends(j)
  /\ UNCHANGED <<rows, request, dates, told, owed, crossed, begun, faults>>

\* A worker dies, the database fails or the tenant is gone: the run rolls back.  A
\* reminder that fails for the last time is not sent.
FailRun(j) ==
  /\ jobs[j] # NoJob
  /\ \/ sub.status = "gone" /\ NoFault
     \/ sub.status # "gone" /\ Fault
  /\ missed' = missed \union
       IF jobs[j].tries <= 1 THEN Messages(sub, {jobs[j].task}) ELSE {}
  /\ Retries(j) /\ OnlyJobs

--------------------------------------------------------------------------------
(* Operators *)

\* Mutant of Reset: a merchant who renewed once is never warned again.
ResetNever(stages) ==
  UNCHANGED rows /\ Retold

\* The stages are freed.
Reset(stages) ==
  /\ rows' = [s \in Stages |-> IF s \in stages THEN NoDate.of ELSE rows[s]]
  /\ Retold

Asks(o, pc, base) ==
  /\ request[o] = Idle /\ begun < MaxRequests
  /\ request' = [request EXCEPT ![o] = [pc |-> pc, base |-> base]]
  /\ begun' = begun + 1
  /\ UNCHANGED <<sub, rows, jobs, dates, told, owed, crossed, faults>>

Answers(o) ==
  /\ request' = [request EXCEPT ![o] = Idle]
  /\ UNCHANGED <<jobs, begun, faults>>

\* Mutant of ReadExtend: the stages are freed in a transaction before that of the date.
ReadExtendFreeing(o) ==
  /\ sub.status = "active" /\ request[o] = Idle /\ begun < MaxRequests
  /\ request' = [request EXCEPT ![o] = [pc |-> "extend", base |-> sub.periodEnd]]
  /\ begun' = begun + 1
  /\ rows' = [s \in Stages |-> IF s \in PreExpiry THEN NoDate.of ELSE rows[s]]
  /\ UNCHANGED <<sub, jobs, dates, told, owed, crossed, faults>>

\* extend: refuses what is suspended ...
ReadExtend(o) == sub.status = "active" /\ Asks(o, "extend", sub.periodEnd)

\* ... and then moves the date it has read, and frees the stages before it.
CommitExtend(o) ==
  LET new == Moved(request[o].base, Period) IN
  /\ request[o].pc = "extend" /\ sub.status # "gone"
  /\ sub' = [sub EXCEPT !.periodEnd = new]
  /\ dates' = dates + 1
  /\ Reset(PreExpiry)
  /\ Crossed(PreExpiry, IF request[o].base.of = sub.periodEnd.of THEN {} ELSE {new.of})
  /\ Answers(o)

ReadExtendRetention(o) ==
  sub.status = "suspended" /\ Asks(o, "extendRetention", sub.retentionUntil)

\* extendRetention: by as many days as the operator says, 1 to 365.
CommitExtendRetention(o) == \E nights \in Extensions :
  LET new == Moved(request[o].base, nights) IN
  /\ request[o].pc = "extendRetention" /\ sub.status # "gone"
  /\ sub' = [sub EXCEPT !.retentionUntil = new]
  /\ dates' = dates + 1
  /\ Reset(RetentionStages)
  /\ Crossed(RetentionStages,
             IF request[o].base.of = sub.retentionUntil.of THEN {} ELSE {new.of})
  /\ Answers(o)

ReadReactivate(o) == sub.status = "suspended" /\ Asks(o, "reactivate", NoDate)

\* reactivate: the operator chooses the date; every stage is freed.
CommitReactivate(o) ==
  LET new == Date(dates + 1, Period) IN
  /\ request[o].pc = "reactivate" /\ sub.status # "gone"
  /\ sub' = [status |-> "active", periodEnd |-> new, retentionUntil |-> NoDate]
  /\ dates' = dates + 1
  /\ Reset(Stages)
  /\ Crossed(Stages, {})
  /\ Answers(o)

\* The transaction fails, or the tenant is gone.
Abandon(o) ==
  /\ request[o] # Idle
  /\ Answers(o) /\ UNCHANGED <<sub, rows, dates, told, owed, crossed>>

--------------------------------------------------------------------------------
Run(j) ==
  \/ ReadReminder(j) \/ SendReminder(j) \/ SkipReminder(j)
  \/ ReadSuspend(j) \/ CommitSuspend(j) \/ RunPurge(j) \/ FailRun(j)

Operate(o) ==
  \/ ReadExtend(o) \/ CommitExtend(o)
  \/ ReadExtendRetention(o) \/ CommitExtendRetention(o)
  \/ ReadReactivate(o) \/ CommitReactivate(o) \/ Abandon(o)

Next ==
  \/ Night
  \/ \E j \in Slots : Run(j)
  \/ \E o \in Operators : Operate(o)

Spec == Init /\ [][Next]_vars

--------------------------------------------------------------------------------
(* Types *)

Dates == [of : Nat, left : {n \in Int : n >= -Late}]
JobStates == [task : Tasks \union {NoJob.task}, pc : {"free", "queued", "open"},
              of : Nat, tries : Nat]

\* Every variable keeps its type.
TypeOK ==
  /\ sub \in [status : {"active", "suspended", "gone"},
              periodEnd : Dates, retentionUntil : Dates]
  /\ rows \in [Stages -> Nat]
  /\ jobs \in [Slots -> JobStates]
  /\ request \in [Operators -> [pc : {"idle", "extend", "extendRetention", "reactivate"},
                                base : Dates]]
  /\ dates \in Nat
  /\ told \subseteq Stages \X Nat
  /\ asked \subseteq Stages \X Nat /\ missed \subseteq Stages \X Nat
  /\ brief \subseteq Nat /\ crossed \subseteq Nat
  /\ begun \in 0 .. MaxRequests /\ faults \in 0 .. MaxFaults

\* Dates are numbered as they are set: what follows is fresh.
Numbered ==
  /\ sub.periodEnd.of \in 1 .. dates /\ sub.retentionUntil.of \in 0 .. dates
  /\ sub.status = "suspended" => sub.retentionUntil.of > 0

\* The date is that of the row, whose status the stage is for, or was overlapped.
Current(stage, d) ==
  \/ d \in crossed
  \/ d = Deadline(sub, stage).of /\ (stage \in RetentionStages => sub.status # "active")

\* What a reminder holds between its read and its insert.
HeldSound ==
  \A j \in Slots : (jobs[j].pc = "open" /\ jobs[j].task.kind = "remind") =>
    jobs[j].of # NoDate.of /\ Current(jobs[j].task.stage, jobs[j].of)

\* What was sent, by the rows and by the messages.
RowsSound ==
  \A s \in Stages : rows[s] # NoDate.of =>
    Current(s, rows[s]) /\ (rows[s] \in crossed \/ <<s, rows[s]>> \in told)
ToldSound ==
  \A m \in told : m[2] # NoDate.of /\ (m[2] \in crossed \/ rows[m[1]] = m[2])

\* A message was sent; or its stage was spent on a date on which two transactions
\* overlapped.
Reached(m) == m \in told \/ rows[m[1]] \in crossed

\* What a sweep found due and no outage took.
Owed == asked \ missed

\* It was sent, or its job waits, for as long as the account is what it is about.
AskedSound ==
  /\ \A m \in asked : m[2] # NoDate.of /\ m[2] = Deadline(sub, m[1]).of
  /\ \A m \in Owed : sub.status = Expected(m[1]) =>
       Reached(m) \/ \E j \in Slots : jobs[j].task.stage = m[1]

\* By the time the date has passed it was sent: no job that waits counts, for it ends
\* without a message once the account is suspended or gone.
WarnedInTime ==
  \A m \in Owed :
    sub.status = Expected(m[1]) /\ Deadline(sub, m[1]).left < 0 => Reached(m)

\* A sweep has asked for a message about the date, unless no sweep came before it.
Asked(d, stages) == d \in brief \/ \E m \in asked : m[1] \in stages /\ m[2] = d

AskedInTime ==
  /\ sub.status = "active" /\ sub.periodEnd.left <= 0 => Asked(sub.periodEnd.of, PreExpiry)
  /\ sub.status = "suspended" /\ sub.retentionUntil.left <= 0
       => Asked(sub.retentionUntil.of, RetentionStages)

Warned(d, stages) ==
  Asked(d, stages) /\ \A m \in Owed : m[1] \in stages /\ m[2] = d => Reached(m)

\* The inductive invariant of RenewalProofs.
Inductive ==
  TypeOK /\ Numbered /\ HeldSound /\ RowsSound /\ ToldSound /\ AskedSound /\ WarnedInTime

--------------------------------------------------------------------------------
(* Properties *)

\* "One reminder, one stage, at most once" (send-reminder.ts): for each date, unless
\* two transactions overlapped on it.
WarnedOnce ==
  [][\A s \in Stages : rows'[s] \notin {rows[s], NoDate.of} =>
       <<s, rows'[s]>> \notin told \/ rows'[s] \in crossed]_vars

\* Whoever is closed or deleted when the date has passed was warned of it: some sweep
\* found a message due while the date was to come, and every message that a sweep found
\* due was sent, however dates move and jobs are repeated.  The ways out: the date was
\* set so late that no sweep came before it, an outage took the message, no worker took
\* its job all day, or two transactions overlapped on the date (lifecycle-sweep.ts,
\* send-reminder.ts).
ClosedAfterWarning ==
  [][/\ (sub.status = "active" /\ sub'.status = "suspended" /\ sub.periodEnd.left < 0)
          => Warned(sub.periodEnd.of, PreExpiry)
     /\ (sub.status = "suspended" /\ sub'.status = "gone" /\ sub.retentionUntil.left < 0)
          => Warned(sub.retentionUntil.of, RetentionStages)]_vars

\* There is no grace: what has lapsed is suspended, unless its date is moved.
LapsedCloses ==
  (sub.status = "active" /\ sub.periodEnd.left < 0)
    ~> (sub.status # "active" \/ sub.periodEnd.left >= 0)

\* What a comment says and the code does not do, under a run of its own:

\* "active --currentPeriodEnd passed--> suspended", "suspended --retentionUntil passed-->
\* PURGED" (state-machine.ts): nobody is closed or deleted whose date is still to come.
DatesDecide ==
  [][/\ (sub.status = "active" /\ sub'.status = "suspended") => sub.periodEnd.left <= 0
     /\ (sub.status = "suspended" /\ sub'.status = "gone") => sub.retentionUntil.left <= 0]_vars

================================================================================
