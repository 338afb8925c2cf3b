---------------------------- MODULE RenewalProofs ----------------------------
(***************************************************************************)
(* Proofs about Renewal, for any number of operators and jobs, any length  *)
(* of a period and of the retention, and any number of requests and faults.*)
(***************************************************************************)
EXTENDS Renewal, TLAPS

Requests == [pc : {"idle", "extend", "extendRetention", "reactivate"}, base : Dates]
Subs == [status : {"active", "suspended", "gone"}, periodEnd : Dates, retentionUntil : Dates]

--------------------------------------------------------------------------------
(* Data *)

LEMMA NoDateTyped == NoDate \in Dates /\ NoDate.of = 0 /\ NoDate.left = -Late
<1>1. Late \in Nat
  BY RenewalAssumption
<1> QED
  BY <1>1 DEF NoDate, Date, Dates

LEMMA JobsTyped ==
  /\ NoJob \in JobStates /\ NoJob.pc = "free" /\ NoJob.task.stage = "none"
  /\ \A t \in Tasks : Queued(t) \in JobStates /\ Queued(t).pc = "queued" /\ Queued(t).task = t
<1>1. Attempts \in Nat
  BY RenewalAssumption
<1> QED
  BY <1>1, NoDateTyped DEF NoJob, Queued, Job, JobStates

LEMMA TasksStages ==
  \A t \in Tasks : t.kind = "remind" => t.stage \in Stages
BY DEF Tasks, Remind, Suspend, Purge

LEMMA StagesApart ==
  /\ "none" \notin Stages /\ PreExpiry \subseteq Stages /\ RetentionStages \subseteq Stages
  /\ \A s \in PreExpiry : s \notin RetentionStages
  /\ \A s \in Stages : s \in PreExpiry \/ s \in RetentionStages
BY DEF Stages, PreExpiry, RetentionStages

\* A date that is moved has an identity of its own.
LEMMA MovedTyped ==
  ASSUME dates \in Nat, NEW d \in Dates, NEW n \in Nat
  PROVE  Moved(d, n) \in Dates /\ Moved(d, n).of = dates + 1
<1>1. Late \in Nat
  BY RenewalAssumption
<1>2. d.left \in Int /\ d.left >= -Late /\ d.left + n \in Int /\ d.left + n >= -Late
  BY <1>1 DEF Dates
<1> QED
  BY <1>2 DEF Moved, Date, Dates

\* A message is its stage and its date.
LEMMA MessagesTyped ==
  ASSUME TypeOK, AskedSound
  PROVE  \A m \in asked : m[1] \in Stages /\ m = MessageOf(sub, m[1])
BY DEF TypeOK, AskedSound, MessageOf

--------------------------------------------------------------------------------
(* What all steps share *)

\* What is current after a step.
Stands(stage, d) ==
  \/ d \in crossed'
  \/ d = Deadline(sub', stage).of /\ (stage \in RetentionStages => sub'.status # "active")

\* A step that leaves a stage's date alone keeps what is current.
LEMMA CurrentStays ==
  ASSUME NEW s, NEW d, Current(s, d), crossed \subseteq crossed',
         Deadline(sub', s).of = Deadline(sub, s).of,
         (s \in RetentionStages /\ sub.status # "active") => sub'.status # "active"
  PROVE  Stands(s, d)
BY DEF Current, Stands

LEMMA CrossedGrows ==
  ASSUME TypeOK, NEW stages, NEW stale \in SUBSET Nat, Crossed(stages, stale)
  PROVE  /\ crossed \subseteq crossed' /\ stale \subseteq crossed'
         /\ crossed' \subseteq Nat
         /\ \A j \in Slots : (jobs[j].pc = "open" /\ jobs[j].task.stage \in stages)
              => jobs[j].of \in crossed'
<1>1. \A j \in Slots : jobs[j].of \in Nat
  BY DEF TypeOK, JobStates
<1> QED
  BY <1>1 DEF Crossed, TypeOK

\* The steps in which the account and what is known of its reminders stand still.
Still == UNCHANGED <<sub, rows, dates, told, asked, brief, crossed>>

\* Such a step keeps the jobs right if it opens no reminder and drops none of use.
LEMMA StillKeeps ==
  ASSUME Inductive, Still, missed \subseteq missed', missed' \subseteq Stages \X Nat,
         jobs' \in [Slots -> JobStates], request' \in [Operators -> Requests],
         begun' \in 0 .. MaxRequests, faults' \in 0 .. MaxFaults,
         HeldSound', Numbered',
         \A k \in Slots : (jobs[k].task.stage \in Stages /\ jobs'[k].task # jobs[k].task) =>
           \/ sub.status # Expected(jobs[k].task.stage)
           \/ rows[jobs[k].task.stage] # NoDate.of
           \/ MessageOf(sub, jobs[k].task.stage) \in missed'
  PROVE  Inductive'
<1>0. TypeOK /\ RowsSound /\ ToldSound /\ AskedSound /\ WarnedInTime
  BY DEF Inductive
<1>1. TypeOK'
  BY <1>0 DEF TypeOK, Still, Requests
<1>2. RowsSound' /\ ToldSound'
  BY <1>0 DEF RowsSound, ToldSound, Current, Still, Deadline
<1>3. \A m : Reached(m) => Reached(m)'
  BY DEF Reached, Still
<1>4. \A m \in Owed' : m \in Owed /\ m \in asked /\ m \notin missed'
  BY DEF Owed, Still
<1>5. AskedSound'
  <2>1. \A m \in asked' : m[2] # NoDate.of /\ m[2] = Deadline(sub', m[1]).of
    BY <1>0 DEF AskedSound, Still
  <2>2. ASSUME NEW m \in Owed', sub.status = Expected(m[1])
        PROVE  Reached(m)' \/ \E j \in Slots : jobs'[j].task.stage = m[1]
    <3>1. CASE Reached(m)
      BY <1>3, <3>1
    <3>2. CASE ~ Reached(m)
      <4>1. PICK k \in Slots : jobs[k].task.stage = m[1]
        BY <1>0, <1>4, <2>2, <3>2 DEF AskedSound
      <4>2. m[1] \in Stages /\ m = MessageOf(sub, m[1])
        BY <1>0, <1>4, MessagesTyped
      <4>3. CASE jobs'[k].task = jobs[k].task
        BY <4>1, <4>3
      <4>4. CASE rows[m[1]] # NoDate.of
        <5>1. rows[m[1]] \in crossed
              \/ (rows[m[1]] = Deadline(sub, m[1]).of /\ <<m[1], rows[m[1]]>> \in told)
          BY <1>0, <4>2, <4>4 DEF RowsSound, Current
        <5> QED
          BY <3>2, <4>2, <5>1 DEF Reached, MessageOf
      <4> QED
        BY <1>4, <2>2, <4>1, <4>2, <4>3, <4>4
    <3> QED
      BY <3>1, <3>2
  <2> QED
    BY <2>1, <2>2 DEF AskedSound, Still, Owed, Reached, NoDate, Date
<1>6. WarnedInTime'
  BY <1>0, <1>3, <1>4 DEF WarnedInTime, Still
<1> QED
  BY <1>1, <1>2, <1>5, <1>6 DEF Inductive

--------------------------------------------------------------------------------
(* Steps in which the account stands still *)

LEMMA JobLeaves ==
  ASSUME TypeOK, NEW j \in Slots, Ends(j) \/ Retries(j)
  PROVE  /\ jobs' \in [Slots -> JobStates]
         /\ \A k \in Slots : k # j => jobs'[k] = jobs[k]
         /\ jobs'[j] = NoJob \/ (jobs'[j].pc = "queued" /\ jobs'[j].task = jobs[j].task)
<1>1. CASE Ends(j)
  BY <1>1, JobsTyped DEF Ends, TypeOK
<1>2. CASE Retries(j)
  <2>1. CASE jobs[j].tries <= 1
    BY <1>2, <2>1, JobsTyped DEF Retries, TypeOK
  <2>2. CASE ~ (jobs[j].tries <= 1)
    <3> DEFINE new == Job(jobs[j].task, "queued", jobs[j].tries - 1)
    <3>1. jobs[j] \in JobStates /\ jobs[j].tries \in Nat
      BY DEF TypeOK, JobStates
    <3>2. new \in JobStates /\ new.pc = "queued" /\ new.task = jobs[j].task
      BY <2>2, <3>1, NoDateTyped DEF JobStates, Job
    <3>3. jobs' = [jobs EXCEPT ![j] = new]
      BY <1>2, <2>2 DEF Retries
    <3> HIDE DEF new
    <3> QED
      BY <3>2, <3>3 DEF TypeOK
  <2> QED
    BY <2>1, <2>2
<1> QED
  BY <1>1, <1>2

\* What a reminder holds stays current while the account stands still.
LEMMA HeldStays ==
  ASSUME Inductive, Still,
         \A k \in Slots : jobs'[k].pc # "open" \/ jobs'[k] = jobs[k]
  PROVE  HeldSound'
BY DEF Inductive, HeldSound, Current, Still, Deadline

LEMMA ReadReminderKeeps ==
  ASSUME Inductive, NEW j \in Slots, ReadReminder(j)
  PROVE  Inductive'
<1> DEFINE stage == jobs[j].task.stage
<1>0. TypeOK /\ Numbered /\ HeldSound /\ Still /\ UNCHANGED <<request, begun, faults, missed>>
      /\ jobs[j].task.kind = "remind" /\ sub.status # "gone" /\ jobs[j].pc = "queued"
  BY DEF Inductive, ReadReminder, OnlyJobs, NoFault, Still
<1>1. jobs[j] \in JobStates /\ jobs[j].task \in Tasks
  BY <1>0 DEF TypeOK, JobStates, NoJob, Job
<1>2. stage \in Stages
  BY <1>0, <1>1, TasksStages
<1>3. sub \in Subs /\ request \in [Operators -> Requests]
  BY <1>0 DEF TypeOK, Subs, Requests
<1>4. Numbered' /\ request' \in [Operators -> Requests]
      /\ begun' \in 0 .. MaxRequests /\ faults' \in 0 .. MaxFaults
      /\ missed \subseteq missed' /\ missed' \subseteq Stages \X Nat
  BY <1>0, <1>3 DEF Numbered, Still, TypeOK
<1>5. CASE sub.status = Expected(stage)
  <2> DEFINE of == Deadline(sub, stage).of
  <2>1. jobs' = [jobs EXCEPT ![j].pc = "open", ![j].of = of]
    BY <1>5 DEF ReadReminder
  <2>2. of \in Nat /\ of # NoDate.of
    <3>1. CASE stage \in RetentionStages
      <4>1. sub.status = "suspended" /\ of = sub.retentionUntil.of
        BY <1>5, <3>1 DEF Expected, Deadline
      <4> QED
        BY <1>0, <1>3, <4>1, NoDateTyped DEF Numbered, Subs, Dates
    <3>2. CASE stage \notin RetentionStages
      <4>1. of = sub.periodEnd.of
        BY <3>2 DEF Deadline
      <4> QED
        BY <1>0, <1>3, <4>1, NoDateTyped DEF Numbered, Subs, Dates, TypeOK
    <3> QED
      BY <3>1, <3>2
  <2>3. Current(stage, of)
    BY <1>5 DEF Current, Expected
  <2> HIDE DEF of
  <2>4. jobs' \in [Slots -> JobStates] /\ jobs'[j].of = of /\ jobs'[j].task = jobs[j].task
        /\ \A k \in Slots : k # j => jobs'[k] = jobs[k]
    BY <1>0, <1>1, <2>1, <2>2 DEF TypeOK, JobStates
  <2>5. HeldSound'
    BY <1>0, <2>2, <2>3, <2>4 DEF HeldSound, Current, Still, Deadline
  <2>6. \A k \in Slots : jobs'[k].task = jobs[k].task
    BY <2>4
  <2> QED
    BY <1>0, <1>4, <2>4, <2>5, <2>6, StillKeeps
<1>6. CASE sub.status # Expected(stage)
  <2>1. Ends(j)
    BY <1>6 DEF ReadReminder
  <2>2. jobs' \in [Slots -> JobStates] /\ \A k \in Slots : k # j => jobs'[k] = jobs[k]
    BY <1>0, <2>1, JobLeaves
  <2>3. jobs'[j] = NoJob
    BY <1>0, <2>1 DEF Ends, TypeOK
  <2>4. HeldSound'
    BY <1>0, <2>2, <2>3, HeldStays, JobsTyped
  <2>5. \A k \in Slots : jobs'[k].task # jobs[k].task => k = j
    BY <2>2
  <2> QED
    BY <1>0, <1>4, <1>6, <2>2, <2>4, <2>5, StillKeeps
<1> QED
  BY <1>5, <1>6

LEMMA SkipReminderKeeps ==
  ASSUME Inductive, NEW j \in Slots, SkipReminder(j)
  PROVE  Inductive'
<1> DEFINE stage == jobs[j].task.stage
<1>0. TypeOK /\ Numbered /\ Still /\ UNCHANGED <<request, begun, faults, missed>>
      /\ rows[stage] # NoDate.of /\ Ends(j) /\ jobs[j].task.kind = "remind" /\ jobs[j].pc = "open"
  BY DEF Inductive, SkipReminder, OnlyJobs, NoFault, Still
<1>1. jobs' \in [Slots -> JobStates] /\ \A k \in Slots : k # j => jobs'[k] = jobs[k]
  BY <1>0, JobLeaves
<1>2. jobs'[j] = NoJob
  BY <1>0 DEF Ends, TypeOK
<1>3. HeldSound'
  BY <1>0, <1>1, <1>2, HeldStays, JobsTyped
<1>4. Numbered' /\ request' \in [Operators -> Requests]
      /\ begun' \in 0 .. MaxRequests /\ faults' \in 0 .. MaxFaults
      /\ missed \subseteq missed' /\ missed' \subseteq Stages \X Nat
  BY <1>0 DEF Numbered, Still, TypeOK, Requests
<1>5. \A k \in Slots : jobs'[k].task # jobs[k].task => k = j
  BY <1>1
<1> QED
  BY <1>0, <1>1, <1>3, <1>4, <1>5, StillKeeps

\* The suspension leaves the account alone while it reads it, and so does a run that
\* fails; a reminder that fails for good is missed.
LEMMA OtherJobKeeps ==
  ASSUME Inductive, NEW j \in Slots, ReadSuspend(j) \/ FailRun(j)
  PROVE  Inductive'
<1> DEFINE task == jobs[j].task
<1>0. TypeOK /\ Numbered /\ Still /\ UNCHANGED <<request, begun>>
  BY DEF Inductive, ReadSuspend, FailRun, OnlyJobs, Still
<1>1. faults' \in 0 .. MaxFaults
  BY <1>0, RenewalAssumption DEF TypeOK, ReadSuspend, FailRun, Fault, NoFault
<1>2. jobs' \in [Slots -> JobStates] /\ (\A k \in Slots : k # j => jobs'[k] = jobs[k])
      /\ (ReadSuspend(j) => task = Suspend)
      /\ (jobs'[j].pc # "open" \/ (jobs'[j].task = Suspend))
  <2>1. CASE Retries(j)
    BY <1>0, <2>1, JobLeaves, JobsTyped DEF ReadSuspend
  <2>2. CASE ~ Retries(j)
    <3>1. task = Suspend /\ jobs' = [jobs EXCEPT ![j].pc = "open"]
      BY <2>2 DEF ReadSuspend, FailRun
    <3> QED
      BY <1>0, <3>1 DEF TypeOK, JobStates
  <2> QED
    BY <2>1, <2>2
<1>3. Suspend.stage = "none" /\ Suspend.kind = "suspend"
  BY DEF Suspend
<1>4. HeldSound'
  BY <1>0, <1>2, <1>3 DEF Inductive, HeldSound, Current, Still, Deadline
<1>5. Numbered' /\ request' \in [Operators -> Requests] /\ begun' \in 0 .. MaxRequests
  BY <1>0 DEF Numbered, Still, TypeOK, Requests
<1>6. CASE ReadSuspend(j)
  <2>1. UNCHANGED missed
    BY <1>6 DEF ReadSuspend
  <2>2. missed \subseteq missed' /\ missed' \subseteq Stages \X Nat
    BY <1>0, <2>1 DEF TypeOK
  <2>3. \A k \in Slots : jobs[k].task.stage \in Stages => jobs'[k].task = jobs[k].task
    BY <1>2, <1>3, <1>6, StagesApart
  <2> QED
    BY <1>0, <1>1, <1>2, <1>4, <1>5, <2>2, <2>3, StillKeeps
<1>7. CASE FailRun(j)
  <2>1. Retries(j) /\ missed' = missed \union
          IF jobs[j].tries <= 1 THEN Messages(sub, {task}) ELSE {}
    BY <1>7 DEF FailRun
  <2>2. task \in Tasks \union {NoJob.task} /\ jobs[j].tries \in Nat
    BY <1>0 DEF TypeOK, JobStates
  <2>3. task.kind = "remind" => task.stage \in Stages
    BY <2>2, TasksStages DEF NoJob, Job
  <2>4. Messages(sub, {task}) \subseteq Stages \X Nat
    <3>1. Deadline(sub, task.stage).of \in Nat
      BY <1>0 DEF Deadline, TypeOK, Dates
    <3> QED
      BY <2>3, <3>1 DEF Messages, MessageOf
  <2>5. missed \subseteq missed' /\ missed' \subseteq Stages \X Nat
    BY <1>0, <2>1, <2>4 DEF TypeOK
  <2>6. task.stage \in Stages /\ jobs'[j].task # task => MessageOf(sub, task.stage) \in missed'
    <3> SUFFICES ASSUME task.stage \in Stages, jobs'[j].task # task
                 PROVE  MessageOf(sub, task.stage) \in missed'
      OBVIOUS
    <3>1. jobs[j].tries <= 1
      BY <1>0, <2>1 DEF Retries, TypeOK, Job
    <3>2. task.kind = "remind"
      BY <2>2, StagesApart DEF Tasks, Remind, Suspend, Purge, NoJob, Job
    <3> QED
      BY <2>1, <3>1, <3>2 DEF Messages
  <2>7. \A k \in Slots : (jobs[k].task.stage \in Stages /\ jobs'[k].task # jobs[k].task) =>
          MessageOf(sub, jobs[k].task.stage) \in missed'
    BY <1>2, <2>6
  <2> QED
    BY <1>0, <1>1, <1>2, <1>4, <1>5, <2>5, <2>7, StillKeeps
<1> QED
  BY <1>6, <1>7

\* A request that is read, or given up.
LEMMA RequestKeeps ==
  ASSUME Inductive, NEW o \in Operators,
         ReadExtend(o) \/ ReadExtendRetention(o) \/ ReadReactivate(o) \/ Abandon(o)
  PROVE  Inductive'
<1>0. TypeOK /\ Numbered /\ Still /\ UNCHANGED <<jobs, faults, missed>>
  BY DEF Inductive, ReadExtend, ReadExtendRetention, ReadReactivate, Abandon, Asks, Answers, Still,
     owed
<1>1. sub \in Subs /\ request \in [Operators -> Requests] /\ dates \in Nat
  BY <1>0 DEF TypeOK, Subs, Requests
<1>2. begun' \in 0 .. MaxRequests
  BY <1>0, RenewalAssumption
     DEF TypeOK, ReadExtend, ReadExtendRetention, ReadReactivate, Abandon, Asks, Answers
<1>3. PICK r \in Requests : request' = [request EXCEPT ![o] = r]
  <2>1. CASE ReadExtend(o)
    <3> DEFINE r == [pc |-> "extend", base |-> sub.periodEnd]
    <3>1. r \in Requests
      BY <1>1 DEF Requests, Subs
    <3> QED
      BY <2>1, <3>1 DEF ReadExtend, Asks
  <2>2. CASE ReadExtendRetention(o)
    <3> DEFINE r == [pc |-> "extendRetention", base |-> sub.retentionUntil]
    <3>1. r \in Requests
      BY <1>1 DEF Requests, Subs
    <3> QED
      BY <2>2, <3>1 DEF ReadExtendRetention, Asks
  <2>3. CASE ReadReactivate(o)
    <3> DEFINE r == [pc |-> "reactivate", base |-> NoDate]
    <3>1. r \in Requests
      BY NoDateTyped DEF Requests
    <3> QED
      BY <2>3, <3>1 DEF ReadReactivate, Asks
  <2>4. CASE Abandon(o)
    <3>1. Idle \in Requests
      BY NoDateTyped DEF Requests, Idle
    <3> QED
      BY <2>4, <3>1 DEF Abandon, Answers
  <2> QED
    BY <2>1, <2>2, <2>3, <2>4
<1>4. request' \in [Operators -> Requests]
  BY <1>1, <1>3
<1>5. Numbered'
  BY <1>0 DEF Numbered, Still
<1>6. HeldSound' /\ jobs' \in [Slots -> JobStates] /\ faults' \in 0 .. MaxFaults
      /\ missed \subseteq missed' /\ missed' \subseteq Stages \X Nat
  BY <1>0, HeldStays DEF TypeOK
<1> QED
  BY <1>0, <1>2, <1>4, <1>5, <1>6, StillKeeps

--------------------------------------------------------------------------------
(* Steps that send, or that move a date *)

\* A message is about the date of the row, or about one that was overlapped.
LEMMA ToldCurrent ==
  ASSUME Inductive, NEW m \in told
  PROVE  /\ m[1] \in Stages /\ m[2] # NoDate.of
         /\ m[2] \in crossed \/ m[2] = Deadline(sub, m[1]).of
BY DEF Inductive, TypeOK, ToldSound, RowsSound, Current

\* What is known of the dates that are set keeps its type.
LEMMA RetoldTyped ==
  ASSUME TypeOK, sub' \in Subs, Retold
  PROVE  /\ told' \subseteq Stages \X Nat /\ asked' \subseteq Stages \X Nat
         /\ missed' \subseteq Stages \X Nat /\ brief' \subseteq Nat
BY DEF TypeOK, Retold, Standing, Subs, Dates

\* A step that sets the dates of some stages, whatever else it does.
LEMMA DateSet ==
  ASSUME Inductive, NEW changed \in SUBSET Stages, NEW stale \in SUBSET Nat,
         Crossed(changed, stale), Retold, rows' \in [Stages -> Nat],
         \A k \in Slots : jobs'[k] = jobs[k]
                          \/ (jobs'[k] = NoJob /\ jobs[k].task.stage \notin Stages),
         \A s \in Stages \ changed :
           /\ Deadline(sub', s) = Deadline(sub, s) /\ rows'[s] = rows[s]
           /\ (s \in RetentionStages /\ sub.status # "active") => sub'.status # "active"
           /\ sub'.status = Expected(s) => sub.status = Expected(s),
         \A s \in changed :
           /\ rows'[s] = NoDate.of \/ rows'[s] \in crossed'
           /\ Deadline(sub', s).of = NoDate.of \/ Deadline(sub', s).of # Deadline(sub, s).of
  PROVE  HeldSound' /\ RowsSound' /\ ToldSound' /\ AskedSound' /\ WarnedInTime'
<1>0. TypeOK /\ HeldSound /\ RowsSound /\ ToldSound /\ AskedSound /\ WarnedInTime
  BY DEF Inductive
<1>1. crossed \subseteq crossed' /\ stale \subseteq crossed'
      /\ \A j \in Slots : (jobs[j].pc = "open" /\ jobs[j].task.stage \in changed)
           => jobs[j].of \in crossed'
  BY <1>0, CrossedGrows
<1>2. HeldSound'
  <2> SUFFICES ASSUME NEW k \in Slots, jobs'[k].pc = "open", jobs'[k].task.kind = "remind"
               PROVE  jobs'[k].of # NoDate.of /\ Stands(jobs'[k].task.stage, jobs'[k].of)
    BY DEF HeldSound, Current, Stands, Deadline, NoDate, Date
  <2>1. jobs'[k] = jobs[k]
    BY JobsTyped
  <2>2. jobs[k].of # NoDate.of /\ Current(jobs[k].task.stage, jobs[k].of)
    BY <1>0, <2>1 DEF HeldSound
  <2>3. jobs[k].task.stage \in Stages
    BY <1>0, <2>1, TasksStages DEF TypeOK, JobStates, NoJob, Job
  <2>4. CASE jobs[k].task.stage \in changed
    BY <1>1, <2>1, <2>2, <2>4 DEF Stands
  <2>5. CASE jobs[k].task.stage \notin changed
    BY <1>1, <2>1, <2>2, <2>3, <2>5, CurrentStays
  <2> QED
    BY <2>4, <2>5
<1>3. RowsSound'
  <2> SUFFICES ASSUME NEW s \in Stages, rows'[s] # NoDate.of
               PROVE  Stands(s, rows'[s]) /\ (rows'[s] \in crossed' \/ <<s, rows'[s]>> \in told')
    BY DEF RowsSound, Current, Stands, Deadline, NoDate, Date
  <2>1. CASE s \in changed
    BY <2>1 DEF Stands
  <2>2. CASE s \notin changed
    <3>1. rows'[s] = rows[s] /\ Deadline(sub', s).of = Deadline(sub, s).of
      BY <2>2
    <3>2. Current(s, rows[s]) /\ (rows[s] \in crossed \/ <<s, rows[s]>> \in told)
      BY <1>0, <3>1 DEF RowsSound
    <3>3. Stands(s, rows[s])
      BY <1>1, <2>2, <3>1, <3>2, CurrentStays
    <3>4. CASE rows[s] \in crossed
      BY <1>1, <3>1, <3>3, <3>4
    <3>5. CASE rows[s] \notin crossed
      <4>1. <<s, rows[s]>> \in told /\ rows[s] = Deadline(sub', s).of
        BY <3>1, <3>2, <3>5 DEF Current
      <4> QED
        BY <3>1, <3>3, <4>1 DEF Retold, Standing
    <3> QED
      BY <3>4, <3>5
  <2> QED
    BY <2>1, <2>2
<1>4. ToldSound'
  <2> SUFFICES ASSUME NEW m \in told'
               PROVE  m[2] # NoDate.of /\ (m[2] \in crossed' \/ rows'[m[1]] = m[2])
    BY DEF ToldSound, NoDate, Date
  <2>1. m \in told /\ m[2] = Deadline(sub', m[1]).of
    BY DEF Retold, Standing
  <2>2. m[1] \in Stages /\ m[2] # NoDate.of
        /\ (m[2] \in crossed \/ m[2] = Deadline(sub, m[1]).of)
        /\ (m[2] \in crossed \/ rows[m[1]] = m[2])
    BY <1>0, <2>1, ToldCurrent DEF ToldSound
  <2> QED
    BY <1>1, <2>1, <2>2
<1>5. \A m \in asked' : m[2] # NoDate.of /\ m[2] = Deadline(sub', m[1]).of
  BY <1>0 DEF Retold, Standing, AskedSound
\* Nothing is owed yet of a date that was set; what is owed of the others stands.
<1>6. ASSUME NEW m \in Owed'
      PROVE  /\ m \in Owed /\ m[1] \in Stages \ changed
             /\ Reached(m) => Reached(m)'
  <2>1. m \in asked /\ m[2] = Deadline(sub', m[1]).of /\ m \notin missed
    BY DEF Owed, Retold, Standing
  <2>2. m[1] \in Stages /\ m[2] # NoDate.of /\ m[2] = Deadline(sub, m[1]).of
    BY <1>0, <2>1, MessagesTyped DEF AskedSound
  <2>3. m[1] \notin changed
    BY <2>1, <2>2
  <2>4. rows'[m[1]] = rows[m[1]] /\ (m \in told => m \in told')
    BY <2>1, <2>2, <2>3 DEF Retold, Standing
  <2> QED
    BY <1>1, <2>1, <2>2, <2>3, <2>4 DEF Owed, Reached
<1>7. AskedSound'
  <2> SUFFICES ASSUME NEW m \in Owed', sub'.status = Expected(m[1])
               PROVE  Reached(m)' \/ \E j \in Slots : jobs'[j].task.stage = m[1]
    BY <1>5 DEF AskedSound, Owed, Reached, Expected, NoDate, Date
  <2>1. m \in Owed /\ m[1] \in Stages \ changed /\ sub.status = Expected(m[1])
    BY <1>6
  <2>2. CASE Reached(m)
    BY <1>6, <2>2
  <2>3. CASE ~ Reached(m)
    BY <1>0, <2>1, <2>3 DEF AskedSound
  <2> QED
    BY <2>2, <2>3
<1>8. WarnedInTime'
  <2> SUFFICES ASSUME NEW m \in Owed', sub'.status = Expected(m[1]),
                      Deadline(sub', m[1]).left < 0
               PROVE  Reached(m)'
    BY DEF WarnedInTime, Owed, Reached, Expected, Deadline
  <2> QED
    BY <1>0, <1>6 DEF WarnedInTime
<1> QED
  BY <1>2, <1>3, <1>4, <1>7, <1>8

\* What the three transactions of an operator have in common: they set a date, free
\* its stages, and leave the jobs alone.
LEMMA CommitKeeps ==
  ASSUME Inductive, NEW o \in Operators, NEW changed \in SUBSET Stages,
         NEW stale \in SUBSET Nat, Reset(changed), Crossed(changed, stale), Answers(o),
         sub' \in Subs, dates' \in Nat, Numbered',
         \A s \in Stages \ changed :
           Deadline(sub', s) = Deadline(sub, s) /\ sub'.status = sub.status,
         \A s \in changed :
           Deadline(sub', s).of = NoDate.of \/ Deadline(sub', s).of # Deadline(sub, s).of
  PROVE  Inductive'
<1>0. TypeOK /\ request' = [request EXCEPT ![o] = Idle] /\ UNCHANGED <<jobs, begun, faults>>
  BY DEF Inductive, Answers
<1>1. rows' \in [Stages -> Nat] /\ Retold
      /\ \A s \in Stages : rows'[s] = IF s \in changed THEN NoDate.of ELSE rows[s]
  BY <1>0, NoDateTyped DEF Reset, TypeOK
<1>2. crossed' \subseteq Nat
  BY <1>0, CrossedGrows
<1>3. TypeOK'
  <2>1. request' \in [Operators -> Requests]
    BY <1>0, NoDateTyped DEF TypeOK, Requests, Idle
  <2> QED
    BY <1>0, <1>1, <1>2, <2>1, RetoldTyped DEF TypeOK, Subs, Requests
<1>4. HeldSound' /\ RowsSound' /\ ToldSound' /\ AskedSound' /\ WarnedInTime'
  BY <1>0, <1>1, DateSet
<1> QED
  BY <1>3, <1>4 DEF Inductive

LEMMA CommitExtendKeeps ==
  ASSUME Inductive, NEW o \in Operators, CommitExtend(o)
  PROVE  Inductive'
<1> DEFINE base == request[o].base
           new == Moved(base, Period)
           stale == IF base.of = sub.periodEnd.of THEN {} ELSE {new.of}
<1>0. TypeOK /\ Numbered /\ dates' = dates + 1
      /\ sub' = [sub EXCEPT !.periodEnd = new] /\ Reset(PreExpiry) /\ Crossed(PreExpiry, stale)
      /\ Answers(o)
  BY DEF Inductive, CommitExtend
<1>1. base \in Dates /\ sub \in Subs /\ dates \in Nat /\ Period \in Nat
  BY <1>0, RenewalAssumption DEF TypeOK, Subs
<1>2. new \in Dates /\ new.of = dates + 1
  BY <1>1, MovedTyped
<1> HIDE DEF new, base
<1>3. sub' \in Subs /\ sub'.periodEnd = new /\ sub'.retentionUntil = sub.retentionUntil
      /\ sub'.status = sub.status
  BY <1>0, <1>1, <1>2 DEF Subs
<1>4. stale \in SUBSET Nat
  BY <1>1, <1>2
<1>5. dates' \in Nat /\ Numbered'
  BY <1>0, <1>1, <1>2, <1>3 DEF Numbered
<1>6. /\ \A s \in Stages \ PreExpiry :
           Deadline(sub', s) = Deadline(sub, s) /\ sub'.status = sub.status
      /\ \A s \in PreExpiry : Deadline(sub', s).of # Deadline(sub, s).of
  <2>1. sub.periodEnd.of # dates + 1
    BY <1>0, <1>1 DEF Numbered
  <2> QED
    BY <1>2, <1>3, <2>1, StagesApart DEF Deadline
<1> HIDE DEF stale
<1> QED
  BY <1>0, <1>3, <1>4, <1>5, <1>6, CommitKeeps, StagesApart

LEMMA CommitExtendRetentionKeeps ==
  ASSUME Inductive, NEW o \in Operators, CommitExtendRetention(o)
  PROVE  Inductive'
<1> DEFINE base == request[o].base
<1>1. PICK nights \in Extensions :
        LET new == Moved(base, nights) IN
        /\ sub' = [sub EXCEPT !.retentionUntil = new]
        /\ dates' = dates + 1
        /\ Reset(RetentionStages)
        /\ Crossed(RetentionStages,
                   IF base.of = sub.retentionUntil.of THEN {} ELSE {new.of})
        /\ Answers(o)
  BY DEF CommitExtendRetention
<1> DEFINE new == Moved(base, nights)
           stale == IF base.of = sub.retentionUntil.of THEN {} ELSE {new.of}
<1>2. TypeOK /\ Numbered /\ dates' = dates + 1
      /\ sub' = [sub EXCEPT !.retentionUntil = new] /\ Reset(RetentionStages)
      /\ Crossed(RetentionStages, stale) /\ Answers(o)
  BY <1>1 DEF Inductive
<1>3. base \in Dates /\ sub \in Subs /\ dates \in Nat /\ nights \in Nat
  BY <1>2, RenewalAssumption DEF TypeOK, Subs
<1>4. new \in Dates /\ new.of = dates + 1
  BY <1>3, MovedTyped
<1> HIDE DEF new, base
<1>5. sub' \in Subs /\ sub'.periodEnd = sub.periodEnd /\ sub'.retentionUntil = new
      /\ sub'.status = sub.status
  BY <1>2, <1>3, <1>4 DEF Subs
<1>6. stale \in SUBSET Nat
  BY <1>3, <1>4
<1>7. dates' \in Nat /\ Numbered'
  BY <1>2, <1>3, <1>4, <1>5 DEF Numbered
<1>8. /\ \A s \in Stages \ RetentionStages :
           Deadline(sub', s) = Deadline(sub, s) /\ sub'.status = sub.status
      /\ \A s \in RetentionStages : Deadline(sub', s).of # Deadline(sub, s).of
  <2>1. sub.retentionUntil.of # dates + 1
    BY <1>2, <1>3 DEF Numbered
  <2> QED
    BY <1>4, <1>5, <2>1 DEF Deadline
<1> HIDE DEF stale
<1> QED
  BY <1>2, <1>5, <1>6, <1>7, <1>8, CommitKeeps, StagesApart

LEMMA CommitReactivateKeeps ==
  ASSUME Inductive, NEW o \in Operators, CommitReactivate(o)
  PROVE  Inductive'
<1> DEFINE new == Date(dates + 1, Period)
<1>0. TypeOK /\ Numbered /\ dates' = dates + 1
      /\ sub' = [status |-> "active", periodEnd |-> new, retentionUntil |-> NoDate]
      /\ Reset(Stages) /\ Crossed(Stages, {}) /\ Answers(o)
  BY DEF Inductive, CommitReactivate
<1>1. dates \in Nat /\ Period \in Nat /\ Late \in Nat
  BY <1>0, RenewalAssumption DEF TypeOK
<1>2. new \in Dates /\ new.of = dates + 1
  BY <1>1 DEF Date, Dates
<1> HIDE DEF new
<1>3. sub' \in Subs /\ sub'.status = "active" /\ sub'.periodEnd = new /\ sub'.retentionUntil = NoDate
  BY <1>0, <1>2, NoDateTyped DEF Subs
<1>4. dates' \in Nat /\ Numbered'
  BY <1>0, <1>1, <1>2, <1>3, NoDateTyped DEF Numbered
<1>5. \A s \in Stages :
        Deadline(sub', s).of = NoDate.of \/ Deadline(sub', s).of # Deadline(sub, s).of
  <2>1. sub.periodEnd.of # dates + 1
    BY <1>0, <1>1 DEF Numbered
  <2> QED
    BY <1>2, <1>3, <2>1 DEF Deadline
<1> QED
  BY <1>0, <1>3, <1>4, <1>5, CommitKeeps

LEMMA CommitSuspendKeeps ==
  ASSUME Inductive, NEW j \in Slots, CommitSuspend(j)
  PROVE  Inductive'
<1> DEFINE new == Date(dates + 1, Retention)
           stale == IF sub.status = "active" THEN {} ELSE {sub.retentionUntil.of}
<1>0. TypeOK /\ Numbered /\ RowsSound /\ dates' = dates + 1 /\ jobs[j].task = Suspend
      /\ sub' = [sub EXCEPT !.status = "suspended", !.retentionUntil = new]
      /\ Retold /\ Crossed(RetentionStages, stale) /\ Ends(j)
      /\ UNCHANGED <<rows, request, begun, faults>>
  BY DEF Inductive, CommitSuspend
<1>1. dates \in Nat /\ Retention \in Nat /\ Late \in Nat /\ sub \in Subs
      /\ sub.retentionUntil \in Dates
  BY <1>0, RenewalAssumption DEF TypeOK, Subs
<1>2. new \in Dates /\ new.of = dates + 1
  BY <1>1 DEF Date, Dates
<1> HIDE DEF new
<1>3. sub' \in Subs /\ sub'.status = "suspended" /\ sub'.periodEnd = sub.periodEnd
      /\ sub'.retentionUntil = new
  BY <1>0, <1>1, <1>2 DEF Subs
<1>4. stale \in SUBSET Nat
  BY <1>1 DEF Dates
<1>5. crossed \subseteq crossed' /\ crossed' \subseteq Nat /\ stale \subseteq crossed'
  BY <1>0, <1>4, CrossedGrows
<1>6. jobs' \in [Slots -> JobStates]
      /\ \A k \in Slots : jobs'[k] = jobs[k]
                          \/ (jobs'[k] = NoJob /\ jobs[k].task.stage \notin Stages)
  <2>1. jobs' = [jobs EXCEPT ![j] = NoJob]
    BY <1>0 DEF Ends
  <2>2. jobs[j].task.stage \notin Stages
    BY <1>0, StagesApart DEF Suspend
  <2> QED
    BY <1>0, <2>1, <2>2, JobsTyped DEF TypeOK
<1>7. TypeOK'
  BY <1>0, <1>1, <1>3, <1>5, <1>6, RetoldTyped DEF TypeOK, Subs
<1>8. Numbered'
  BY <1>0, <1>1, <1>2, <1>3 DEF Numbered
<1>9. HeldSound' /\ RowsSound' /\ ToldSound' /\ AskedSound' /\ WarnedInTime'
  <2>1. \A s \in Stages \ RetentionStages :
          /\ Deadline(sub', s) = Deadline(sub, s) /\ rows'[s] = rows[s]
          /\ (s \in RetentionStages /\ sub.status # "active") => sub'.status # "active"
          /\ sub'.status = Expected(s) => sub.status = Expected(s)
    BY <1>0, <1>3 DEF Deadline, Expected
  <2>2. \A s \in RetentionStages :
          /\ rows'[s] = NoDate.of \/ rows'[s] \in crossed'
          /\ Deadline(sub', s).of # Deadline(sub, s).of
    <3> SUFFICES ASSUME NEW s \in RetentionStages
                 PROVE  /\ rows'[s] = NoDate.of \/ rows'[s] \in crossed'
                        /\ Deadline(sub', s).of # Deadline(sub, s).of
      OBVIOUS
    <3>1. rows[s] # NoDate.of => Current(s, rows[s])
      BY <1>0, StagesApart DEF RowsSound
    <3>2. rows[s] # NoDate.of => rows[s] \in crossed'
      BY <1>5, <3>1 DEF Current, Deadline
    <3>3. sub.retentionUntil.of # dates + 1
      BY <1>0, <1>1 DEF Numbered
    <3> QED
      BY <1>0, <1>2, <1>3, <3>2, <3>3 DEF Deadline
  <2> HIDE DEF stale
  <2>3. rows' \in [Stages -> Nat]
    BY <1>0 DEF TypeOK
  <2> QED
    BY <1>0, <1>4, <1>6, <2>1, <2>2, <2>3, DateSet, StagesApart
<1> QED
  BY <1>7, <1>8, <1>9 DEF Inductive

LEMMA SendReminderKeeps ==
  ASSUME Inductive, NEW j \in Slots, SendReminder(j)
  PROVE  /\ Inductive'
         /\ <<jobs[j].task.stage, jobs[j].of>> \notin told \/ jobs[j].of \in crossed
<1> DEFINE stage == jobs[j].task.stage
           of == jobs[j].of
<1>0. TypeOK /\ Numbered /\ HeldSound /\ RowsSound /\ ToldSound /\ AskedSound /\ WarnedInTime
      /\ jobs[j].pc = "open" /\ jobs[j].task.kind = "remind" /\ rows[stage] = NoDate.of
      /\ rows' = [rows EXCEPT ![stage] = of] /\ told' = told \union {<<stage, of>>} /\ Ends(j)
      /\ UNCHANGED <<sub, request, dates, asked, missed, brief, crossed, begun, faults>>
  BY DEF Inductive, SendReminder, owed
<1>1. stage \in Stages /\ of \in Nat
  BY <1>0, TasksStages DEF TypeOK, JobStates, NoJob, Job
<1>2. of # NoDate.of /\ Current(stage, of)
  BY <1>0 DEF HeldSound
<1> HIDE DEF stage, of
<1>3. jobs' \in [Slots -> JobStates] /\ jobs'[j] = NoJob
      /\ \A k \in Slots : k # j => jobs'[k] = jobs[k]
  BY <1>0, JobsTyped DEF Ends, TypeOK
<1>4. rows' \in [Stages -> Nat] /\ rows'[stage] = of
      /\ \A s \in Stages : s # stage => rows'[s] = rows[s]
  BY <1>0, <1>1 DEF TypeOK
<1>5. TypeOK' /\ Numbered'
  BY <1>0, <1>1, <1>3, <1>4 DEF TypeOK, Numbered
<1>6. HeldSound'
  BY <1>0, <1>3, JobsTyped DEF HeldSound, Current, Deadline
<1>7. RowsSound'
  BY <1>0, <1>2, <1>4 DEF RowsSound, Current, Deadline
<1>8. ToldSound'
  <2> SUFFICES ASSUME NEW m \in told'
               PROVE  m[2] # NoDate.of /\ (m[2] \in crossed' \/ rows'[m[1]] = m[2])
    BY DEF ToldSound, NoDate, Date
  <2>1. CASE m = <<stage, of>>
    BY <1>2, <1>4, <2>1
  <2>2. CASE m \in told
    <3>1. m[1] \in Stages /\ m[2] # NoDate.of /\ (m[2] \in crossed \/ rows[m[1]] = m[2])
      BY <1>0, <2>2 DEF TypeOK, ToldSound
    <3> QED
      BY <1>0, <1>4, <3>1
  <2> QED
    BY <1>0, <2>1, <2>2
<1>9. ASSUME NEW m \in Owed
      PROVE  /\ m[1] = stage => Reached(m)'
             /\ m[1] # stage /\ Reached(m) => Reached(m)'
  <2>1. m[1] \in Stages /\ m = <<m[1], m[2]>> /\ m[2] = Deadline(sub, m[1]).of
    BY <1>0, MessagesTyped DEF Owed, AskedSound, MessageOf
  <2>2. m[1] # stage => rows'[m[1]] = rows[m[1]]
    BY <1>4, <2>1
  <2> QED
    BY <1>0, <1>2, <1>4, <2>1, <2>2 DEF Reached, Current
<1>11. Owed' = Owed
  BY <1>0 DEF Owed
<1>12. AskedSound'
  <2> SUFFICES ASSUME NEW m \in Owed, sub.status = Expected(m[1])
               PROVE  Reached(m)' \/ \E k \in Slots : jobs'[k].task.stage = m[1]
    BY <1>0, <1>11 DEF AskedSound, Reached, NoDate, Date
  <2>1. CASE m[1] = stage \/ Reached(m)
    BY <1>9, <2>1
  <2>2. CASE m[1] # stage /\ ~ Reached(m)
    <3>1. PICK k \in Slots : jobs[k].task.stage = m[1]
      BY <1>0, <2>2 DEF AskedSound
    <3> QED
      BY <1>3, <2>2, <3>1 DEF stage
  <2> QED
    BY <2>1, <2>2
<1>13. WarnedInTime'
  BY <1>0, <1>9, <1>11 DEF WarnedInTime, Reached
<1>10. <<stage, of>> \notin told \/ of \in crossed
  BY <1>0, <1>2 DEF ToldSound
<1> QED
  BY <1>5, <1>6, <1>7, <1>8, <1>10, <1>12, <1>13 DEF Inductive, stage, of

LEMMA RunPurgeKeeps ==
  ASSUME Inductive, NEW j \in Slots, RunPurge(j)
  PROVE  Inductive'
<1>0. TypeOK /\ Numbered /\ HeldSound /\ RowsSound /\ ToldSound /\ AskedSound
      /\ jobs[j].task = Purge
      /\ UNCHANGED <<rows, request, dates, told, asked, missed, brief, crossed, begun, faults>>
  BY DEF Inductive, RunPurge, owed
<1>1. Ends(j) \/ Retries(j)
  BY DEF RunPurge
<1>2. jobs' \in [Slots -> JobStates] /\ (\A k \in Slots : k # j => jobs'[k] = jobs[k])
      /\ (jobs'[j] = NoJob \/ (jobs'[j].pc = "queued" /\ jobs'[j].task = jobs[j].task))
  BY <1>0, <1>1, JobLeaves
<1>3. Purge.stage = "none"
  BY DEF Purge
<1>4. CASE sub.status = "suspended"
  <2>1. sub' = [sub EXCEPT !.status = "gone"]
    BY <1>4 DEF RunPurge
  <2>2. sub' \in Subs /\ sub'.status = "gone" /\ sub'.periodEnd = sub.periodEnd
        /\ sub'.retentionUntil = sub.retentionUntil
    BY <1>0, <2>1 DEF TypeOK, Subs
  <2>3. TypeOK' /\ Numbered'
    BY <1>0, <1>2, <2>2 DEF TypeOK, Numbered, Subs
  <2>4. HeldSound' /\ RowsSound' /\ ToldSound'
    BY <1>0, <1>2, <2>2, JobsTyped DEF HeldSound, RowsSound, ToldSound, Current, Deadline
  <2>5. AskedSound' /\ WarnedInTime'
    BY <1>0, <2>2 DEF AskedSound, WarnedInTime, Expected, Deadline
  <2> QED
    BY <2>3, <2>4, <2>5 DEF Inductive
<1>5. CASE sub.status # "suspended"
  <2>0. sub' = sub
    BY <1>0, <1>5 DEF RunPurge, TypeOK, Subs
  <2>1. Still
    BY <1>0, <2>0 DEF Still
  <2>2. HeldSound'
    BY <1>2, <2>1, HeldStays, JobsTyped
  <2>3. Numbered' /\ request' \in [Operators -> Requests] /\ begun' \in 0 .. MaxRequests
        /\ faults' \in 0 .. MaxFaults /\ missed \subseteq missed' /\ missed' \subseteq Stages \X Nat
    BY <1>0, <2>1 DEF Numbered, Still, TypeOK, Requests
  <2>4. \A k \in Slots : jobs[k].task.stage \in Stages => jobs'[k].task = jobs[k].task
    BY <1>0, <1>2, <1>3, StagesApart
  <2> QED
    BY <1>2, <2>1, <2>2, <2>3, <2>4, StillKeeps
<1> QED
  BY <1>4, <1>5

--------------------------------------------------------------------------------
(* A night *)

LEMMA SoonerTyped ==
  ASSUME NEW d \in Dates
  PROVE  Sooner(d) \in Dates /\ Sooner(d).of = d.of
<1>1. Late \in Nat
  BY RenewalAssumption
<1> QED
  BY <1>1 DEF Sooner, Dates

LEMMA StageFor ==
  ASSUME NEW left \in Int
  PROVE  PreExpiryStageFor(left) \in PreExpiry /\ RetentionStageFor(left) \in RetentionStages
<1>1. Three \in Nat
  BY RenewalAssumption
<1>2. PreExpiryStageFor(left) \in {"pre_expiry_t7", "pre_expiry_t3", "pre_expiry_t0"}
  BY <1>1 DEF PreExpiryStageFor
<1> QED
  BY <1>2 DEF RetentionStageFor, PreExpiry, RetentionStages

\* What the merchant should hear tonight is among what the sweep queues.
LEMMA DueTyped ==
  ASSUME NEW s \in Subs
  PROVE  /\ Due(s) \subseteq Tasks
         /\ \A m \in Expecting(s) :
              /\ m[1] \in Stages /\ m = MessageOf(s, m[1]) /\ Remind(m[1]) \in Due(s)
              /\ s.status = Expected(m[1]) /\ Deadline(s, m[1]).left >= 0
<1> DEFINE early == PreExpiryStageFor(s.periodEnd.left)
           late == RetentionStageFor(s.retentionUntil.left)
<1>1. s.periodEnd.left \in Int /\ s.retentionUntil.left \in Int /\ Week \in Nat
  BY RenewalAssumption DEF Subs, Dates
<1>2. early \in PreExpiry /\ late \in RetentionStages
  BY <1>1, StageFor
<1> HIDE DEF early, late
<1>3. Remind(early) \in Tasks /\ Remind(late) \in Tasks /\ Suspend \in Tasks /\ Purge \in Tasks
  BY <1>2, StagesApart DEF Tasks
<1>4. \A stage : MessageOf(s, stage)[1] = stage
  BY DEF MessageOf
<1>5. CASE s.status = "active"
  <2>1. Due(s) = (IF s.periodEnd.left <= Week THEN {Remind(early)} ELSE {})
                   \union (IF s.periodEnd.left < 0 THEN {Suspend} ELSE {})
    BY <1>5 DEF Due, early
  <2>2. Expecting(s) = IF s.periodEnd.left \in 0 .. Week THEN {MessageOf(s, early)} ELSE {}
    BY <1>5 DEF Expecting, early
  <2>3. Expected(early) = "active" /\ Deadline(s, early) = s.periodEnd
    BY <1>2, StagesApart DEF Expected, Deadline
  <2> QED
    BY <1>1, <1>2, <1>3, <1>4, <1>5, <2>1, <2>2, <2>3, StagesApart
<1>6. CASE s.status = "suspended"
  <2>1. Due(s) = IF s.retentionUntil.left < 0 THEN {Purge} \ {jobs[j].task : j \in Slots}
                 ELSE IF s.retentionUntil.left <= Week THEN {Remind(late)} ELSE {}
    BY <1>6 DEF Due, late
  <2>2. Expecting(s) = IF s.retentionUntil.left \in 0 .. Week THEN {MessageOf(s, late)} ELSE {}
    BY <1>6 DEF Expecting, late
  <2>3. Expected(late) = "suspended" /\ Deadline(s, late) = s.retentionUntil
    BY <1>2 DEF Expected, Deadline
  <2> QED
    BY <1>1, <1>2, <1>3, <1>4, <1>6, <2>1, <2>2, <2>3, StagesApart
<1>7. CASE s.status \notin {"active", "suspended"}
  BY <1>7 DEF Due, Expecting
<1> QED
  BY <1>5, <1>6, <1>7

LEMMA NightKeeps ==
  ASSUME Inductive, Night
  PROVE  Inductive'
<1> DEFINE room == {j \in Slots : jobs[j] = NoJob}
<1>0. TypeOK /\ Numbered /\ RowsSound /\ ToldSound /\ AskedSound /\ WarnedInTime
      /\ asked' = asked \union Expecting(sub')
      /\ sub' = [sub EXCEPT !.periodEnd = Sooner(sub.periodEnd),
                            !.retentionUntil = Sooner(sub.retentionUntil)]
      /\ (\A j \in Slots : jobs[j].pc # "open")
      /\ UNCHANGED <<rows, request, dates, told, brief, crossed, begun>>
  BY DEF Inductive, Night
<1>1. sub \in Subs /\ sub.periodEnd \in Dates /\ sub.retentionUntil \in Dates
  BY <1>0 DEF TypeOK, Subs
<1>2. sub' \in Subs /\ sub'.status = sub.status /\ sub'.periodEnd = Sooner(sub.periodEnd)
      /\ sub'.retentionUntil = Sooner(sub.retentionUntil)
  BY <1>0, <1>1, SoonerTyped DEF Subs
<1>3. sub'.periodEnd.of = sub.periodEnd.of /\ sub'.retentionUntil.of = sub.retentionUntil.of
  BY <1>1, <1>2, SoonerTyped
<1> DEFINE tonight == [sub EXCEPT !.periodEnd = Sooner(sub.periodEnd),
                                  !.retentionUntil = Sooner(sub.retentionUntil)]
           Sweeps(t, kept) ==
             /\ IF kept = Due(t) THEN NoFault ELSE Fault
             /\ missed' = ((missed \union Messages(t, {jobs[j].task : j \in Slots}))
                              \ Expecting(t)) \union Messages(t, Due(t) \ kept)
             /\ \E place \in [kept -> room] :
                  /\ \A u, v \in kept : place[u] = place[v] => u = v
                  /\ jobs' = [j \in Slots |->
                       IF \E u \in kept : place[u] = j
                       THEN Queued(CHOOSE u \in kept : place[u] = j) ELSE jobs[j]]
<1>4. PICK kept \in SUBSET Due(sub') : Sweeps(sub', kept)
  <2>1. sub' = tonight /\ \E kept \in SUBSET Due(tonight) : Sweeps(tonight, kept)
    BY Zenon DEF Night
  <2> HIDE DEF tonight, Sweeps
  <2> QED
    BY <2>1
<1>5. PICK place \in [kept -> room] :
        /\ \A t, u \in kept : place[t] = place[u] => t = u
        /\ jobs' = [j \in Slots |->
             IF \E t \in kept : place[t] = j
             THEN Queued(CHOOSE t \in kept : place[t] = j) ELSE jobs[j]]
  BY <1>4
<1>6. kept \subseteq Tasks
  BY <1>2, <1>4, DueTyped
<1>7. \A j \in Slots :
        \/ jobs'[j] = jobs[j] /\ \A t \in kept : place[t] # j
        \/ jobs[j] = NoJob /\ \E t \in kept : place[t] = j /\ jobs'[j] = Queued(t)
  <2> SUFFICES ASSUME NEW j \in Slots, \E t \in kept : place[t] = j
               PROVE  jobs[j] = NoJob /\ \E t \in kept : place[t] = j /\ jobs'[j] = Queued(t)
    BY <1>5
  <2>1. j \in room
    BY <1>5
  <2>2. (CHOOSE t \in kept : place[t] = j) \in kept /\ place[CHOOSE t \in kept : place[t] = j] = j
    OBVIOUS
  <2>3. jobs'[j] = Queued(CHOOSE t \in kept : place[t] = j)
    BY <1>5
  <2> QED
    BY <2>1, <2>2, <2>3
<1>8. \A t \in kept : \E j \in Slots : jobs'[j].task = t
  <2> SUFFICES ASSUME NEW t \in kept
               PROVE  \E j \in Slots : jobs'[j].task = t
    OBVIOUS
  <2>1. place[t] \in Slots
    BY <1>5
  <2>2. PICK u \in kept : place[u] = place[t] /\ jobs'[place[t]] = Queued(u)
    BY <1>7, <2>1
  <2>3. u = t /\ u \in Tasks
    BY <1>5, <1>6, <2>2
  <2> QED
    BY <2>1, <2>2, <2>3, JobsTyped
<1>9. jobs' \in [Slots -> JobStates] /\ \A j \in Slots : jobs'[j].pc # "open"
  <2>1. \A j \in Slots : jobs'[j] \in JobStates /\ jobs'[j].pc # "open"
    BY <1>0, <1>6, <1>7, JobsTyped DEF TypeOK
  <2>2. jobs' = [j \in Slots |-> jobs'[j]]
    BY <1>5
  <2> QED
    BY <2>1, <2>2
<1>10. faults' \in 0 .. MaxFaults
  <2>1. faults \in 0 .. MaxFaults /\ MaxFaults \in Nat
    BY <1>0, RenewalAssumption DEF TypeOK
  <2> QED
    BY <1>4, <2>1 DEF Fault, NoFault
<1>11. TypeOK'
  <2>1. \A s \in Stages : MessageOf(sub', s) \in Stages \X Nat
    BY <1>1, <1>2, <1>3 DEF MessageOf, Deadline, Dates
  <2>2. Due(sub') \subseteq Tasks /\ Expecting(sub') \subseteq Stages \X Nat
    BY <1>2, <2>1, DueTyped
  <2>3. \A j \in Slots : jobs[j].task.kind = "remind" => jobs[j].task.stage \in Stages
    BY <1>0, TasksStages DEF TypeOK, JobStates, NoJob, Job
  <2>4. Messages(sub', {jobs[j].task : j \in Slots}) \subseteq Stages \X Nat
    BY <2>1, <2>3 DEF Messages
  <2>5. Messages(sub', Due(sub') \ kept) \subseteq Stages \X Nat
    BY <2>1, <2>2, TasksStages DEF Messages
  <2>6. asked' \subseteq Stages \X Nat /\ missed' \subseteq Stages \X Nat
    BY <1>0, <1>4, <2>2, <2>4, <2>5 DEF TypeOK
  <2> QED
    BY <1>0, <1>2, <1>9, <1>10, <2>6 DEF TypeOK, Subs
<1>12. Numbered'
  BY <1>0, <1>2, <1>3 DEF Numbered
<1>13. HeldSound' /\ RowsSound' /\ ToldSound'
  <2>1. \A s : Deadline(sub', s).of = Deadline(sub, s).of
    BY <1>3 DEF Deadline
  <2>2. RowsSound'
    <3>1. \A s \in Stages : rows[s] # NoDate.of => Stands(s, rows[s])
      BY <1>0, <1>2, <2>1, CurrentStays DEF RowsSound
    <3> QED
      BY <1>0, <3>1 DEF RowsSound, Stands, Current, Deadline
  <2> QED
    BY <1>0, <1>9, <2>2 DEF HeldSound, ToldSound
\* What is owed after the sweep has a job; what was owed before it, and is not due
\* again, had none left, so it was sent.
<1>14. ASSUME NEW m \in Owed'
       PROVE  \/ m \in Expecting(sub') /\ \E j \in Slots : jobs'[j].task.stage = m[1]
              \/ m \notin Expecting(sub') /\ m \in Owed /\ \A j \in Slots : jobs[j].task.stage # m[1]
  <2>1. m \in asked \union Expecting(sub') /\ m \notin missed'
    BY <1>0 DEF Owed
  <2>2. CASE m \in Expecting(sub')
    <3>1. m[1] \in Stages /\ m = MessageOf(sub', m[1]) /\ Remind(m[1]) \in Due(sub')
      BY <1>2, <2>2, DueTyped
    <3>2. Remind(m[1]).kind = "remind" /\ Remind(m[1]).stage = m[1]
      BY DEF Remind
    <3>3. Remind(m[1]) \in kept
      BY <1>4, <2>1, <3>1, <3>2 DEF Messages
    <3> QED
      BY <1>8, <2>2, <3>2, <3>3
  <2>3. CASE m \notin Expecting(sub')
    <3>1. m \in asked /\ m \notin missed /\ m \notin Messages(sub', {jobs[j].task : j \in Slots})
      BY <1>4, <2>1, <2>3
    <3>2. m[1] \in Stages /\ m = MessageOf(sub, m[1])
      BY <1>0, <3>1, MessagesTyped
    <3>3. m = MessageOf(sub', m[1])
      BY <1>3, <3>2 DEF MessageOf, Deadline
    <3>4. ASSUME NEW j \in Slots, jobs[j].task.stage = m[1] PROVE FALSE
      <4>1. jobs[j].task.kind = "remind"
        BY <1>0, <3>2, <3>4, StagesApart
           DEF TypeOK, JobStates, Tasks, Remind, Suspend, Purge, NoJob, Job
      <4> QED
        BY <3>1, <3>3, <3>4, <4>1 DEF Messages
    <3> QED
      BY <2>3, <3>1, <3>4 DEF Owed
  <2> QED
    BY <2>2, <2>3
<1>15. \A m : Reached(m) => Reached(m)'
  BY <1>0 DEF Reached
<1>16. AskedSound'
  <2>1. \A m \in asked' : m[2] # NoDate.of /\ m[2] = Deadline(sub', m[1]).of
    <3>1. \A m \in asked : m[2] # NoDate.of /\ m[2] = Deadline(sub', m[1]).of
      BY <1>0, <1>3 DEF AskedSound, Deadline
    <3>2. ASSUME NEW m \in Expecting(sub')
          PROVE  m[2] # NoDate.of /\ m[2] = Deadline(sub', m[1]).of
      <4>1. m = MessageOf(sub', m[1]) /\ sub'.status = Expected(m[1])
        BY <1>2, <3>2, DueTyped
      <4>2. sub'.periodEnd.of > 0 /\ (sub'.status = "suspended" => sub'.retentionUntil.of > 0)
        BY <1>0, <1>2, <1>3, <1>11 DEF Numbered, TypeOK
      <4> QED
        BY <4>1, <4>2, NoDateTyped DEF MessageOf, Deadline, Expected
    <3> QED
      BY <1>0, <3>1, <3>2
  <2>2. ASSUME NEW m \in Owed', sub'.status = Expected(m[1])
        PROVE  Reached(m)' \/ \E j \in Slots : jobs'[j].task.stage = m[1]
    BY <1>0, <1>2, <1>14, <1>15, <2>2 DEF AskedSound
  <2> QED
    BY <2>1, <2>2 DEF AskedSound, Owed, Reached, Expected, NoDate, Date
<1>17. WarnedInTime'
  <2> SUFFICES ASSUME NEW m \in Owed', sub'.status = Expected(m[1]),
                      Deadline(sub', m[1]).left < 0
               PROVE  Reached(m)'
    BY DEF WarnedInTime, Owed, Reached, Expected, Deadline
  <2>1. m \notin Expecting(sub')
    <3>1. m \in Expecting(sub') => Deadline(sub', m[1]).left >= 0 /\ m[1] \in Stages
      BY <1>2, DueTyped
    <3>2. Deadline(sub', m[1]).left \in Int
      BY <1>2 DEF Deadline, Subs, Dates
    <3> QED
      BY <3>1, <3>2
  <2> QED
    BY <1>0, <1>2, <1>14, <1>15, <2>1 DEF AskedSound
<1> QED
  BY <1>11, <1>12, <1>13, <1>16, <1>17 DEF Inductive

--------------------------------------------------------------------------------
(* Every date is asked about before it passes, unless it was set too late *)

\* A step that sets dates: one that it leaves alone stays asked about.
LEMMA AskedStays ==
  ASSUME Retold, NEW stages, NEW date, Asked(date.of, stages),
         date \in {sub'.periodEnd, sub'.retentionUntil},
         \A s \in stages : Deadline(sub', s) = date
  PROVE  date.of \in brief' \/ \E m \in asked' : m[1] \in stages /\ m[2] = date.of
<1>1. CASE date.of \in brief
  BY <1>1 DEF Retold
<1>2. ASSUME NEW m \in asked, m[1] \in stages, m[2] = date.of PROVE m \in asked'
  BY <1>2 DEF Retold, Standing
<1> QED
  BY <1>1, <1>2 DEF Asked

\* ... and one that it sets in the past is brief.
LEMMA BriefSet ==
  ASSUME Retold, NEW date \in Dates, date \in {sub'.periodEnd, sub'.retentionUntil},
         date.of > dates, date.left <= 0
  PROVE  date.of \in brief'
BY DEF Retold

LEMMA CommitAsks ==
  ASSUME Inductive, AskedInTime, NEW o \in Operators,
         CommitExtend(o) \/ CommitExtendRetention(o) \/ CommitReactivate(o), Inductive'
  PROVE  AskedInTime'
<1>0. dates \in Nat /\ sub \in Subs /\ sub' \in Subs /\ Period \in Nat \ {0}
      /\ request[o].base \in Dates /\ Extensions \subseteq Nat
  BY RenewalAssumption DEF Inductive, TypeOK, Subs
<1>1. Retold
  BY DEF CommitExtend, CommitExtendRetention, CommitReactivate, Reset
<1>2. sub'.status = "active" /\ sub'.periodEnd.left <= 0
        => sub'.periodEnd.of \in brief' \/ \E m \in asked' : m[1] \in PreExpiry /\ m[2] = sub'.periodEnd.of
  <2> SUFFICES ASSUME sub'.status = "active", sub'.periodEnd.left <= 0
               PROVE  sub'.periodEnd.of \in brief'
                      \/ \E m \in asked' : m[1] \in PreExpiry /\ m[2] = sub'.periodEnd.of
    OBVIOUS
  <2>1. CASE CommitExtend(o)
    <3>1. sub'.periodEnd = Moved(request[o].base, Period)
      BY <1>0, <2>1 DEF CommitExtend, Subs
    <3>2. sub'.periodEnd \in Dates /\ sub'.periodEnd.of > dates
      BY <1>0, <3>1, MovedTyped
    <3> QED
      BY <1>1, <3>2, BriefSet
  <2>2. CASE CommitExtendRetention(o)
    <3>1. sub'.status = sub.status /\ sub'.periodEnd = sub.periodEnd
      BY <1>0, <2>2 DEF CommitExtendRetention, Subs
    <3>2. Asked(sub'.periodEnd.of, PreExpiry)
      BY <3>1 DEF AskedInTime
    <3>3. \A s \in PreExpiry : Deadline(sub', s) = sub'.periodEnd
      BY StagesApart DEF Deadline
    <3> QED
      BY <1>1, <3>2, <3>3, AskedStays
  <2>3. CASE CommitReactivate(o)
    BY <1>0, <2>3 DEF CommitReactivate, Date
  <2> QED
    BY <2>1, <2>2, <2>3
<1>3. sub'.status = "suspended" /\ sub'.retentionUntil.left <= 0
        => sub'.retentionUntil.of \in brief'
           \/ \E m \in asked' : m[1] \in RetentionStages /\ m[2] = sub'.retentionUntil.of
  <2> SUFFICES ASSUME sub'.status = "suspended", sub'.retentionUntil.left <= 0
               PROVE  sub'.retentionUntil.of \in brief'
                      \/ \E m \in asked' : m[1] \in RetentionStages /\ m[2] = sub'.retentionUntil.of
    OBVIOUS
  <2>1. CASE CommitExtend(o)
    <3>1. sub'.status = sub.status /\ sub'.retentionUntil = sub.retentionUntil
      BY <1>0, <2>1 DEF CommitExtend, Subs
    <3>2. Asked(sub'.retentionUntil.of, RetentionStages)
      BY <3>1 DEF AskedInTime
    <3>3. \A s \in RetentionStages : Deadline(sub', s) = sub'.retentionUntil
      BY DEF Deadline
    <3> QED
      BY <1>1, <3>2, <3>3, AskedStays
  <2>2. CASE CommitExtendRetention(o)
    <3>1. PICK nights \in Extensions : sub'.retentionUntil = Moved(request[o].base, nights)
      BY <1>0, <2>2 DEF CommitExtendRetention, Subs
    <3>2. sub'.retentionUntil \in Dates /\ sub'.retentionUntil.of > dates
      BY <1>0, <3>1, MovedTyped
    <3> QED
      BY <1>1, <3>2, BriefSet
  <2>3. CASE CommitReactivate(o)
    BY <2>3 DEF CommitReactivate
  <2> QED
    BY <2>1, <2>2, <2>3
<1> QED
  BY <1>2, <1>3 DEF AskedInTime, Asked

\* The sweep of the last night before a date asks for a message about it.
LEMMA NightAsks ==
  ASSUME Inductive, AskedInTime, Night
  PROVE  AskedInTime'
<1>0. sub \in Subs /\ Late \in Nat \ {0} /\ Week \in Nat
      /\ asked' = asked \union Expecting(sub') /\ brief' = brief
      /\ sub' = [sub EXCEPT !.periodEnd = Sooner(sub.periodEnd),
                            !.retentionUntil = Sooner(sub.retentionUntil)]
  BY RenewalAssumption DEF Inductive, TypeOK, Subs, Night
<1>1. sub'.status = sub.status /\ sub'.periodEnd = Sooner(sub.periodEnd)
      /\ sub'.retentionUntil = Sooner(sub.retentionUntil)
      /\ sub.periodEnd \in Dates /\ sub.retentionUntil \in Dates
  BY <1>0 DEF Subs
<1>2. ASSUME NEW d \in Dates, Sooner(d).left <= 0
      PROVE  d.left <= 0 \/ Sooner(d).left = 0
  BY <1>0, <1>2 DEF Sooner, Dates
<1>3. ASSUME NEW d, NEW stages, Asked(d, stages)
      PROVE  d \in brief' \/ \E m \in asked' : m[1] \in stages /\ m[2] = d
  BY <1>0, <1>3 DEF Asked
<1>4. ASSUME sub'.status = "active", sub'.periodEnd.left <= 0
      PROVE  sub.periodEnd.of \in brief'
             \/ \E m \in asked' : m[1] \in PreExpiry /\ m[2] = sub.periodEnd.of
  <2>1. CASE sub.periodEnd.left <= 0
    BY <1>1, <1>3, <1>4, <2>1 DEF AskedInTime
  <2>2. CASE sub'.periodEnd.left = 0
    <3> DEFINE m == MessageOf(sub', PreExpiryStageFor(sub'.periodEnd.left))
    <3>1. m \in asked'
      BY <1>0, <1>4, <2>2 DEF Expecting
    <3>2. PreExpiryStageFor(sub'.periodEnd.left) \in PreExpiry
      BY <2>2, StageFor
    <3>3. m[1] \in PreExpiry /\ m[2] = sub'.periodEnd.of
      BY <3>2, StagesApart DEF MessageOf, Deadline
    <3>4. sub'.periodEnd.of = sub.periodEnd.of
      BY <1>1, SoonerTyped
    <3> QED
      BY <3>1, <3>3, <3>4
  <2> QED
    BY <1>1, <1>2, <1>4, <2>1, <2>2
<1>5. ASSUME sub'.status = "suspended", sub'.retentionUntil.left <= 0
      PROVE  sub.retentionUntil.of \in brief'
             \/ \E m \in asked' : m[1] \in RetentionStages /\ m[2] = sub.retentionUntil.of
  <2>1. CASE sub.retentionUntil.left <= 0
    BY <1>1, <1>3, <1>5, <2>1 DEF AskedInTime
  <2>2. CASE sub'.retentionUntil.left = 0
    <3> DEFINE m == MessageOf(sub', RetentionStageFor(sub'.retentionUntil.left))
    <3>1. m \in asked'
      BY <1>0, <1>5, <2>2 DEF Expecting
    <3>2. RetentionStageFor(sub'.retentionUntil.left) \in RetentionStages
      BY <2>2, StageFor
    <3>3. m[1] \in RetentionStages /\ m[2] = sub'.retentionUntil.of
      BY <3>2 DEF MessageOf, Deadline
    <3>4. sub'.retentionUntil.of = sub.retentionUntil.of
      BY <1>1, SoonerTyped
    <3> QED
      BY <3>1, <3>3, <3>4
  <2> QED
    BY <1>1, <1>2, <1>5, <2>1, <2>2
<1>6. sub'.periodEnd.of = sub.periodEnd.of /\ sub'.retentionUntil.of = sub.retentionUntil.of
  BY <1>1, SoonerTyped
<1> QED
  BY <1>4, <1>5, <1>6 DEF AskedInTime, Asked

--------------------------------------------------------------------------------
(* Theorems *)

LEMMA InitSound == Init => Inductive
<1> SUFFICES ASSUME Init PROVE Inductive
  OBVIOUS
<1>1. Period \in Nat \ {0} /\ MaxRequests \in Nat /\ MaxFaults \in Nat /\ Late \in Nat
  BY RenewalAssumption
<1> DEFINE first == Date(1, Period)
<1>2. first \in Dates /\ first.of = 1 /\ first.left = Period
  BY <1>1 DEF Date, Dates
<1> HIDE DEF first
<1>3. sub = [status |-> "active", periodEnd |-> first, retentionUntil |-> NoDate]
  BY DEF Init, first
<1>4. Idle \in Requests /\ Idle.pc = "idle"
  BY NoDateTyped DEF Idle, Requests
<1>5. TypeOK
  BY <1>1, <1>2, <1>3, <1>4, NoDateTyped, JobsTyped DEF Init, TypeOK, Requests
<1>6. Numbered
  BY <1>2, <1>3, <1>4, NoDateTyped DEF Init, Numbered
<1>7. HeldSound /\ RowsSound /\ ToldSound
  BY JobsTyped DEF Init, HeldSound, RowsSound, ToldSound
<1>8. AskedSound /\ WarnedInTime
  BY DEF Init, AskedSound, WarnedInTime, Owed
<1> QED
  BY <1>5, <1>6, <1>7, <1>8 DEF Inductive

LEMMA StepSound == Inductive /\ [Next]_vars => Inductive'
<1> SUFFICES ASSUME Inductive, [Next]_vars PROVE Inductive'
  OBVIOUS
<1>1. CASE Night
  BY <1>1, NightKeeps
<1>2. ASSUME NEW j \in Slots, Run(j) PROVE Inductive'
  BY <1>2, ReadReminderKeeps, SendReminderKeeps, SkipReminderKeeps, OtherJobKeeps,
     CommitSuspendKeeps, RunPurgeKeeps DEF Run
<1>3. ASSUME NEW o \in Operators, Operate(o) PROVE Inductive'
  BY <1>3, RequestKeeps, CommitExtendKeeps, CommitExtendRetentionKeeps, CommitReactivateKeeps
     DEF Operate
<1>4. CASE UNCHANGED vars
  BY <1>4 DEF vars, Inductive, TypeOK, Numbered, HeldSound, RowsSound, ToldSound, Current,
              AskedSound, WarnedInTime, Owed, Reached, Deadline
<1> QED
  BY <1>1, <1>2, <1>3, <1>4 DEF Next

LEMMA AskedStep == Inductive /\ AskedInTime /\ [Next]_vars => AskedInTime'
<1> SUFFICES ASSUME Inductive, AskedInTime, [Next]_vars PROVE AskedInTime'
  OBVIOUS
<1>1. ASSUME UNCHANGED <<asked, brief>>,
             sub' = sub \/ (sub' = [sub EXCEPT !.status = "gone"] /\ sub \in Subs)
      PROVE  AskedInTime'
  BY <1>1 DEF AskedInTime, Asked, Subs
<1>2. CASE Night
  BY <1>2, NightAsks
<1>3. ASSUME NEW j \in Slots, Run(j) PROVE AskedInTime'
  <2>1. CASE CommitSuspend(j)
    <3>1. sub'.status = "suspended" /\ sub'.retentionUntil.left = Retention
      BY <2>1 DEF CommitSuspend, Date, Inductive, TypeOK
    <3> QED
      BY <3>1, RenewalAssumption DEF AskedInTime
  <2>2. CASE RunPurge(j)
    BY <1>1, <2>2 DEF RunPurge, owed, Inductive, TypeOK, Subs
  <2>3. CASE SendReminder(j)
    BY <1>1, <2>3 DEF SendReminder, owed
  <2>4. CASE ReadReminder(j) \/ SkipReminder(j) \/ ReadSuspend(j) \/ FailRun(j)
    BY <1>1, <2>4 DEF ReadReminder, SkipReminder, ReadSuspend, FailRun, OnlyJobs
  <2> QED
    BY <1>3, <2>1, <2>2, <2>3, <2>4 DEF Run
<1>4. ASSUME NEW o \in Operators, Operate(o) PROVE AskedInTime'
  <2>1. CASE CommitExtend(o) \/ CommitExtendRetention(o) \/ CommitReactivate(o)
    BY <2>1, CommitAsks, CommitExtendKeeps, CommitExtendRetentionKeeps, CommitReactivateKeeps
  <2>2. CASE ReadExtend(o) \/ ReadExtendRetention(o) \/ ReadReactivate(o) \/ Abandon(o)
    BY <1>1, <2>2
       DEF ReadExtend, ReadExtendRetention, ReadReactivate, Abandon, Asks, Answers, owed
  <2> QED
    BY <1>4, <2>1, <2>2 DEF Operate
<1>5. CASE UNCHANGED vars
  BY <1>1, <1>5 DEF vars
<1> QED
  BY <1>2, <1>3, <1>4, <1>5 DEF Next

\* Types, the numbers of dates, what a reminder holds, what was sent, and that whatever a
\* sweep found due and no outage took has its job or was sent, and was sent once the date
\* has passed, for every instance of Renewal.
THEOREM InductiveHolds == Spec => []Inductive
BY InitSound, StepSound, PTL DEF Spec

\* A stage is sent at most once for a date, unless two transactions overlapped on it.
THEOREM WarnedOnceHolds == Spec => WarnedOnce
<1> DEFINE Once == \A s \in Stages : rows'[s] \notin {rows[s], NoDate.of} =>
                     <<s, rows'[s]>> \notin told \/ rows'[s] \in crossed
<1>1. Inductive /\ [Next]_vars => [Once]_vars
  <2> SUFFICES ASSUME Inductive, Next, NEW s \in Stages, rows'[s] \notin {rows[s], NoDate.of}
               PROVE  <<s, rows'[s]>> \notin told \/ rows'[s] \in crossed
    OBVIOUS
  <2>1. rows \in [Stages -> Nat]
    BY DEF Inductive, TypeOK
  <2>2. PICK j \in Slots : SendReminder(j)
    <3>1. ASSUME NEW stages, Reset(stages) PROVE FALSE
      BY <3>1, <2>1 DEF Reset
    <3>2. ASSUME NEW o \in Operators, Operate(o) PROVE FALSE
      <4>1. CASE ReadExtend(o) \/ ReadExtendRetention(o) \/ ReadReactivate(o) \/ Abandon(o)
        BY <4>1 DEF ReadExtend, ReadExtendRetention, ReadReactivate, Asks, Abandon
      <4>2. CASE CommitExtend(o) \/ CommitExtendRetention(o) \/ CommitReactivate(o)
        BY <4>2, <3>1 DEF CommitExtend, CommitExtendRetention, CommitReactivate
      <4> QED
        BY <3>2, <4>1, <4>2 DEF Operate
    <3>3. ASSUME Night PROVE FALSE
      BY <3>3 DEF Night
    <3>4. ASSUME NEW k \in Slots, Run(k) PROVE SendReminder(k)
      BY <3>4 DEF Run, ReadReminder, SkipReminder, ReadSuspend, CommitSuspend, RunPurge, FailRun,
                  OnlyJobs
    <3> QED
      BY <3>2, <3>3, <3>4 DEF Next
  <2>3. rows' = [rows EXCEPT ![jobs[j].task.stage] = jobs[j].of] /\ UNCHANGED crossed
    BY <2>2 DEF SendReminder
  <2>4. s = jobs[j].task.stage /\ rows'[s] = jobs[j].of
    BY <2>1, <2>3
  <2> QED
    BY <2>2, <2>4, SendReminderKeeps
<1>2. [][Once]_vars => WarnedOnce
  BY PTL DEF WarnedOnce
<1> QED
  BY <1>1, <1>2, InductiveHolds, PTL DEF Spec

\* Some sweep asks for a message about a date before it passes, unless the date was set
\* so late that none came.
THEOREM AskedInTimeHolds == Spec => []AskedInTime
<1>1. Init => AskedInTime
  BY RenewalAssumption DEF Init, AskedInTime, Date
<1> QED
  BY <1>1, AskedStep, InductiveHolds, PTL DEF Spec

\* Whoever is closed or deleted when the date has passed was warned of it: a sweep asked
\* for a message, and every one it asked for and no outage took was sent.
THEOREM ClosedAfterWarningHolds == Spec => ClosedAfterWarning
<1> DEFINE Warns ==
      /\ (sub.status = "active" /\ sub'.status = "suspended" /\ sub.periodEnd.left < 0)
           => Warned(sub.periodEnd.of, PreExpiry)
      /\ (sub.status = "suspended" /\ sub'.status = "gone" /\ sub.retentionUntil.left < 0)
           => Warned(sub.retentionUntil.of, RetentionStages)
<1>1. Inductive /\ AskedInTime => Warns
  <2> SUFFICES ASSUME Inductive, AskedInTime PROVE Warns
    OBVIOUS
  <2>1. sub.periodEnd.left \in Int /\ sub.retentionUntil.left \in Int
    BY DEF Inductive, TypeOK, Dates
  <2>2. sub.status = "active" /\ sub.periodEnd.left < 0
          => \A m \in Owed : m[1] \in PreExpiry => Reached(m)
    BY StagesApart DEF Inductive, WarnedInTime, Expected, Deadline
  <2>3. sub.status = "suspended" /\ sub.retentionUntil.left < 0
          => \A m \in Owed : m[1] \in RetentionStages => Reached(m)
    BY DEF Inductive, WarnedInTime, Expected, Deadline
  <2> QED
    BY <2>1, <2>2, <2>3 DEF Warned, AskedInTime
<1>2. [][Warns]_vars => ClosedAfterWarning
  BY PTL DEF ClosedAfterWarning
<1> QED
  BY <1>1, <1>2, InductiveHolds, AskedInTimeHolds, PTL DEF Spec
==============================================================================
