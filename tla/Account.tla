-------------------------------- MODULE Account --------------------------------
(***************************************************************************)
(* The life of one account: its Subscription and Tenant rows, the export   *)
(* archive in object storage, and every handler that changes them          *)
(* (src/server/billing, src/server/export, src/server/jobs).               *)
(*                                                                         *)
(* A transaction of withTenantTxn reads the row, decides, and writes it by *)
(* id.  Nothing locks the row in between and the database runs READ        *)
(* COMMITTED, so each such transaction is two steps here: one that reads   *)
(* (pc leaves "idle") and one that writes what was decided on that read.   *)
(* A conditional updateMany is one step, as it is one statement.           *)
(*                                                                         *)
(* Time is a calendar day, because the storage key of an archive is made   *)
(* of the day of the suspension.  0 stands for a NULL column.              *)
(***************************************************************************)
EXTENDS Naturals, FiniteSets

CONSTANTS
  Requests,    \* handlers of the web process: an operator's server actions
  Workers,     \* handlers of the worker process: jobs of the lifecycle queue
  Ops,         \* the operator's actions under study
  Period,      \* days a payment adds to the period
  Retention,   \* RETENTION_DAYS
  MaxDay,      \* bound: the last day
  MaxGen,      \* bound: suspensions in one behaviour
  MaxCrashes,  \* bound: handlers that die half way
  Undelivered  \* bound: jobs whose every dispatch is lost

Operations == {"suspend", "reactivate", "extend", "extendRetention", "reissue",
               "purge", "rebuild"}

\* "export" and "verify" under an id of the suspension or of the operator's
\* click, "retry" and "recheck" the same jobs under the ids of the sweep.
Jobs == {"suspend", "export", "retry", "verify", "recheck", "purge"}

ASSUME AccountAssumption ==
  /\ Requests \cap Workers = {}
  /\ Ops \subseteq Operations
  /\ Period \in Nat \ {0}
  /\ Retention \in Nat \ {0}
  /\ MaxDay \in Nat
  /\ MaxGen \in Nat
  /\ MaxCrashes \in Nat
  /\ Undelivered \subseteq Jobs

VARIABLES
  day,      \* the calendar day
  recent,   \* EXPORT_IN_FLIGHT_WINDOW_MS has not passed since the suspension
  state,    \* tenants.state, "gone" once the row is deleted
  sub,      \* the subscriptions row
  gens,     \* how many suspensions have committed
  objects,  \* keys of the archives in object storage
  jobs,     \* jobs waiting in the lifecycle queue
  failed,   \* dead jobs the queue keeps: their ids cannot be enqueued again
  proc,     \* what each handler is doing and what it read
  alert,    \* the export_failed alert was raised
  crashes,  \* handlers that died so far
  \* History, read by properties only:
  made,     \* suspensions whose archive was stamped
  told,     \* suspensions whose merchant was sent the link
  unsaid,   \* suspensions whose handler died after the stamp, before it told
  days,     \* days on which a suspension committed
  shared,   \* two suspensions committed on one day: their archives share a key
  raced,    \* a purge and another transition overlapped between read and write
  lost      \* keys whose builder or remover died before it finished

vars == <<day, recent, state, sub, gens, objects, jobs, failed, proc, alert,
          crashes, made, told, unsaid, days, shared, raced, lost>>

row     == <<state, sub>>
queue   == <<jobs, failed>>
faults  == <<alert, crashes>>
history == <<made, told, unsaid, days, shared, raced, lost>>
clock   == <<day, recent>>

Procs == Requests \cup Workers

--------------------------------------------------------------------------------
(* State *)

\* Jobs the sweep enqueues under the same id every night.
Retained == {"retry", "recheck", "purge"}

\* withTenantTxn: a tenant that is being purged, or is gone, refuses the work.
Admits == state \notin {"purging", "gone"}

\* The handler that has nothing to do.
Idle == [pc |-> "idle", job |-> "none", gen |-> 0, opened |-> 0, key |-> 0, base |-> 0]

\* The row a cascade leaves behind.
NoRow == [status |-> "none", periodEnd |-> 0, gen |-> 0, opened |-> 0,
          retention |-> 0, key |-> 0]

\* A handler between the read and the write of a transaction that writes by id.
Writing == {"suspend", "reactivate", "extend", "extendRetention", "reissue",
            "announce", "quiesce", "delete"}

Building == {"read", "put", "stampCheck", "stamp", "takeBack", "announceCheck"}

Pcs == {"idle", "schedule", "discard", "drain", "sweepPrefix"} \cup Writing \cup Building

\* createAccount: an account starts active, with a period and nothing else.
Init ==
  /\ day = 1
  /\ recent = FALSE
  /\ state = "active"
  /\ sub = [NoRow EXCEPT !.status = "active", !.periodEnd = 1 + Period]
  /\ gens = 0
  /\ objects = {}
  /\ jobs = {}
  /\ failed = {}
  /\ proc = [p \in Procs |-> Idle]
  /\ alert = FALSE
  /\ crashes = 0
  /\ made = {}
  /\ told = {}
  /\ unsaid = {}
  /\ days = {}
  /\ shared = FALSE
  /\ raced = FALSE
  /\ lost = {}

Goto(p, pc) == proc' = [proc EXCEPT ![p].pc = pc]
Done(p)     == proc' = [proc EXCEPT ![p] = Idle]

\* An operator's action starts in a request; a job is taken off the queue.
ByRequest(p, op, to) ==
  /\ p \in Requests /\ op \in Ops
  /\ proc[p] = Idle
  /\ proc' = [proc EXCEPT ![p] = to]
  /\ UNCHANGED queue

ByJob(p, j, to) ==
  /\ p \in Workers /\ j \in jobs
  /\ proc[p] = Idle
  /\ proc' = [proc EXCEPT ![p] = [to EXCEPT !.job = j]]
  /\ jobs' = jobs \ {j}
  /\ UNCHANGED failed

--------------------------------------------------------------------------------
(* suspend *)

BeginSuspend(p) ==
  /\ Admits /\ sub.status = "active"
  /\ gens < MaxGen
  /\ LET to == [Idle EXCEPT !.pc = "suspend"]
     IN  ByRequest(p, "suspend", to) \/ ByJob(p, "suspend", to)
  /\ UNCHANGED <<clock, row, gens, objects, faults, history>>

CommitSuspend(p) ==
  /\ proc[p].pc = "suspend" /\ state # "gone"
  /\ gens < MaxGen
  /\ gens' = gens + 1
  /\ sub' = [sub EXCEPT !.status = "suspended", !.gen = gens + 1, !.opened = day,
                        !.retention = day + Retention, !.key = 0]
  /\ state' = "suspended"
  /\ recent' = TRUE
  /\ days' = days \cup {day}
  /\ shared' = (shared \/ day \in days)
  /\ raced' = (raced \/ state = "purging")
  /\ Goto(p, "schedule")
  /\ UNCHANGED <<day, objects, queue, faults, made, told, unsaid, lost>>

\* scheduleSuspensionExport: two dispatches, each of them best effort.
Schedule(p) ==
  /\ proc[p].pc = "schedule"
  /\ UNCHANGED failed
  /\ \E accepted \in SUBSET ({"export", "verify"} \ Undelivered) : jobs' = jobs \cup accepted
  /\ Done(p)
  /\ UNCHANGED <<clock, row, gens, objects, faults, history>>

--------------------------------------------------------------------------------
(* reactivate, extend, extendRetention, reissueExportLink *)

\* Mutant of BeginReactivate: the artifact goes before the row stops pointing at it.
BeginReactivateDiscarding(p) ==
  /\ Admits /\ sub.status = "suspended"
  /\ ByRequest(p, "reactivate", [Idle EXCEPT !.pc = "reactivate"])
  /\ objects' = objects \ {sub.key}
  /\ UNCHANGED <<clock, row, gens, faults, history>>

BeginReactivate(p) ==
  /\ Admits /\ sub.status = "suspended"
  /\ ByRequest(p, "reactivate", [Idle EXCEPT !.pc = "reactivate", !.key = sub.key])
  /\ UNCHANGED <<clock, row, gens, objects, faults, history>>

CommitReactivate(p) ==
  /\ proc[p].pc = "reactivate" /\ state # "gone"
  /\ sub' = [NoRow EXCEPT !.status = "active", !.periodEnd = day + Period]
  /\ state' = "active"
  /\ raced' = (raced \/ state = "purging")
  /\ IF proc[p].key # 0 THEN Goto(p, "discard") ELSE Done(p)
  /\ UNCHANGED <<clock, gens, objects, queue, faults, made, told, unsaid, days, shared, lost>>

\* Storage answers, or it does not and the object stays.
Remove(key) ==
  \/ objects' = objects \ {key} /\ UNCHANGED lost
  \/ lost' = lost \cup {key} /\ UNCHANGED objects

\* The artifact goes only after the row no longer points at it.
Discard(p) ==
  /\ proc[p].pc = "discard"
  /\ Remove(proc[p].key)
  /\ Done(p)
  /\ UNCHANGED <<clock, row, gens, queue, faults, made, told, unsaid, days, shared, raced>>

BeginExtend(p) ==
  /\ Admits /\ sub.status = "active" /\ sub.periodEnd <= MaxDay + Period
  /\ ByRequest(p, "extend", [Idle EXCEPT !.pc = "extend", !.base = sub.periodEnd])
  /\ UNCHANGED <<clock, row, gens, objects, faults, history>>

CommitExtend(p) ==
  /\ proc[p].pc = "extend" /\ state # "gone"
  /\ sub' = [sub EXCEPT !.periodEnd = proc[p].base + Period]
  /\ Done(p)
  /\ UNCHANGED <<clock, state, gens, objects, queue, faults, history>>

BeginExtendRetention(p) ==
  /\ Admits /\ sub.status = "suspended" /\ sub.retention <= MaxDay + Retention
  /\ ByRequest(p, "extendRetention",
               [Idle EXCEPT !.pc = "extendRetention",
                            !.base = IF sub.retention = 0 THEN day ELSE sub.retention])
  /\ UNCHANGED <<clock, row, gens, objects, faults, history>>

CommitExtendRetention(p) ==
  /\ proc[p].pc = "extendRetention" /\ state # "gone"
  /\ sub' = [sub EXCEPT !.retention = proc[p].base + Retention]
  /\ Done(p)
  /\ UNCHANGED <<clock, state, gens, objects, queue, faults, history>>

BeginReissue(p) ==
  /\ Admits /\ sub.status = "suspended"
  /\ ByRequest(p, "reissue", [Idle EXCEPT !.pc = "reissue", !.gen = sub.gen, !.key = sub.key])
  /\ UNCHANGED <<clock, row, gens, objects, faults, history>>

\* The token rotates; the message goes out again only if the archive is there.
CommitReissue(p) ==
  /\ proc[p].pc = "reissue" /\ state # "gone"
  /\ told' = IF proc[p].key # 0 THEN told \cup {proc[p].gen} ELSE told
  /\ Done(p)
  /\ UNCHANGED <<clock, row, gens, objects, queue, faults, made, unsaid, days, shared,
                 raced, lost>>

--------------------------------------------------------------------------------
(* The export of a suspension: read, build, stamp, announce *)

\* The operator's button: another export job beside whatever is queued.
Rebuild ==
  /\ "rebuild" \in Ops
  /\ sub.status = "suspended" /\ "export" \notin jobs
  /\ jobs' = jobs \cup {"export"}
  /\ UNCHANGED <<clock, row, gens, objects, failed, proc, faults, history>>

\* The build is skipped when the archive is there; the message is not.
BeginExport(p) ==
  /\ Admits /\ sub.status = "suspended"
  /\ LET to == [Idle EXCEPT !.pc = IF sub.key = 0 THEN "read" ELSE "announceCheck",
                            !.gen = sub.gen, !.opened = sub.opened]
     IN  ByJob(p, "export", to) \/ ByJob(p, "retry", to)
  /\ UNCHANGED <<clock, row, gens, objects, faults, history>>

\* readPhase, in a transaction of its own: refused, the job fails.
ReadPhase(p) ==
  /\ proc[p].pc = "read"
  /\ IF Admits THEN Goto(p, "put") ELSE Done(p)
  /\ UNCHANGED <<clock, row, gens, objects, queue, faults, history>>

\* The archive could not be built or stored, attempt after attempt.
BuildFails(p) ==
  /\ proc[p].pc = "put"
  /\ failed' = failed \cup ({proc[p].job} \cap Retained)
  /\ Done(p)
  /\ UNCHANGED <<clock, row, gens, objects, jobs, faults, history>>

\* suspensionExportKey(...): the key is the day of the suspension.
Put(p) ==
  /\ proc[p].pc = "put"
  /\ objects' = objects \cup {proc[p].opened}
  /\ Goto(p, "stampCheck")
  /\ UNCHANGED <<clock, row, gens, queue, faults, history>>

\* Mutant of StampCheck: the refusal propagates and nothing is taken back.
StampCheckThrowing(p) ==
  /\ proc[p].pc = "stampCheck"
  /\ IF Admits THEN Goto(p, "stamp") ELSE Done(p)
  /\ UNCHANGED <<clock, row, gens, objects, queue, faults, history>>

\* The stamp's transaction opens, or throws and is treated as a refusal.
StampCheck(p) ==
  /\ proc[p].pc = "stampCheck"
  /\ Goto(p, IF Admits THEN "stamp" ELSE "takeBack")
  /\ UNCHANGED <<clock, row, gens, objects, queue, faults, history>>

\* Mutants of Stands: any row will do, and any suspension will do.
StandsAnyRow(p)        == sub.status # "none"
StandsAnySuspension(p) == sub.status = "suspended"

\* stampSuspensionExport: does this suspension still stand?
Stands(p) == sub.status = "suspended" /\ sub.gen = proc[p].gen

Stamp(p) ==
  /\ proc[p].pc = "stamp"
  /\ IF Stands(p)
     THEN /\ sub' = [sub EXCEPT !.key = proc[p].opened]
          /\ made' = made \cup {proc[p].gen}
          /\ Goto(p, "announceCheck")
     ELSE /\ Goto(p, "takeBack")
          /\ UNCHANGED <<sub, made>>
  /\ UNCHANGED <<clock, state, gens, objects, queue, faults, told, unsaid, days, shared,
                 raced, lost>>

TakeBack(p) ==
  /\ proc[p].pc = "takeBack"
  /\ Remove(proc[p].opened)
  /\ Done(p)
  /\ UNCHANGED <<clock, row, gens, queue, faults, made, told, unsaid, days, shared, raced>>

AnnounceCheck(p) ==
  /\ proc[p].pc = "announceCheck"
  /\ IF Admits /\ Stands(p) THEN Goto(p, "announce") ELSE Done(p)
  /\ UNCHANGED <<clock, row, gens, objects, queue, faults, history>>

Announce(p) ==
  /\ proc[p].pc = "announce" /\ state # "gone"
  /\ told' = told \cup {proc[p].gen}
  /\ Done(p)
  /\ UNCHANGED <<clock, row, gens, objects, queue, faults, made, unsaid, days, shared,
                 raced, lost>>

\* verifySuspensionExport: at most one unread alert.
Verify ==
  /\ Admits
  /\ \E j \in {"verify", "recheck"} \cap jobs : jobs' = jobs \ {j}
  /\ alert' = (alert \/ (sub.status = "suspended" /\ sub.key = 0))
  /\ UNCHANGED <<clock, row, gens, objects, failed, proc, crashes, history>>

\* Its only attempt fails or dies.
VerifyFails ==
  /\ crashes < MaxCrashes
  /\ crashes' = crashes + 1
  /\ \E j \in {"verify", "recheck"} \cap jobs :
       jobs' = jobs \ {j} /\ failed' = failed \cup ({j} \cap Retained)
  /\ UNCHANGED <<clock, row, gens, objects, proc, alert, history>>

--------------------------------------------------------------------------------
(* purgeTenant: quiesce, drain, sweep the prefix, delete *)

\* An operator waits while an export may be in flight; the nightly job does not.
Unhurried == state = "purging" \/ sub.key # 0 \/ ~recent

BeginPurge(p) ==
  /\ state # "gone" /\ sub.status = "suspended"
  /\ LET to == [Idle EXCEPT !.pc = "quiesce"]
     IN  \/ Unhurried /\ ByRequest(p, "purge", to)
         \/ ByJob(p, "purge", to)
  /\ UNCHANGED <<clock, row, gens, objects, faults, history>>

Quiesce(p) ==
  /\ proc[p].pc = "quiesce" /\ state # "gone"
  /\ state' = "purging"
  /\ raced' = (raced \/ sub.status # "suspended")
  /\ Goto(p, "drain")
  /\ UNCHANGED <<clock, sub, gens, objects, queue, faults, made, told, unsaid, days, shared, lost>>

\* drainTenantJobs: best effort, and only what no worker has taken.
Drain(p) ==
  /\ proc[p].pc = "drain"
  /\ jobs' \in {{}, jobs}
  /\ Goto(p, "sweepPrefix")
  /\ UNCHANGED <<clock, row, gens, objects, failed, faults, history>>

SweepPrefix(p) ==
  /\ proc[p].pc = "sweepPrefix"
  /\ objects' = {}
  /\ Goto(p, "delete")
  /\ UNCHANGED <<clock, row, gens, queue, faults, history>>

\* The cascade takes the rows; nothing reads the status again.
Delete(p) ==
  /\ proc[p].pc = "delete" /\ state # "gone"
  /\ state' = "gone"
  /\ sub' = NoRow
  /\ Done(p)
  /\ UNCHANGED <<clock, gens, objects, queue, faults, history>>

\* The row a handler read is gone: its write fails and changes nothing.
Abandon(p) ==
  /\ proc[p].pc \in Writing /\ state = "gone"
  /\ Done(p)
  /\ UNCHANGED <<clock, row, gens, objects, queue, faults, history>>

--------------------------------------------------------------------------------
(* The queue, the nightly sweep, time and failure *)

\* The handler's own load refuses: the job ends without effect.
Refused(j) ==
  CASE j = "suspend"            -> ~Admits \/ sub.status # "active"
    [] j \in {"export", "retry"} -> ~Admits \/ sub.status # "suspended"
    [] j \in {"verify", "recheck"} -> ~Admits
    [] j = "purge"              -> state = "gone" \/ sub.status # "suspended"

DropJob ==
  /\ \E j \in jobs : Refused(j) /\ jobs' = jobs \ {j}
  /\ UNCHANGED <<clock, row, gens, objects, failed, proc, faults, history>>

\* Mutants of Due: an account left in "purging" is not selected again; the
\* backstop for a missing archive is left out.
DueUnlessPurging ==
  IF state \in {"purging", "gone"} THEN {}
  ELSE CASE sub.status = "active"    -> IF sub.periodEnd <= day THEN {"suspend"} ELSE {}
         [] sub.status = "suspended" ->
              IF sub.retention <= day THEN {"purge"}
              ELSE IF sub.key = 0 /\ ~recent THEN {"retry", "recheck"} ELSE {}

DueNoBackstop ==
  IF state = "gone" THEN {}
  ELSE CASE sub.status = "active"    -> IF sub.periodEnd <= day THEN {"suspend"} ELSE {}
         [] sub.status = "suspended" -> IF sub.retention <= day THEN {"purge"} ELSE {}

\* sweepSubscriptions: what is due for this account tonight.
Due ==
  IF state = "gone" THEN {}
  ELSE CASE sub.status = "active"    -> IF sub.periodEnd <= day THEN {"suspend"} ELSE {}
         [] sub.status = "suspended" ->
              IF sub.retention <= day THEN {"purge"}
              ELSE IF sub.key = 0 /\ ~recent THEN {"retry", "recheck"} ELSE {}

\* Best effort, and a no-op under the id of a job that is still there.
Sweep(j) ==
  /\ j \in Due /\ j \notin jobs \cup failed \cup Undelivered
  /\ \A w \in Workers : j \in Retained => proc[w].job # j
  /\ jobs' = jobs \cup {j}
  /\ UNCHANGED <<clock, row, gens, objects, failed, proc, faults, history>>

\* removeOnFail: a dead job is forgotten after a week.
Forget ==
  /\ failed # {}
  /\ failed' = {}
  /\ UNCHANGED <<clock, row, gens, objects, jobs, proc, faults, history>>

WindowCloses ==
  /\ recent
  /\ recent' = FALSE
  /\ UNCHANGED <<day, row, gens, objects, queue, proc, faults, history>>

NextDay ==
  /\ day < MaxDay
  /\ day' = day + 1
  /\ recent' = FALSE
  /\ UNCHANGED <<row, gens, objects, queue, proc, faults, history>>

\* What a handler leaves in storage when it dies here.
Orphaned(p) ==
  CASE proc[p].pc \in {"stampCheck", "stamp", "takeBack"} -> {proc[p].opened}
    [] proc[p].pc = "discard"                             -> {proc[p].key}
    [] OTHER                                              -> {}

\* A handler dies between two of its steps.  The queue gives its job to another
\* worker, or keeps it as dead when that was the last attempt.
Crash(p) ==
  /\ crashes < MaxCrashes /\ proc[p] # Idle
  /\ crashes' = crashes + 1
  /\ lost' = lost \cup Orphaned(p)
  /\ Done(p)
  /\ \/ jobs' = jobs \cup ({proc[p].job} \cap Jobs) /\ UNCHANGED <<failed, unsaid>>
     \/ failed' = failed \cup ({proc[p].job} \cap Retained) /\ UNCHANGED jobs
        /\ unsaid' = IF proc[p].pc \in {"announceCheck", "announce"}
                     THEN unsaid \cup {proc[p].gen} ELSE unsaid
  /\ UNCHANGED <<clock, row, gens, objects, alert, made, told, days, shared, raced>>

--------------------------------------------------------------------------------
(* The specification *)

\* A handler or a job that starts.
Begin(p) ==
  \/ BeginSuspend(p) \/ BeginReactivate(p) \/ BeginExtend(p)
  \/ BeginExtendRetention(p) \/ BeginReissue(p) \/ BeginExport(p) \/ BeginPurge(p)

\* A handler that has started and takes its next step.
Step(p) ==
  \/ CommitSuspend(p) \/ Schedule(p)
  \/ CommitReactivate(p) \/ Discard(p)
  \/ CommitExtend(p) \/ CommitExtendRetention(p) \/ CommitReissue(p)
  \/ ReadPhase(p) \/ BuildFails(p) \/ Put(p) \/ StampCheck(p) \/ Stamp(p)
  \/ TakeBack(p) \/ AnnounceCheck(p) \/ Announce(p)
  \/ Quiesce(p) \/ Drain(p) \/ SweepPrefix(p) \/ Delete(p)
  \/ Abandon(p)

Next ==
  \/ \E p \in Procs : Begin(p) \/ Step(p) \/ Crash(p)
  \/ \E j \in Jobs : Sweep(j)
  \/ Rebuild \/ Verify \/ VerifyFails \/ DropJob \/ Forget \/ WindowCloses \/ NextDay

Spec == Init /\ [][Next]_vars

\* Handlers that started go on, the queue hands out what it holds, the sweep
\* comes round and the clock passes the window.  Nothing makes a day end, an
\* operator act or a build succeed.
Fairness ==
  /\ \A p \in Procs : WF_vars(Step(p))
  /\ \A j \in Jobs : WF_vars(Sweep(j))
  /\ WF_vars(\E w \in Workers : BeginExport(w))
  /\ WF_vars(\E w \in Workers : "purge" \in jobs /\ BeginPurge(w))
  /\ WF_vars(Verify) /\ WF_vars(DropJob) /\ WF_vars(Forget) /\ WF_vars(WindowCloses)

FairSpec == Spec /\ Fairness

--------------------------------------------------------------------------------
(* Properties *)

SubRows ==
  [status : {"none", "active", "suspended"}, periodEnd : Nat, gen : Nat, opened : Nat,
   retention : Nat, key : Nat]

ProcStates ==
  [pc : Pcs, job : Jobs \cup {"none"}, gen : Nat, opened : Nat, key : Nat, base : Nat]

\* Every variable keeps its type.
TypeOK ==
  /\ day \in Nat /\ recent \in BOOLEAN
  /\ state \in {"active", "suspended", "purging", "gone"}
  /\ sub \in SubRows
  /\ gens \in Nat
  /\ objects \subseteq Nat
  /\ jobs \subseteq Jobs /\ failed \subseteq Retained
  /\ proc \in [Procs -> ProcStates]
  /\ alert \in BOOLEAN /\ crashes \in Nat
  /\ made \subseteq Nat /\ told \subseteq Nat /\ unsaid \subseteq Nat /\ days \subseteq Nat
  /\ shared \in BOOLEAN /\ raced \in BOOLEAN /\ lost \subseteq Nat

\* A live account never carries an archive of itself, however a build and a
\* reactivation interleave (the hazard of exportTenantData's comment on the stamp).
ArchiveOnlyWhileSuspended == sub.key # 0 => sub.status = "suspended"

\* The archive the account offers is there to download, as long as the account
\* was not suspended twice in a day and no purge has begun.
StampedIsStored ==
  sub.key # 0 /\ ~shared /\ ~raced /\ state # "purging"
    => sub.key \in objects \cup lost

\* A handler that still has an archive to stamp or to take back.
InFlight == {proc[p].opened : p \in {q \in Procs : proc[q].pc \in {"stampCheck", "takeBack"}}}

\* After a purge nothing is left in storage except what a handler is about to
\* take back, or died, or was refused by storage, before it could.
PurgedLeavesNothing == state = "gone" /\ ~raced => objects \subseteq lost \cup InFlight

\* What the promise and the purge rest on, and every step preserves:
\* a suspension is numbered and dated, and its archive is offered once stamped;
RowSound ==
  /\ day # 0
  /\ sub.status = "suspended" => sub.gen # 0 /\ sub.opened # 0
  /\ sub.key # 0 => sub.status = "suspended" /\ sub.gen \in made

\* a handler builds for a dated suspension and announces only what was stamped;
HandlersSound ==
  \A p \in Procs :
    /\ proc[p].pc \in {"read", "put", "stampCheck", "stamp"} => proc[p].opened # 0
    /\ proc[p].pc \in {"announceCheck", "announce"} => proc[p].gen \in made
    /\ proc[p].pc = "reissue" /\ proc[p].key # 0 => proc[p].gen \in made

\* a purge under way keeps every other transaction out, unless it was raced;
Quiesced ==
  \A p \in Procs :
    proc[p].pc \in {"drain", "sweepPrefix", "delete"} => raced \/ ~Admits

\* from the sweep of the prefix on, only a handler in flight can leave a key;
SweptClean ==
  ~raced /\ (state = "gone" \/ \E p \in Procs : proc[p].pc = "delete")
    => objects \subseteq lost \cup InFlight

\* the day of a suspension names its archive, as long as no two share a day: a
\* handler that builds or takes back has the day of the suspension it read, and
\* one that brings the account back has no day of a suspension that followed;
Dated(p) ==
  /\ proc[p].gen <= gens
  /\ proc[p].pc \in {"read", "put", "stampCheck", "stamp", "takeBack"} =>
       /\ proc[p].opened \in days
       /\ sub.status = "suspended" =>
            /\ proc[p].gen = sub.gen => proc[p].opened = sub.opened
            /\ proc[p].opened = sub.opened => shared \/ proc[p].gen = sub.gen
  /\ proc[p].pc \in {"reactivate", "discard"} => proc[p].key \in days \cup {0}
  /\ proc[p].pc = "discard" /\ sub.status = "suspended" => shared \/ proc[p].key # sub.opened

DatesSound ==
  /\ sub.gen <= gens
  /\ state = "gone" => sub.status = "none"
  /\ sub.status = "suspended" => sub.opened \in days /\ sub.key \in {0, sub.opened}
  /\ \A p \in Procs : Dated(p)

\* and nobody takes away the archive of the suspension that stands.
Undisturbed == ~shared /\ ~raced /\ Admits

Kept(p) ==
  /\ proc[p].pc \in {"stampCheck", "stamp"} /\ Stands(p) /\ Undisturbed
       => proc[p].opened \in objects \cup lost
  /\ proc[p].pc = "takeBack" /\ sub.status = "suspended" /\ Undisturbed
       => proc[p].opened # sub.opened

ArchivesKept == StampedIsStored /\ \A p \in Procs : Kept(p)

Inductive ==
  /\ TypeOK /\ RowSound /\ HandlersSound /\ Quiesced /\ SweptClean
  /\ DatesSound /\ ArchivesKept

\* What the merchant is promised, as ArchivePromise states it.
Promise == INSTANCE ArchivePromise WITH
  issued  <- gens,
  current <- IF sub.status = "suspended" THEN sub.gen ELSE 0,
  archive <- IF sub.key # 0 THEN sub.gen ELSE 0

PromiseKept == Promise!Spec

\* What a comment says and the code does not do, under a run of its own:

\* "reactivation is meant to win" (jobs/purge-tenant.ts): an account the operator
\* brought back before its rows went is not deleted.
ReactivationWins ==
  [][state # "gone" /\ state' = "gone" => sub.status = "suspended"]_vars

\* A suspended account whose retention has passed is deleted, whatever dies on
\* the way, unless an operator brings it back or gives it more time.
DuePurgeHappens ==
  sub.status = "suspended" /\ sub.retention <= day
    ~> state = "gone" \/ sub.status = "active" \/ sub.retention > day

\* What a suspension comes to: the merchant is sent the link or the alarm is
\* raised, unless the suspension ends or the purge is due.
Answered(g) ==
  g \in told \/ alert \/ sub.gen # g \/ state \in {"purging", "gone"} \/ sub.retention <= day

Stays(g) == sub.status = "suspended" /\ sub.gen = g

\* A suspension is not silent, whatever dispatch, build or check is lost: the
\* merchant is told or somebody alerted.  The one way out is a handler that died
\* for good between the stamp and the message: the check and the sweep look for
\* a missing archive, not for an archive nobody was told of.
NeverSilent == \A g \in 1..MaxGen : Stays(g) ~> Answered(g) \/ g \in unsaid
===============================================================================
