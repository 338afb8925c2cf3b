-------------------------------- MODULE Media --------------------------------
(***************************************************************************)
(* A merchant's photos: the upload that reserves quota, the job that       *)
(* encodes the delivery files, the merchant's delete and the daily sweep   *)
(* of orphans and abandoned items.  Rows and the quota counter live in     *)
(* PostgreSQL and change by transaction; the objects live in storage and   *)
(* change at once.  No step below spans both, except where the code has no *)
(* other statement in between.                                             *)
(*                                                                         *)
(* Code: src/server/media (upload.ts, usage.ts, library.ts, processors).   *)
(***************************************************************************)
EXTENDS FiniteSets, Sums

CONSTANTS
  Photos,     \* uploads, each with a media id of its own
  Workers,    \* runs of process-upload that can be under way at once
  Size,       \* bytes of each upload
  Stored,     \* bytes of its delivery files
  Bad,        \* photos whose bytes will not decode
  Limit,      \* storage_mb of the plan
  Attempts,   \* tries of a process-upload job
  MaxFaults   \* bound on outages, crashes, timeouts and redeliveries

ASSUME MediaAssumption ==
  /\ IsFiniteSet(Photos)
  /\ Size \in [Photos -> Nat \ {0}] /\ Stored \in [Photos -> Nat \ {0}]
  /\ Bad \subseteq Photos
  /\ Limit \in Nat /\ Attempts \in Nat \ {0} /\ MaxFaults \in Nat

VARIABLES
  row,        \* the media row of each photo
  used,       \* tenants.storage_bytes_used
  objects,    \* what is in storage
  fresh,      \* objects younger than ORPHAN_GRACE_MS
  aged,       \* rows older than STUCK_MEDIA_MS
  up,         \* how far the upload of each photo has come
  late,       \* enqueues the request gave up on that Redis may still accept
  jobs,       \* tries left of each process-upload job
  work,       \* the runs of the processor
  del,        \* keys that a committed delete has still to remove
  sweep,      \* the orphan sweep
  skewed,     \* history: photos whose bytes were given back from a row that had changed
  released,   \* history: photos whose quota the sweep has handed back
  unreached,  \* history: photos given up because full.webp, though stored, was out of reach
  faults      \* faults so far

vars == <<row, used, objects, fresh, aged, up, late, jobs, work, del, sweep, skewed, released, unreached, faults>>

-----------------------------------------------------------------------------
\* The objects of one photo: the upload, the small variants, and full.webp,
\* which Media.key names once the photo is ready.
Kinds == {"source", "small", "full"}
KeysOf(p) == {p} \X Kinds
VariantsOf(p) == {<<p, "small">>, <<p, "full">>}

NoRow == [status |-> "none", size |-> 0, key |-> "source", variants |-> FALSE]
Uploaded(p) == [status |-> "pending", size |-> Size[p], key |-> "source", variants |-> FALSE]
Shown(p) == [status |-> "ready", size |-> Stored[p], key |-> "full", variants |-> TRUE]

\* Mutant of Less: without GREATEST.
LessUnclamped(n, d) == n - d

\* adjustTenantStorageBytes: one UPDATE, and GREATEST(0, ...).
Less(n, d) == IF n >= d THEN n - d ELSE 0

\* admitUpload.
Fits(n, p) == n + Size[p] <= Limit

Idle == [phase |-> "idle"]
Holding == {"claimed", "render", "small", "full", "recorded", "discarded", "permanent", "cleared"}
On(w, p) == work[w].phase # "idle" /\ work[w].photo = p

\* A run locks its media row from the claim until its transaction ends.
Locked(p) == \E w \in Workers : On(w, p) /\ ~work[w].lost

\* What happens once and is not the code's doing.
Fault == faults < MaxFaults /\ faults' = faults + 1
NoFault == UNCHANGED faults

Put(o) == objects' = objects \union {o} /\ fresh' = fresh \union {o}
Drop(S) == objects' = objects \ S /\ fresh' = fresh \ S

\* One delete(key) each, best effort: all go, or an outage leaves some.
DropMostly(S) == \/ Drop(S) /\ NoFault
                 \/ Fault /\ \E rest \in SUBSET S : rest # {} /\ Drop(S \ rest)

Init ==
  /\ row = [p \in Photos |-> NoRow]
  /\ used = 0
  /\ objects = {} /\ fresh = {} /\ aged = {}
  /\ up = [p \in Photos |-> "idle"]
  /\ late = {}
  /\ jobs = [p \in Photos |-> 0]
  /\ work = [w \in Workers |-> Idle]
  /\ del = [p \in Photos |-> {}]
  /\ sweep = Idle
  /\ skewed = {} /\ released = {} /\ unreached = {}
  /\ faults = 0

-----------------------------------------------------------------------------
\* ingest: the upload.

MovesTo(p, phase) == up' = [up EXCEPT ![p] = phase]
OnlyUpload == UNCHANGED <<aged, late, jobs, work, del, sweep, skewed, released, unreached>>

\* A first check reads the counter without a lock and spares a put; the put
\* may fail and have stored the object all the same, which nothing takes back.
Admit(p) ==
  /\ up[p] = "idle"
  /\ \/ ~Fits(used, p) /\ MovesTo(p, "refused") /\ NoFault /\ UNCHANGED <<objects, fresh>>
     \/ Fits(used, p) /\ Put(<<p, "source">>)
        /\ \/ MovesTo(p, "stored") /\ NoFault
           \/ MovesTo(p, "refused") /\ Fault
  /\ OnlyUpload /\ UNCHANGED <<row, used>>

\* Mutant of Admitted: only the unlocked read of Admit is trusted.
AdmittedUnlocked(p) == TRUE

\* The check against the locked read, in the transaction that reserves.
Admitted(p) == Fits(used, p)

Reserve(p) ==
  /\ up[p] = "stored" /\ Admitted(p)
  /\ row' = [row EXCEPT ![p] = Uploaded(p)]
  /\ used' = used + Size[p]
  /\ \/ MovesTo(p, "reserved") /\ NoFault
     \/ MovesTo(p, "undo") /\ Fault              \* committed, and the answer is lost
  /\ OnlyUpload /\ UNCHANGED <<objects, fresh>>

ReserveRefused(p) ==
  /\ up[p] = "stored"
  /\ \/ ~Admitted(p) /\ NoFault
     \/ Admitted(p) /\ Fault                     \* the transaction rolled back
  /\ MovesTo(p, "undo")
  /\ OnlyUpload /\ UNCHANGED <<row, used, objects, fresh>>

\* The object is taken back before the error is rethrown.
Undo(p) ==
  /\ up[p] = "undo"
  /\ DropMostly({<<p, "source">>})
  /\ MovesTo(p, "refused")
  /\ OnlyUpload /\ UNCHANGED <<row, used>>

\* dispatchJob: accepted, or given up after five seconds, when Redis may
\* have taken the job or may still take it.
Enqueue(p) ==
  /\ up[p] = "reserved"
  /\ \/ MovesTo(p, "accepted") /\ NoFault
        /\ jobs' = [jobs EXCEPT ![p] = Attempts] /\ UNCHANGED late
     \/ MovesTo(p, "rollback") /\ Fault /\ UNCHANGED <<jobs, late>>
     \/ MovesTo(p, "rollback") /\ Fault /\ late' = late \union {p} /\ UNCHANGED jobs
  /\ UNCHANGED <<row, used, objects, fresh, aged, work, del, sweep, skewed, released, unreached>>

LateEnqueue(p) ==
  /\ p \in late
  /\ late' = late \ {p}
  /\ jobs' = [jobs EXCEPT ![p] = Attempts]
  /\ UNCHANGED <<row, used, objects, fresh, aged, up, work, del, sweep, skewed, released, unreached, faults>>

\* rollbackIngest: the row goes if it is there, the original size is given
\* back either way.
Rollback(p) ==
  /\ up[p] = "rollback" /\ ~Locked(p)
  /\ row' = [row EXCEPT ![p] = NoRow]
  /\ used' = Less(used, Size[p])
  /\ skewed' = IF row[p].size = Size[p] THEN skewed ELSE skewed \union {p}
  /\ MovesTo(p, "unstore")
  /\ UNCHANGED <<objects, fresh, aged, late, jobs, work, del, sweep, released, unreached, faults>>

\* Its transaction fails, which is logged and swallowed.
RollbackFails(p) ==
  /\ up[p] = "rollback" /\ Fault
  /\ MovesTo(p, "refused")
  /\ OnlyUpload /\ UNCHANGED <<row, used, objects, fresh>>

RollbackObject(p) ==
  /\ up[p] = "unstore"
  /\ DropMostly({<<p, "source">>})
  /\ MovesTo(p, "refused")
  /\ OnlyUpload /\ UNCHANGED <<row, used>>

\* The web process dies between two steps of the upload.
UploadCrash(p) ==
  /\ up[p] \in {"stored", "undo", "reserved", "rollback", "unstore"} /\ Fault
  /\ MovesTo(p, "refused")
  /\ OnlyUpload /\ UNCHANGED <<row, used, objects, fresh>>

-----------------------------------------------------------------------------
\* processMedia: one run of the job, whose transaction is open from the claim
\* to the end of the run.

OnlyRun == UNCHANGED <<aged, up, late, del, sweep>>
Runs(w, phase) == work' = [work EXCEPT ![w].phase = phase]
Stops(w) == work' = [work EXCEPT ![w] = Idle]
Done(p) == jobs' = [jobs EXCEPT ![p] = 0]
OneTryLess(p) == jobs' = [jobs EXCEPT ![p] = Less(@, 1)]

\* updateMany ... status not ready; the row is read after the lock is taken.
Claimable(p) == row[p].status \notin {"none", "ready"}

Claim(w, p) ==
  /\ work[w].phase = "idle" /\ jobs[p] > 0 /\ ~Locked(p)
  /\ \/ Claimable(p) /\ UNCHANGED jobs
        /\ work' = [work EXCEPT ![w] = [phase |-> "claimed", photo |-> p, size |-> row[p].size,
                                        key |-> row[p].key, lost |-> FALSE]]
     \/ ~Claimable(p) /\ Done(p) /\ UNCHANGED work                    \* skipped
  /\ OnlyRun /\ UNCHANGED <<row, used, objects, fresh, skewed, released, unreached, faults>>

\* Mutant of Loadable: no recovery from a delivery file.
LoadableSource(r) == <<r.photo, r.key>> \in objects

\* loadSource with storage in reach: the object the row names, or full.webp of
\* an earlier run.
Loadable(r) == <<r.photo, r.key>> \in objects \/ <<r.photo, "full">> \in objects

Load(w) ==
  /\ work[w].phase = "claimed"
  /\ Runs(w, IF Loadable(work[w]) THEN "render" ELSE "permanent")
  /\ OnlyRun /\ UNCHANGED <<row, used, objects, fresh, jobs, skewed, released, unreached, faults>>

\* loadSource with full.webp out of reach: whatever its get throws is caught,
\* and the absence of the object the row names alone makes it permanent.  (If
\* that object is there, the outage is a Fail like any other.)
RecoveryLost(r) ==
  /\ r.key # "full" /\ <<r.photo, r.key>> \notin objects
  /\ <<r.photo, "full">> \in objects

LoadUnreachable(w) ==
  /\ work[w].phase = "claimed" /\ RecoveryLost(work[w]) /\ Fault
  /\ Runs(w, "permanent")
  /\ unreached' = unreached \union {work[w].photo}
  /\ OnlyRun /\ UNCHANGED <<row, used, objects, fresh, jobs, skewed, released>>

\* renderVariants writes full after the smaller kinds, outside the transaction.
Render(w) ==
  LET p == work[w].photo IN
  /\ \/ work[w].phase = "render" /\ Put(<<p, "small">>) /\ Runs(w, "small")
     \/ work[w].phase = "small" /\ Put(<<p, "full">>) /\ Runs(w, "full")
  /\ OnlyRun /\ UNCHANGED <<row, used, jobs, skewed, released, unreached, faults>>

\* An encoder or the header gives up, at any of the variants.
Undecodable(w) ==
  /\ work[w].phase \in {"render", "small", "full"} /\ work[w].photo \in Bad
  /\ Runs(w, "permanent")
  /\ OnlyRun /\ UNCHANGED <<row, used, objects, fresh, jobs, skewed, released, unreached, faults>>

\* The rows are written, not yet committed.
Record(w) ==
  /\ work[w].phase = "full" /\ work[w].photo \notin Bad /\ ~work[w].lost
  /\ Runs(w, "recorded")
  /\ OnlyRun /\ UNCHANGED <<row, used, objects, fresh, jobs, skewed, released, unreached, faults>>

\* The original is discarded last, still inside the transaction.
Discard(w) ==
  /\ work[w].phase = "recorded"
  /\ IF work[w].key = "full" THEN UNCHANGED <<objects, fresh>> ELSE Drop({<<work[w].photo, "source">>})
  /\ Runs(w, "discarded")
  /\ OnlyRun /\ UNCHANGED <<row, used, jobs, skewed, released, unreached, faults>>

\* Mutant of Held: what the upload reserved, whatever became of it since.
HeldAtUpload(r) == Size[r.photo]

\* The bytes the row held when the lock was taken.
Held(r) == r.size

Commit(w) ==
  LET r == work[w] IN
  /\ r.phase = "discarded" /\ ~r.lost
  /\ row' = [row EXCEPT ![r.photo] = Shown(r.photo)]
  /\ used' = Less(used + Stored[r.photo], Held(r))
  /\ Done(r.photo) /\ Stops(w)
  /\ OnlyRun /\ UNCHANGED <<objects, fresh, skewed, released, unreached, faults>>

\* A permanent failure: every object the item could own goes, best effort.
Clear(w) ==
  /\ work[w].phase = "permanent"
  /\ DropMostly(KeysOf(work[w].photo)) /\ Runs(w, "cleared")
  /\ OnlyRun /\ UNCHANGED <<row, used, jobs, skewed, released, unreached>>

\* Then the row says failed and its bytes are given back.
CommitFailed(w) ==
  LET r == work[w] IN
  /\ r.phase = "cleared" /\ ~r.lost
  /\ row' = [row EXCEPT ![r.photo] = [@ EXCEPT !.status = "failed", !.size = 0, !.variants = FALSE]]
  /\ used' = Less(used, Held(r))
  /\ Done(r.photo) /\ Stops(w)
  /\ OnlyRun /\ UNCHANGED <<objects, fresh, skewed, released, unreached, faults>>

\* Storage or the connection fails, or the worker dies: everything rolls back
\* and the job is tried again.
Fail(w) ==
  /\ work[w].phase # "idle" /\ ~work[w].lost /\ Fault
  /\ OneTryLess(work[w].photo) /\ Stops(w)
  /\ OnlyRun /\ UNCHANGED <<row, used, objects, fresh, skewed, released, unreached>>

\* The transaction runs out or the lock on the job is lost: the rows roll back
\* and the job is delivered again, while this run goes on.
Expire(w) ==
  /\ work[w].phase # "idle" /\ ~work[w].lost /\ Fault
  /\ work' = [work EXCEPT ![w].lost = TRUE]
  /\ OneTryLess(work[w].photo)
  /\ OnlyRun /\ UNCHANGED <<row, used, objects, fresh, skewed, released, unreached>>

\* ... until its next statement throws.
Notice(w) ==
  /\ work[w].phase \in {"full", "discarded", "cleared"} /\ work[w].lost
  /\ Stops(w)
  /\ OnlyRun /\ UNCHANGED <<row, used, objects, fresh, jobs, skewed, released, unreached, faults>>

-----------------------------------------------------------------------------
\* deleteMedia: the row in a transaction that locks it first, then the objects.

Delete(p) ==
  /\ row[p].status # "none" /\ ~Locked(p)
  /\ row' = [row EXCEPT ![p] = NoRow]
  /\ used' = Less(used, row[p].size)
  /\ del' = [del EXCEPT ![p] = {<<p, row[p].key>>} \union IF row[p].variants THEN VariantsOf(p) ELSE {}]
  /\ UNCHANGED <<objects, fresh, aged, up, late, jobs, work, sweep, skewed, released, unreached, faults>>

DeleteObjects(p) ==
  /\ del[p] # {}
  /\ DropMostly(del[p])
  /\ del' = [del EXCEPT ![p] = {}]
  /\ UNCHANGED <<row, used, aged, up, late, jobs, work, sweep, skewed, released, unreached>>

-----------------------------------------------------------------------------
\* sweepTenantOrphans and releaseStuckMedia, one run at a time.

OnlySweep == UNCHANGED <<aged, up, late, jobs, work, del>>

\* Mutant of Orphaned: everything of an item that will not be processed again.
OrphanedAny(o) == row[o[1]].status \in {"none", "ready", "failed"}

\* Mutant of Orphaned: an object without a row is left alone.
OrphanedOwned(o) == o[2] = "source" /\ row[o[1]].status \in {"ready", "failed"}

\* No row, or the original of an item that will not be processed again.
Orphaned(o) ==
  \/ row[o[1]].status = "none"
  \/ o[2] = "source" /\ row[o[1]].status \in {"ready", "failed"}

\* Storage is listed and the rows are read after it.
Judge ==
  /\ sweep.phase = "idle"
  /\ sweep' = [phase |-> "judged", doomed |-> {o \in objects \ fresh : Orphaned(o)}]
  /\ OnlySweep /\ UNCHANGED <<row, used, objects, fresh, skewed, released, unreached, faults>>

\* Mutant of Stuck: abandoned items are never looked for.
StuckNever(p) == FALSE

\* Mutant of Stuck: the status is not looked at.
StuckAny(p) == p \in aged /\ row[p].size > 0

Stuck(p) == row[p].status = "pending" /\ p \in aged /\ row[p].size > 0

\* The orphans go, then the stuck rows are read without a lock ...
Collect ==
  /\ sweep.phase = "judged"
  /\ Drop(sweep.doomed)
  /\ sweep' = [phase |-> "stuck", read |-> [p \in Photos |-> IF Stuck(p) THEN row[p] ELSE NoRow]]
  /\ OnlySweep /\ UNCHANGED <<row, used, skewed, released, unreached, faults>>

\* ... and released by id, whatever has become of them.
Abandoned == {p \in Photos : sweep.read[p] # NoRow}

Release ==
  /\ sweep.phase = "stuck"
  /\ \A p \in Abandoned : ~Locked(p) /\ row[p].status # "none"
  /\ row' = [p \in Photos |-> IF p \in Abandoned
                              THEN [row[p] EXCEPT !.status = "failed", !.size = 0] ELSE row[p]]
  /\ used' = Less(used, SumOver([p \in Photos |-> sweep.read[p].size]))
  /\ skewed' = skewed \union {p \in Abandoned : row[p] # sweep.read[p]}
  /\ released' = released \union Abandoned
  /\ sweep' = Idle
  /\ OnlySweep /\ UNCHANGED <<objects, fresh, unreached, faults>>

\* A row that is gone makes the update throw; an outage ends a run anywhere.
SweepFails ==
  /\ sweep.phase # "idle"
  /\ \/ sweep.phase = "stuck" /\ (\E p \in Abandoned : row[p].status = "none") /\ NoFault
     \/ Fault
  /\ sweep' = Idle
  /\ OnlySweep /\ UNCHANGED <<row, used, objects, fresh, skewed, released, unreached>>

-----------------------------------------------------------------------------
\* Time.  The upload's budget is far shorter than the hour of grace, so an
\* object does not age before its row is committed or given up.
InFlight(p) == up[p] \in {"stored", "undo", "reserved", "rollback", "unstore"}

Hour(o) ==
  /\ o \in fresh /\ ~InFlight(o[1])
  /\ fresh' = fresh \ {o}
  /\ UNCHANGED <<row, used, objects, aged, up, late, jobs, work, del, sweep, skewed, released, unreached, faults>>

Day(p) ==
  /\ row[p].status = "pending" /\ p \notin aged /\ ~InFlight(p)
  /\ aged' = aged \union {p}
  /\ UNCHANGED <<row, used, objects, fresh, up, late, jobs, work, del, sweep, skewed, released, unreached, faults>>

-----------------------------------------------------------------------------
Upload(p) ==
  \/ Admit(p) \/ Reserve(p) \/ ReserveRefused(p) \/ Undo(p) \/ Enqueue(p)
  \/ Rollback(p) \/ RollbackFails(p) \/ RollbackObject(p) \/ UploadCrash(p)

Run(w) ==
  \/ \E p \in Photos : Claim(w, p)
  \/ Load(w) \/ LoadUnreachable(w) \/ Render(w) \/ Undecodable(w) \/ Record(w) \/ Discard(w) \/ Commit(w)
  \/ Clear(w) \/ CommitFailed(w) \/ Fail(w) \/ Expire(w) \/ Notice(w)

Sweep == Judge \/ Collect \/ Release \/ SweepFails

Next ==
  \/ \E p \in Photos : Upload(p) \/ LateEnqueue(p) \/ Delete(p) \/ DeleteObjects(p) \/ Day(p)
  \/ \E w \in Workers : Run(w)
  \/ Sweep
  \/ \E o \in Photos \X Kinds : Hour(o)

Spec == Init /\ [][Next]_vars

-----------------------------------------------------------------------------
\* Properties.

Statuses == {"none", "pending", "ready", "failed"}
RowStates == [status : Statuses, size : Nat, key : {"source", "full"}, variants : BOOLEAN]
RunStates == [phase : Holding, photo : Photos, size : Nat, key : {"source", "full"}, lost : BOOLEAN]
SweepStates ==
  {Idle} \union [phase : {"judged"}, doomed : SUBSET (Photos \X Kinds)]
         \union [phase : {"stuck"}, read : [Photos -> RowStates]]

\* Every variable keeps its type.
TypeOK ==
  /\ row \in [Photos -> RowStates]
  /\ used \in Nat
  /\ objects \subseteq Photos \X Kinds /\ fresh \subseteq objects
  /\ aged \subseteq Photos /\ late \subseteq Photos
  /\ up \in [Photos -> {"idle", "stored", "undo", "reserved", "rollback",
                        "unstore", "accepted", "refused"}]
  /\ jobs \in [Photos -> 0 .. Attempts]
  /\ work \in [Workers -> {Idle} \union RunStates]
  /\ del \in [Photos -> SUBSET (Photos \X Kinds)]
  /\ sweep \in SweepStates
  /\ skewed \subseteq Photos /\ released \subseteq Photos /\ unreached \subseteq Photos
  /\ faults \in 0 .. MaxFaults

\* A photo that can be decoded, that the sweep has not released and that no run
\* has given up in an outage.
Sane(p) == p \notin Bad \union released \union unreached
There(p) == row[p].status # "none"
Live(w) == work[w].phase # "idle" /\ ~work[w].lost
Unsent == {"idle", "stored", "undo", "reserved"}
Unrun(p) == \A w \in Workers : ~On(w, p)

\* A job of the photo is still to come or under way, or was.
Handed(p) ==
  up[p] \in {"reserved", "rollback", "accepted"} \/ p \in late \/ jobs[p] > 0 \/ ~Unrun(p)

\* What a row is in each status; that nothing runs before it was sent; that
\* only the sweep, bytes that cannot be decoded and a full.webp out of reach
\* make it failed, the latter two for good; and which objects it can count on.
PhotoSound(p) ==
  LET status == row[p].status IN
  /\ status = "none" => row[p] = NoRow
  /\ status = "pending" => row[p] = Uploaded(p)
  /\ status = "ready" => row[p] = Shown(p) /\ p \notin Bad
  /\ status = "failed" => row[p].size = 0
  /\ status = "failed" /\ p \notin released =>
       p \in Bad \union unreached /\ up[p] \notin Unsent /\ jobs[p] = 0 /\ p \notin late /\ ~Locked(p)
  /\ up[p] \in {"idle", "stored", "unstore"} => status = "none"
  /\ up[p] = "idle" => KeysOf(p) \cap objects = {}
  /\ up[p] = "stored" => KeysOf(p) \cap objects \subseteq fresh /\ <<p, "source">> \in objects
  /\ up[p] \in Unsent => jobs[p] = 0 /\ p \notin late /\ Unrun(p)
  /\ p \in late => jobs[p] = 0 /\ Unrun(p)
  /\ del[p] \subseteq KeysOf(p)
  /\ del[p] # {} => status = "none" /\ up[p] \notin {"idle", "stored"}
  /\ status = "ready" /\ p \notin released \union unreached => VariantsOf(p) \subseteq objects
  /\ There(p) /\ Sane(p) /\ Handed(p) => <<p, "source">> \in objects \/ <<p, "full">> \in objects

\* A run that holds its row has it alone and as it read it; a run of a sane
\* photo that is there does not fail, and has written what it has written.
RunSound(w) ==
  LET r == work[w]  p == work[w].photo IN
  r.phase # "idle" =>
    /\ ~r.lost => /\ row[p].size = r.size /\ row[p].status \in {"pending", "failed"}
                  /\ \A v \in Workers : On(v, p) /\ Live(v) => v = w
    /\ r.phase \in {"recorded", "discarded"} => p \notin Bad
    /\ Sane(p) => r.key = "source"
    /\ There(p) /\ Sane(p) =>
         /\ r.phase \notin {"permanent", "cleared"}
         /\ r.phase = "small" => <<p, "small">> \in objects
         /\ r.phase \in {"full", "recorded", "discarded"} => VariantsOf(p) \subseteq objects

\* What the sweep has judged or read, whatever has happened since: of a sane
\* photo it takes the original only, and once it is shown.
SweepSound ==
  /\ sweep.phase = "judged" =>
       \A o \in sweep.doomed :
         /\ up[o[1]] \notin {"idle", "stored"}
         /\ There(o[1]) /\ Sane(o[1]) => row[o[1]].status = "ready" /\ o[2] = "source"
  /\ sweep.phase = "stuck" => \A p \in Photos : sweep.read[p] \in {NoRow, Uploaded(p)}

\* The counter is the sum of the rows, but for an upload rolled back after its
\* row had changed or gone (upload.ts:190-193) and an item that was finished
\* while the sweep was releasing it (cleanup-orphans.ts:252-267).
Total == SumOver([p \in Photos |-> row[p].size])

QuotaExact == skewed = {} => used = Total

\* What is held of what the plan has admitted: of a photo no more than its
\* upload, and nothing once its quota was handed back.
Upheld(p) == IF p \in released THEN 0 ELSE IF row[p].size <= Size[p] THEN row[p].size ELSE Size[p]

PlanKept == skewed = {} => SumOver([p \in Photos |-> Upheld(p)]) <= Limit

\* What every step keeps.
Inductive ==
  /\ TypeOK /\ SweepSound /\ QuotaExact /\ PlanKept
  /\ \A p \in Photos : PhotoSound(p)
  /\ \A w \in Workers : RunSound(w)

\* What the rows hold stays within the plan, though uploads race, unless the
\* counter was wrong, an abandoned item was processed after all, or the files
\* of a photo are larger than its upload, which the processor does not refuse.
QuotaHeld ==
  (skewed = {} /\ \A p \in Photos : row[p].size <= IF p \in released THEN 0 ELSE Size[p])
    => Total <= Limit

\* A photo that is shown has its files (process-upload.ts: the row is written
\* after the puts; cleanup-orphans.ts: the sweep takes originals only).  Two
\* ways out, both a run whose transaction is gone and that clears what a second
\* run has written: the sweep had released the photo, so the run found the
\* original collected, or full.webp was out of the run's reach.
ReadyIsStored ==
  \A p \in Photos \ (released \union unreached) :
    row[p].status = "ready" => VariantsOf(p) \subseteq objects

\* What becomes of a photo the merchant was told is accepted: it is not
\* declared failed and does not lose its last usable copy.
Kept(p) ==
  (up[p] = "accepted" /\ row[p].status # "none") =>
     /\ row[p].status # "failed"
     /\ <<p, "source">> \in objects \/ <<p, "full">> \in objects

\* A photo that can be decoded is kept whatever commits fail or runs overlap,
\* until it is abandoned for a day or deleted (loadSource,
\* process-upload.ts:267-312); but for the outage that makes a run take
\* full.webp for absent after the original was discarded.
AcceptedKept == \A p \in Photos \ (Bad \union released \union unreached) : Kept(p)

\* A shown photo stays shown until the merchant deletes it; the one way out is
\* the release that had read it as abandoned.
ShownStays ==
  [][\A p \in Photos : row[p].status = "ready" =>
       row'[p].status \in {"ready", "none"} \/ p \in skewed']_vars

\* No tile spins for ever: a pending item becomes ready or failed, or is deleted.
Settles(p) == row[p].status = "pending" ~> row[p].status # "pending"

\* Of a photo without a row everything is collected in the end (the sweep,
\* cleanup-orphans.ts), though runs that outlived it may still write.
Collected(p) ==
  (KeysOf(p) \cap objects # {} /\ row[p].status = "none" /\ up[p] \in {"accepted", "refused"})
    ~> KeysOf(p) \cap objects = {}
=============================================================================
