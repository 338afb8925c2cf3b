------------------------------- MODULE Restore --------------------------------
(***************************************************************************)
(* Backups of a shop that is open: the build dumps one table after the     *)
(* other, the restore empties and reloads them in one transaction, and     *)
(* checkouts go on meanwhile.  Transactions are READ COMMITTED, so every   *)
(* statement sees what is committed when it starts; the restore's writes   *)
(* are seen when it commits.                                               *)
(*                                                                         *)
(* Three tables stand for those of tables.ts, in its order:                *)
(* tenant_counters, orders and order_items.                                *)
(*                                                                         *)
(* Code: src/server/tenant-backup; src/server/orders/numbering.ts.         *)
(***************************************************************************)
EXTENDS Naturals, FiniteSets

CONSTANTS
  Carts,      \* checkouts, each with the id of the order it would make
  Backups,    \* rows of tenant_backups
  Clicks,     \* the operator's requests to restore
  Attempts,   \* tries of a job
  MaxFaults,  \* bound on crashes, outages and lost answers
  Null

Tables == [counter : Nat, orders : SUBSET Carts, items : SUBSET Carts]

ASSUME RestoreAssumption ==
  /\ Attempts \in Nat \ {0} /\ MaxFaults \in Nat
  /\ Null \notin Backups /\ Null \notin Tables

VARIABLES
  shop,       \* the committed tables
  cart,       \* each checkout's transaction and the number it was given
  row,        \* the tenant_backups row of each backup
  stored,     \* the archive in storage
  build,      \* the build job of each backup and its run
  click,      \* each restore request and its job
  run,        \* the run of each restore job
  del,        \* the operator's deletion of a backup
  past,       \* history: every state the shop has been in
  raced,      \* history: whose commits fell into a dump or a restore
  abandoned,  \* history: backups deleted before or while they were built
  stranded,   \* history: backups whose job was drained or died with its process
  faults

vars == <<shop, cart, row, stored, build, click, run, del, past, raced, abandoned, stranded, faults>>

-----------------------------------------------------------------------------
Empty == [counter |-> 0, orders |-> {}, items |-> {}]

NoRow == [status |-> "none", keyed |-> FALSE]
Idle == [phase |-> "idle", tries |-> 0, dump |-> Empty]
NoRun == [phase |-> "idle", archive |-> Empty, gone |-> {}, uncounted |-> FALSE]

Fault == faults < MaxFaults /\ faults' = faults + 1
NoFault == UNCHANGED faults

\* Mutant of Due: one try too many.
DueStill(tries) == tries >= 0

\* A job that is waiting or will be tried again.
Due(tries) == tries > 0

\* DUMP_TABLES: what a dump reads first, then and last.
Dumping == {"counter", "orders"}

\* The restore has deleted the orders it saw and has not committed.
Reloading == {"emptied", "uncounted"}

Dumped == \E b \in Backups : build[b].phase \in Dumping

Overlapped == Dumped \/ \E r \in Clicks : run[r].phase \in Reloading

\* A commit by one of the two, in the way of others if hit.
Settle(s, who, hit) ==
  /\ shop' = s /\ past' = past \union {s}
  /\ raced' = IF hit THEN raced \union {who} ELSE raced
Shopless == UNCHANGED <<shop, past, raced>>

Init ==
  /\ shop = Empty /\ past = {Empty} /\ raced = {}
  /\ cart = [c \in Carts |-> [phase |-> "idle", number |-> 0]]
  /\ row = [b \in Backups |-> NoRow]
  /\ stored = [b \in Backups |-> Null]
  /\ build = [b \in Backups |-> Idle]
  /\ click = [r \in Clicks |-> [phase |-> "idle", backup |-> Null, tries |-> 0]]
  /\ run = [r \in Clicks |-> NoRun]
  /\ del = [b \in Backups |-> "idle"]
  /\ abandoned = {} /\ stranded = {}
  /\ faults = 0

-----------------------------------------------------------------------------
\* A checkout, as far as the three tables go.

OnlyCart == UNCHANGED <<row, stored, build, click, run, del, abandoned, stranded, faults>>

Counting == \E c \in Carts : cart[c].phase = "numbered"

\* The restore has deleted the counter's row and holds it until it commits.
CounterHeld == \E r \in Clicks : run[r].phase = "uncounted" /\ run[r].uncounted

\* allocateOrderNumber: one statement, which keeps the counter's row locked.
Number(c) ==
  /\ cart[c].phase = "idle" /\ ~Counting /\ ~CounterHeld
  /\ cart' = [cart EXCEPT ![c] = [phase |-> "numbered", number |-> shop.counter + 1]]
  /\ Shopless /\ OnlyCart

\* @@unique([tenantId, number]).
Taken(c) == \E d \in shop.orders : cart[d].number = cart[c].number

\* The order and its items, and the commit.
Place(c) ==
  /\ cart[c].phase = "numbered" /\ ~Taken(c)
  /\ Settle([counter |-> cart[c].number, orders |-> shop.orders \union {c},
             items |-> shop.items \union {c}], "checkout", Overlapped)
  /\ cart' = [cart EXCEPT ![c].phase = "placed"]
  /\ OnlyCart

\* The insert violates the constraint and everything rolls back.
PlaceFails(c) ==
  /\ cart[c].phase = "numbered" /\ Taken(c)
  /\ cart' = [cart EXCEPT ![c].phase = "failed"]
  /\ Shopless /\ OnlyCart

-----------------------------------------------------------------------------
\* createTenantBackup and the build job.

OnlyBuild == UNCHANGED <<cart, click, run, del, abandoned>> /\ Shopless
Writes(b, status) == row' = [row EXCEPT ![b].status = status]

\* The row is written before the enqueue.
Create(b) ==
  /\ row[b].status = "none" /\ del[b] = "idle" /\ build[b] = Idle
  /\ row' = [row EXCEPT ![b] = [status |-> "pending", keyed |-> FALSE]]
  /\ build' = [build EXCEPT ![b].phase = "requested"]
  /\ OnlyBuild /\ UNCHANGED <<stored, stranded, faults>>

\* dispatchJob: accepted; or given up after five seconds, when the job may have
\* been taken all the same; or the process dies first.
Dispatch(b) ==
  /\ build[b].phase = "requested"
  /\ \/ NoFault /\ build' = [build EXCEPT ![b] = [Idle EXCEPT !.tries = Attempts]]
        /\ UNCHANGED <<row, stranded>>
     \/ Fault /\ build' = [build EXCEPT ![b].phase = "refused"] /\ UNCHANGED <<row, stranded>>
     \/ Fault /\ build' = [build EXCEPT ![b] = Idle] /\ stranded' = stranded \union {b} /\ UNCHANGED row
  /\ OnlyBuild /\ UNCHANGED stored

RefuseBuild(b) ==
  /\ build[b].phase = "refused"
  /\ row' = IF row[b].status = "none" THEN row ELSE [row EXCEPT ![b].status = "failed"]
  /\ \E late \in {0, Attempts} : build' = [build EXCEPT ![b] = [Idle EXCEPT !.tries = late]]
  /\ OnlyBuild /\ UNCHANGED <<stored, stranded, faults>>

\* A run that finds its row; the dump starts with the parents.
Begin(b) ==
  /\ build[b].phase = "idle" /\ Due(build[b].tries)
  /\ build' = [build EXCEPT ![b] = IF row[b].status = "none" THEN Idle
                                   ELSE [@ EXCEPT !.phase = "dumping"]]
  /\ OnlyBuild /\ UNCHANGED <<row, stored, stranded, faults>>

\* Mutant of Step: order_items before orders.
StepReversed(b) ==
  LET d == build[b].dump IN
  CASE build[b].phase = "dumping" -> [phase |-> "counter", dump |-> [d EXCEPT !.counter = shop.counter]]
    [] build[b].phase = "counter" -> [phase |-> "orders", dump |-> [d EXCEPT !.items = shop.items]]
    [] build[b].phase = "orders"  -> [phase |-> "dumped", dump |-> [d EXCEPT !.orders = shop.orders]]

\* BACKUP_TABLES is in the order of the foreign keys.
Step(b) ==
  LET d == build[b].dump IN
  CASE build[b].phase = "dumping" -> [phase |-> "counter", dump |-> [d EXCEPT !.counter = shop.counter]]
    [] build[b].phase = "counter" -> [phase |-> "orders", dump |-> [d EXCEPT !.orders = shop.orders]]
    [] build[b].phase = "orders"  -> [phase |-> "dumped", dump |-> [d EXCEPT !.items = shop.items]]

\* dumpTable: one SELECT per table.
Dump(b) ==
  /\ build[b].phase \in {"dumping", "counter", "orders"}
  /\ build' = [build EXCEPT ![b] = [@ EXCEPT !.phase = Step(b).phase, !.dump = Step(b).dump]]
  /\ OnlyBuild /\ UNCHANGED <<row, stored, stranded, faults>>

Put(b) ==
  /\ build[b].phase = "dumped"
  /\ stored' = [stored EXCEPT ![b] = build[b].dump]
  /\ build' = [build EXCEPT ![b].phase = "put"]
  /\ OnlyBuild /\ UNCHANGED <<row, stranded, faults>>

\* Mutant of Stampable: the row is stamped first.
StampableEarly(b) == build[b].phase \in {"dumped", "put"}

\* The row is stamped after the object is there, in the dump's transaction.
Stampable(b) == build[b].phase = "put"

Stamp(b) ==
  /\ Stampable(b) /\ row[b].status # "none"
  /\ row' = [row EXCEPT ![b] = [status |-> "ready", keyed |-> TRUE]]
  /\ build' = [build EXCEPT ![b] = Idle]
  /\ OnlyBuild /\ UNCHANGED <<stored, stranded, faults>>

\* An error, or a row that is gone: recorded in a transaction of its own, and
\* the job is tried again.
BuildFails(b) ==
  /\ \/ build[b].phase = "put" /\ row[b].status = "none" /\ NoFault
     \/ build[b].phase \in {"dumping", "counter", "orders", "dumped", "put"} /\ Fault
  /\ row' = IF row[b].status = "none" THEN row ELSE [row EXCEPT ![b].status = "failed"]
  /\ build' = [build EXCEPT ![b] = [Idle EXCEPT !.tries = build[b].tries - 1]]
  /\ OnlyBuild /\ UNCHANGED <<stored, stranded>>

\* The process dies, or the failure cannot be recorded either: the job is tried
\* again, and after the last try the row stays as it is.
BuildCrash(b) ==
  /\ build[b].phase \in {"dumping", "counter", "orders", "dumped", "put"} /\ Fault
  /\ build' = [build EXCEPT ![b] = [Idle EXCEPT !.tries = build[b].tries - 1]]
  /\ stranded' = IF build[b].tries = 1 THEN stranded \union {b} ELSE stranded
  /\ OnlyBuild /\ UNCHANGED <<row, stored>>

-----------------------------------------------------------------------------
\* restoreTenantBackup: the operator's request.

OnlyClick == UNCHANGED <<cart, stored, build, run, del, abandoned>> /\ Shopless
Moves(r, phase) == click' = [click EXCEPT ![r].phase = phase]

\* ready, and no row of the tenant says restoring: read, not locked.
Ask(r, b) ==
  /\ click[r].phase = "idle"
  /\ row[b].status = "ready" /\ row[b].keyed
  /\ \A other \in Backups : row[other].status # "restoring"
  /\ click' = [click EXCEPT ![r] = [@ EXCEPT !.phase = "checked", !.backup = b]]
  /\ OnlyClick /\ UNCHANGED <<row, stranded, faults>>

Mark(r) ==
  LET b == click[r].backup IN
  /\ click[r].phase = "checked"
  /\ \/ row[b].status # "none" /\ Writes(b, "restoring") /\ Moves(r, "marked")
     \/ row[b].status = "none" /\ Moves(r, "refused") /\ UNCHANGED row
  /\ OnlyClick /\ UNCHANGED <<stranded, faults>>

Send(r) ==
  LET b == click[r].backup IN
  /\ click[r].phase = "marked"
  /\ \/ NoFault /\ click' = [click EXCEPT ![r] = [@ EXCEPT !.phase = "sent", !.tries = Attempts]]
        /\ UNCHANGED stranded
     \/ Fault /\ Moves(r, "unsent") /\ UNCHANGED stranded
     \/ Fault /\ Moves(r, "refused") /\ stranded' = stranded \union {b}
  /\ OnlyClick /\ UNCHANGED row

\* "nothing was changed": yet the job may have been taken.
RefuseRestore(r) ==
  LET b == click[r].backup IN
  /\ click[r].phase = "unsent"
  /\ row' = IF row[b].status = "none" THEN row ELSE [row EXCEPT ![b].status = "ready"]
  /\ \E late \in {0, Attempts} :
       click' = [click EXCEPT ![r] = [@ EXCEPT !.phase = "refused", !.tries = late]]
  /\ OnlyClick /\ UNCHANGED <<stranded, faults>>

-----------------------------------------------------------------------------
\* restore-tenant-backup and restoreFromArchive.

OnlyRun == UNCHANGED <<cart, stored, del, abandoned>>
Archive(r) == run[r].archive
Ends(r) == run' = [run EXCEPT ![r] = NoRun]
Done(r) == click' = [click EXCEPT ![r].tries = 0]

\* The row needs a key, not a status; the archive is read whole and checked
\* before anything is deleted.
Take(r) ==
  LET b == click[r].backup IN
  /\ run[r].phase = "idle" /\ click[r].phase \in {"sent", "refused"} /\ Due(click[r].tries)
  /\ \/ row[b].keyed /\ stored[b] # Null
        /\ run' = [run EXCEPT ![r] = [NoRun EXCEPT !.phase = "taken", !.archive = stored[b]]]
        /\ UNCHANGED <<click, row>>
     \/ ~row[b].keyed /\ Done(r) /\ UNCHANGED <<run, row>>                   \* skipped
     \/ row[b].keyed /\ stored[b] = Null /\ Writes(b, "ready")
        /\ click' = [click EXCEPT ![r].tries = @ - 1] /\ UNCHANGED run
  /\ OnlyRun /\ Shopless /\ UNCHANGED <<build, stranded, faults>>

\* withPurgeLock, then drainTenantJobs: every job of the tenant that waits goes,
\* those of other backups with it.  Jobs under way stay.
Waiting(r) == click[r].tries > 0 /\ run[r].phase = "idle"
Drained == {b \in Backups : build[b].phase = "idle" /\ build[b].tries > 0}
           \union {click[r].backup : r \in {q \in Clicks : Waiting(q)}}

Drain(r) ==
  /\ run[r].phase = "taken" /\ \A q \in Clicks : run[q].phase \in {"idle", "taken"}
  /\ run' = [run EXCEPT ![r].phase = "drained"]
  /\ build' = [b \in Backups |-> IF build[b].phase = "idle" THEN Idle ELSE build[b]]
  /\ click' = [q \in Clicks |-> IF Waiting(q) THEN [click[q] EXCEPT !.tries = 0] ELSE click[q]]
  /\ stranded' = stranded \union Drained
  /\ OnlyRun /\ Shopless /\ UNCHANGED <<row, faults>>

\* DELETE in reverse order: the items and the orders that are committed now.  The
\* two are one step here: an order that a checkout commits between them is deleted
\* by the second, and its items with it by the cascade (OrderItem.order), so the
\* shop is as if it had been committed before the first.
Empties(r) ==
  /\ run[r].phase = "drained"
  /\ run' = [run EXCEPT ![r] = [@ EXCEPT !.phase = "emptied", !.gone = shop.orders]]
  /\ OnlyRun /\ Shopless /\ UNCHANGED <<row, build, click, stranded, faults>>

\* The counter goes later, and waits for a checkout that has taken a number.
Uncounts(r) ==
  /\ run[r].phase = "emptied" /\ (shop.counter > 0 => ~Counting)
  /\ run' = [run EXCEPT ![r] = [@ EXCEPT !.phase = "uncounted", !.uncounted = shop.counter > 0]]
  /\ OnlyRun /\ Shopless /\ UNCHANGED <<row, build, click, stranded, faults>>

Surviving(r) == shop.orders \ run[r].gone

\* A counter that was made meanwhile, a number or an order that is there, or an
\* item without its order: the database refuses.
Refused(r) ==
  LET a == Archive(r) IN
  \/ a.counter > 0 /\ shop.counter > 0 /\ ~run[r].uncounted
  \/ \E c \in a.orders, d \in Surviving(r) : cart[c].number = cart[d].number
  \/ ~(a.items \subseteq a.orders \union Surviving(r))

\* Mutant of Counted: tenant_counters is not among the tables reloaded.
CountedNever(r) == IF run[r].uncounted THEN 0 ELSE shop.counter

Counted(r) ==
  IF Archive(r).counter > 0 THEN Archive(r).counter
  ELSE IF run[r].uncounted THEN 0 ELSE shop.counter

\* The tables are reloaded forwards, and the commit.
Reload(r) ==
  LET a == Archive(r) IN
  /\ run[r].phase = "uncounted" /\ ~Refused(r) /\ (a.counter > 0 => ~Counting)
  /\ Settle([counter |-> Counted(r), orders |-> a.orders \union Surviving(r),
             items |-> a.items \union (shop.items \ run[r].gone)], "restore", Dumped)
  /\ run' = [run EXCEPT ![r].phase = "restored"]
  /\ OnlyRun /\ UNCHANGED <<row, build, click, stranded, faults>>

Finish(r) ==
  LET b == click[r].backup IN
  /\ run[r].phase = "restored"
  /\ row' = IF row[b].status = "none" THEN row ELSE [row EXCEPT ![b].status = "ready"]
  /\ Ends(r) /\ Done(r)
  /\ OnlyRun /\ Shopless /\ UNCHANGED <<build, stranded, faults>>

\* Mutant of Reported: the status is left for the retry to settle.
ReportedNever(b) == row

\* Back to ready, with the error.
Reported(b) == IF row[b].status = "none" THEN row ELSE [row EXCEPT ![b].status = "ready"]

\* Anything thrown, the write of the status after the commit included: the
\* transaction is rolled back if it is open, and the job is tried again.
RunFails(r) ==
  /\ \/ run[r].phase = "uncounted" /\ Refused(r) /\ NoFault
     \/ run[r].phase # "idle" /\ Fault
  /\ row' = Reported(click[r].backup)
  /\ click' = [click EXCEPT ![r].tries = @ - 1] /\ Ends(r)
  /\ OnlyRun /\ Shopless /\ UNCHANGED <<build, stranded>>

\* The worker dies, or the failure cannot be recorded either: the job is
\* delivered again, or given up with its row as it is.
RunCrash(r) ==
  /\ run[r].phase # "idle" /\ Fault
  /\ click' = [click EXCEPT ![r].tries = @ - 1] /\ Ends(r)
  /\ stranded' = IF click[r].tries = 1 THEN stranded \union {click[r].backup} ELSE stranded
  /\ OnlyRun /\ Shopless /\ UNCHANGED <<row, build>>

-----------------------------------------------------------------------------
\* deleteTenantBackup: the object first, then the row.

OnlyDelete == UNCHANGED <<cart, build, click, run, stranded>> /\ Shopless

\* Mutant of Removed: the object is left to the orphan sweep, which skips it.
RemovedNever(b) == stored

Removed(b) == IF row[b].keyed THEN [stored EXCEPT ![b] = Null] ELSE stored

DeleteObject(b) ==
  /\ del[b] \in {"idle", "halfway"} /\ row[b].status \notin {"none", "restoring"}
  /\ stored' = Removed(b)
  /\ del' = [del EXCEPT ![b] = "removed"]
  /\ abandoned' = IF row[b].keyed /\ build[b] = Idle THEN abandoned ELSE abandoned \union {b}
  /\ OnlyDelete /\ UNCHANGED <<row, faults>>

DeleteRow(b) ==
  /\ del[b] = "removed"
  /\ row' = [row EXCEPT ![b] = NoRow]
  /\ del' = [del EXCEPT ![b] = "deleted"]
  /\ OnlyDelete /\ UNCHANGED <<stored, abandoned, faults>>

\* The process dies in between; the operator may delete it again.
DeleteCrash(b) ==
  /\ del[b] = "removed" /\ Fault
  /\ del' = [del EXCEPT ![b] = "halfway"]
  /\ OnlyDelete /\ UNCHANGED <<row, stored, abandoned>>

-----------------------------------------------------------------------------
Checkout(c) == Number(c) \/ Place(c) \/ PlaceFails(c)
Build(b) ==
  \/ Dispatch(b) \/ RefuseBuild(b) \/ Begin(b) \/ Dump(b) \/ Put(b) \/ Stamp(b)
  \/ BuildFails(b) \/ BuildCrash(b)
Request(r) == Mark(r) \/ Send(r) \/ RefuseRestore(r)
Run(r) ==
  \/ Take(r) \/ Drain(r) \/ Empties(r) \/ Uncounts(r) \/ Reload(r) \/ Finish(r)
  \/ RunFails(r) \/ RunCrash(r)
Delete(b) == DeleteObject(b) \/ DeleteRow(b) \/ DeleteCrash(b)

Next ==
  \/ \E c \in Carts : Checkout(c)
  \/ \E b \in Backups : Create(b) \/ Build(b) \/ Delete(b)
  \/ \E r \in Clicks : (\E b \in Backups : Ask(r, b)) \/ Request(r) \/ Run(r)

Spec == Init /\ [][Next]_vars

-----------------------------------------------------------------------------
\* Properties.

RowStates == [status : {"none", "pending", "ready", "failed", "restoring"}, keyed : BOOLEAN]
BuildStates ==
  [phase : {"idle", "requested", "refused", "dumping", "counter", "orders", "dumped", "put"},
   tries : 0 .. Attempts, dump : Tables]
ClickStates ==
  [phase : {"idle", "checked", "marked", "unsent", "sent", "refused"},
   backup : Backups \union {Null}, tries : 0 .. Attempts]
RunStates ==
  [phase : {"idle", "taken", "drained", "emptied", "uncounted", "restored"},
   archive : Tables, gone : SUBSET Carts, uncounted : BOOLEAN]

\* Every variable keeps its type.
TypeOK ==
  /\ shop \in Tables /\ past \subseteq Tables
  /\ cart \in [Carts -> [phase : {"idle", "numbered", "placed", "failed"}, number : Nat]]
  /\ row \in [Backups -> RowStates]
  /\ stored \in [Backups -> Tables \union {Null}]
  /\ build \in [Backups -> BuildStates]
  /\ click \in [Clicks -> ClickStates]
  /\ run \in [Clicks -> RunStates]
  /\ del \in [Backups -> {"idle", "removed", "halfway", "deleted"}]
  /\ abandoned \subseteq Backups /\ stranded \subseteq Backups
  /\ raced \subseteq {"checkout", "restore"} /\ faults \in 0 .. MaxFaults

\* No order without its items.
Whole(t) == t.orders \subseteq t.items

Unmixed == "restore" \notin raced

ShopSound == shop \in past /\ (Unmixed => shop.items = shop.orders)

\* A run of the job has a try, and a row with a key is there.  A backup without a
\* row, or whose object was removed, has no job under way and nothing in storage;
\* one that is offered, or about to be, has its archive.  The orders of a dump are
\* in it or in the shop with their items; and as long as no commit fell into a
\* dump or a restore, what was dumped and stored is the shop of one moment.
BackupSound(b) ==
  LET at == build[b].phase  dump == build[b].dump IN
  /\ at \in {"dumping", "counter", "orders", "dumped", "put"} => build[b].tries > 0
  /\ row[b].keyed => row[b].status # "none"
  /\ del[b] = "idle" /\ row[b].status = "none" => build[b] = Idle /\ stored[b] = Null
  /\ del[b] # "idle" /\ b \notin abandoned => build[b] = Idle /\ stored[b] = Null
  /\ del[b] = "idle" /\ (row[b].keyed \/ at = "put") => stored[b] # Null
  /\ Unmixed => /\ at = "orders" => dump.orders \subseteq shop.items
                /\ at \in {"dumped", "put"} => Whole(dump)
                /\ stored[b] # Null => Whole(stored[b])
  /\ raced = {} => /\ at \in Dumping => dump.counter = shop.counter
                   /\ at = "orders" => dump.orders = shop.orders
                   /\ at \in {"dumped", "put"} => dump \in past
                   /\ stored[b] # Null => stored[b] \in past

\* A run of the job has a try and an archive that is whole, and one of the past
\* unless a commit fell in; then also what it has emptied is empty.
ClickSound(r) ==
  LET at == run[r].phase IN
  /\ click[r].phase # "idle" => click[r].backup \in Backups
  /\ click[r].tries > 0 => click[r].phase \in {"sent", "refused"}
  /\ at # "idle" => click[r].tries > 0
  /\ Unmixed => (at # "idle" => Whole(Archive(r)))
  /\ raced = {} => /\ at # "idle" => Archive(r) \in past
                   /\ at \in Reloading => shop.orders \union shop.items \subseteq run[r].gone
                   /\ at = "uncounted" /\ ~run[r].uncounted => shop.counter = 0

\* withPurgeLock: one restore at a time is past its checks.
Locking == {"drained", "emptied", "uncounted", "restored"}
OneRestores ==
  \A r, q \in Clicks : run[r].phase \in Locking /\ run[q].phase \in Locking => r = q

\* What every step keeps.
Inductive ==
  /\ TypeOK /\ ShopSound /\ OneRestores
  /\ \A b \in Backups : BackupSound(b)
  /\ \A r \in Clicks : ClickSound(r)

\* A restored shop has whole orders: no order without its items, whatever
\* checkouts commit between two statements of the dump or of the restore.  The
\* way out is a restore that commits in the middle of the dump of another backup.
OrdersWhole == "restore" \notin raced => shop.items = shop.orders

\* A restore puts the shop back the way it was: at its commit the tables are
\* those of one moment in the past, unless a commit fell into the dump or the
\* restore (restore.ts, header).
PutBack ==
  [][\A r \in Clicks : run[r].phase = "uncounted" /\ run'[r].phase = "restored"
        => shop' \in past \/ raced' # {}]_vars

\* An archive in storage has a row, so that it can be found and deleted; the way
\* out is a backup that is deleted before its row has the key (index.ts, header
\* of deleteTenantBackup).
ArchivesOwned ==
  \A b \in Backups : stored[b] # Null /\ row[b].status = "none" => b \in abandoned

\* A backup that is offered can be fetched, but for one whose deletion died
\* between the object and the row (build-tenant-backup.ts, header).
ReadyIsStored ==
  \A b \in Backups : row[b].keyed /\ del[b] = "idle" => stored[b] # Null

\* No row says for ever that work is under way, unless the job was drained by a
\* restore or died with its process.
BackupsSettle ==
  \A b \in Backups :
    row[b].status \in {"pending", "restoring"}
      ~> row[b].status \notin {"pending", "restoring"} \/ b \in stranded

\* "a duplicate that violates @@unique([tenantId, number]) -- a 500 on a
\* customer's checkout" is not acceptable (orders/numbering.ts:20-24): no checkout
\* is refused for its number.
NumbersNeverCollide == \A c \in Carts : cart[c].phase # "failed"
===============================================================================
