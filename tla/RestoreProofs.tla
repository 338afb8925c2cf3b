----------------------------- MODULE RestoreProofs -----------------------------
(***************************************************************************)
(* Proofs about Restore, for every set of checkouts, backups and restores, *)
(* any number of tries and of faults.  The inductive invariant speaks of   *)
(* one backup or one restore at a time, so a step is shown to keep it for  *)
(* what it touches, and frames give the rest; only the commits of Place    *)
(* and Reload reach every dump and every run.                              *)
(***************************************************************************)
EXTENDS Restore, TLAPS

Tabled == Tables \union {Null}
Backed == \A b \in Backups : BackupSound(b)
Clicked == \A r \in Clicks : ClickSound(r)

\* The invariant in its parts.
LEMMA Parts == Inductive <=> TypeOK /\ ShopSound /\ OneRestores /\ Backed /\ Clicked
BY DEF Inductive, Backed, Clicked

\* The records that Init and the resets write.
LEMMA Blanks ==
  /\ Empty \in Tables
  /\ NoRow \in RowStates /\ NoRow.status = "none" /\ NoRow.keyed = FALSE
  /\ Idle \in BuildStates /\ Idle.phase = "idle" /\ Idle.tries = 0
  /\ NoRun \in RunStates /\ NoRun.phase = "idle"
<1>1. Empty \in Tables
  BY DEF Empty, Tables
<1>2. 0 \in 0 .. Attempts
  BY RestoreAssumption
<1> QED
  BY <1>1, <1>2 DEF NoRow, Idle, NoRun, RowStates, BuildStates, RunStates

--------------------------------------------------------------------------------
(* Frames *)

\* What BackupSound and ClickSound read of the shop.
shopVars == <<shop, past, raced>>

\* A backup that was left alone is as sound as before.
LEMMA OtherBackup ==
  ASSUME NEW x \in Backups, BackupSound(x), UNCHANGED shopVars,
         build'[x] = build[x], row'[x] = row[x], stored'[x] = stored[x], del'[x] = del[x],
         x \in abandoned => x \in abandoned'
  PROVE  BackupSound(x)'
BY DEF BackupSound, shopVars, Unmixed

\* So is a restore that was left alone.
LEMMA OtherClick ==
  ASSUME NEW x \in Clicks, ClickSound(x), UNCHANGED shopVars,
         click'[x] = click[x], run'[x] = run[x]
  PROVE  ClickSound(x)'
BY DEF ClickSound, shopVars, Unmixed, Archive

\* A step of the build of one backup: its row, archive and job.
LEMMA BuildMoves ==
  ASSUME Inductive, NEW b \in Backups, UNCHANGED <<cart, click, run, del, abandoned>>, UNCHANGED shopVars,
         NEW q \in BuildStates, NEW s \in RowStates, NEW a \in Tabled,
         build' = [build EXCEPT ![b] = q], row' = [row EXCEPT ![b] = s], stored' = [stored EXCEPT ![b] = a],
         stranded' \subseteq Backups, faults' \in 0 .. MaxFaults,
         BackupSound(b)'
  PROVE  Inductive'
<1>1. TypeOK /\ ShopSound /\ OneRestores /\ Backed /\ Clicked
  BY Parts
<1>2. TypeOK'
  BY <1>1 DEF TypeOK, shopVars, Tabled
<1>3. \A x \in Backups : x # b => build'[x] = build[x] /\ row'[x] = row[x] /\ stored'[x] = stored[x]
  BY <1>1 DEF TypeOK
<1>4. \A x \in Backups : x # b => BackupSound(x)'
  BY <1>1, <1>3, OtherBackup DEF Backed
<1>5. \A x \in Clicks : ClickSound(x)'
  BY <1>1, OtherClick DEF Clicked
<1>6. ShopSound' /\ OneRestores'
  BY <1>1 DEF ShopSound, OneRestores, shopVars, Unmixed
<1> QED
  BY <1>2, <1>4, <1>5, <1>6 DEF Inductive

\* A step of one request or its run, which may write the status of its row.
LEMMA ClickMoves ==
  ASSUME Inductive, NEW r \in Clicks, UNCHANGED <<cart, stored, build, del, abandoned>>, UNCHANGED shopVars,
         NEW q \in ClickStates, NEW p \in RunStates, NEW b, NEW st \in {"ready", "restoring"},
         click' = [click EXCEPT ![r] = q], run' = [run EXCEPT ![r] = p],
         \/ UNCHANGED row
         \/ b \in Backups /\ row[b].status # "none" /\ row' = [row EXCEPT ![b].status = st],
         p.phase \in Locking => \A x \in Clicks : run[x].phase \in Locking => x = r,
         stranded' \subseteq Backups, faults' \in 0 .. MaxFaults,
         ClickSound(r)'
  PROVE  Inductive'
<1>1. TypeOK /\ ShopSound /\ OneRestores /\ Backed /\ Clicked
  BY Parts
<1>2. row' \in [Backups -> RowStates]
      /\ \A x \in Backups : row'[x].keyed = row[x].keyed /\ (row'[x].status = "none" <=> row[x].status = "none")
  <2>1. row \in [Backups -> RowStates]
    BY <1>1 DEF TypeOK
  <2>2. CASE UNCHANGED row
    BY <2>1, <2>2
  <2>3. CASE b \in Backups /\ row[b].status # "none" /\ row' = [row EXCEPT ![b].status = st]
    BY <2>1, <2>3 DEF RowStates
  <2> QED
    BY <2>2, <2>3
<1>3. TypeOK'
  BY <1>1, <1>2 DEF TypeOK, shopVars
<1>4. \A x \in Clicks : x # r => click'[x] = click[x] /\ run'[x] = run[x]
  BY <1>1 DEF TypeOK
<1>5. \A x \in Clicks : x # r => ClickSound(x)'
  BY <1>1, <1>4, OtherClick DEF Clicked
<1>6. \A x \in Backups : BackupSound(x)'
  BY <1>1, <1>2 DEF BackupSound, Backed, shopVars, Unmixed
<1>7. ShopSound'
  BY <1>1 DEF ShopSound, shopVars, Unmixed
<1>8. OneRestores'
  <2>1. run'[r] = p
    BY <1>1 DEF TypeOK
  <2> QED
    BY <1>1, <1>4, <2>1 DEF OneRestores
<1> QED
  BY <1>3, <1>5, <1>6, <1>7, <1>8 DEF Inductive
--------------------------------------------------------------------------------
(* The build *)

\* The state of a backup, typed.
LEMMA BackupTyped ==
  ASSUME Inductive, NEW b \in Backups
  PROVE  /\ build \in [Backups -> BuildStates] /\ build[b] \in BuildStates
         /\ row \in [Backups -> RowStates] /\ row[b] \in RowStates
         /\ stored \in [Backups -> Tabled] /\ stored[b] \in Tabled
         /\ build[b].dump \in Tables /\ build[b].tries \in 0 .. Attempts
         /\ stranded \subseteq Backups /\ faults \in 0 .. MaxFaults
         /\ BackupSound(b) /\ ShopSound
<1>1. build[b] \in BuildStates
  BY DEF Inductive, TypeOK
<1>2. build[b].dump \in Tables /\ build[b].tries \in 0 .. Attempts
  BY <1>1 DEF BuildStates
<1> QED
  BY <1>1, <1>2 DEF Inductive, TypeOK, Tabled

\* A step of a build leaves the shop, the requests and the deletion alone.
LEMMA BuildFrame ==
  ASSUME OnlyBuild
  PROVE  UNCHANGED <<cart, click, run, del, abandoned>> /\ UNCHANGED shopVars
BY DEF OnlyBuild, Shopless, shopVars

\* The count of faults stays within its bound.
LEMMA FaultTyped ==
  ASSUME Inductive, Fault \/ NoFault
  PROVE  faults' \in 0 .. MaxFaults
<1>1. faults \in 0 .. MaxFaults
  BY DEF Inductive, TypeOK
<1> QED
  BY <1>1, RestoreAssumption DEF Fault, NoFault

\* The job ends and is not under way, and the row has no key for the first time.
LEMMA BuildEnds ==
  ASSUME Inductive, NEW b \in Backups, UNCHANGED <<cart, click, run, del, abandoned>>, UNCHANGED shopVars,
         NEW n \in 0 .. Attempts, NEW s \in RowStates,
         build' = [build EXCEPT ![b] = [Idle EXCEPT !.tries = n]],
         row' = [row EXCEPT ![b] = s], UNCHANGED stored,
         s.keyed = row[b].keyed, s.status = "none" <=> row[b].status = "none",
         build[b] = Idle => n = 0,
         stranded' \subseteq Backups, faults' \in 0 .. MaxFaults
  PROVE  Inductive'
<1> DEFINE q == [Idle EXCEPT !.tries = n]
<1>1. q \in BuildStates /\ q.phase = "idle" /\ (build[b] = Idle => q = Idle)
  BY Blanks DEF BuildStates, Idle
<1>2. stored' = [stored EXCEPT ![b] = stored[b]] /\ stored[b] \in Tabled
  BY BackupTyped
<1> HIDE DEF q
<1>3. build'[b] = q /\ row'[b] = s /\ stored'[b] = stored[b]
  BY BackupTyped DEF q
<1>4. BackupSound(b)'
  BY <1>1, <1>3, BackupTyped DEF BackupSound, Dumping, shopVars, Unmixed
<1> QED
  BY <1>1, <1>2, <1>4, BuildMoves DEF q

\* createTenantBackup: a row and a request.
LEMMA CreateKeeps ==
  ASSUME Inductive, NEW b \in Backups, Create(b)
  PROVE  Inductive'
<1> DEFINE q == [Idle EXCEPT !.phase = "requested"]
           s == [status |-> "pending", keyed |-> FALSE]
<1>1. q \in BuildStates /\ s \in RowStates /\ q.phase = "requested"
  BY Blanks DEF BuildStates, Idle, RowStates
<1>2. build' = [build EXCEPT ![b] = q] /\ row' = [row EXCEPT ![b] = s] /\ build'[b] = q /\ row'[b] = s
  BY BackupTyped DEF Create
<1>3. stored' = [stored EXCEPT ![b] = stored[b]] /\ stored[b] \in Tabled
  BY BackupTyped DEF Create
<1> HIDE DEF q
<1>4. BackupSound(b)'
  BY <1>1, <1>2, BackupTyped DEF BackupSound, Dumping, shopVars, Unmixed, Create, OnlyBuild, Shopless
<1>5. /\ UNCHANGED <<cart, click, run, del, abandoned>> /\ UNCHANGED shopVars
      /\ stranded' \subseteq Backups /\ faults' \in 0 .. MaxFaults
  BY BackupTyped, BuildFrame DEF Create
<1> QED
  BY <1>1, <1>2, <1>3, <1>4, <1>5, BuildMoves

\* The row as it is, or failed if it is there.
LEMMA RowFailed ==
  ASSUME Inductive, NEW b \in Backups, NEW s,
         s = IF row[b].status = "none" THEN row ELSE [row EXCEPT ![b].status = "failed"]
  PROVE  /\ s = [row EXCEPT ![b] = s[b]] /\ s[b] \in RowStates
         /\ s[b].keyed = row[b].keyed /\ (s[b].status = "none" <=> row[b].status = "none")
BY BackupTyped DEF RowStates

\* The job is accepted, given up, or lost with its process.
LEMMA DispatchKeeps ==
  ASSUME Inductive, NEW b \in Backups, Dispatch(b)
  PROVE  Inductive'
<1>1. /\ UNCHANGED <<cart, click, run, del, abandoned>> /\ UNCHANGED shopVars
      /\ stranded' \subseteq Backups /\ faults' \in 0 .. MaxFaults
      /\ UNCHANGED <<row, stored>> /\ build[b].phase = "requested" /\ build[b] # Idle
  BY BackupTyped, BuildFrame, Blanks, RestoreAssumption DEF Dispatch, Fault, NoFault
<1>2. /\ row' = [row EXCEPT ![b] = row[b]] /\ row[b] \in RowStates
      /\ stored' = [stored EXCEPT ![b] = stored[b]] /\ stored[b] \in Tabled
  BY <1>1, BackupTyped
<1>3. CASE build' = [build EXCEPT ![b] = [Idle EXCEPT !.tries = Attempts]]
  <2>1. Attempts \in 0 .. Attempts
    BY RestoreAssumption
  <2> QED
    BY <1>1, <1>2, <1>3, <2>1, BuildEnds
<1>4. CASE build' = [build EXCEPT ![b] = Idle]
  <2>1. 0 \in 0 .. Attempts /\ Idle = [Idle EXCEPT !.tries = 0]
    BY RestoreAssumption DEF Idle
  <2> QED
    BY <1>1, <1>2, <1>4, <2>1, BuildEnds
<1>5. CASE build' = [build EXCEPT ![b].phase = "refused"]
  <2> DEFINE q == [build[b] EXCEPT !.phase = "refused"]
  <2>1. q \in BuildStates /\ q.phase = "refused" /\ build' = [build EXCEPT ![b] = q] /\ build'[b] = q
    BY <1>5, BackupTyped DEF BuildStates
  <2> HIDE DEF q
  <2>2. BackupSound(b)'
    BY <1>1, <2>1, BackupTyped DEF BackupSound, Dumping, shopVars, Unmixed
  <2> QED
    BY <1>1, <1>2, <2>1, <2>2, BuildMoves
<1> QED
  BY <1>3, <1>4, <1>5 DEF Dispatch

\* The row says failed; the job may come all the same.
LEMMA RefuseBuildKeeps ==
  ASSUME Inductive, NEW b \in Backups, RefuseBuild(b)
  PROVE  Inductive'
<1>1. /\ UNCHANGED <<cart, click, run, del, abandoned>> /\ UNCHANGED shopVars
      /\ stranded' \subseteq Backups /\ faults' \in 0 .. MaxFaults
      /\ UNCHANGED stored /\ build[b] # Idle
  BY BackupTyped, BuildFrame, Blanks DEF RefuseBuild
<1>2. PICK late \in {0, Attempts} : build' = [build EXCEPT ![b] = [Idle EXCEPT !.tries = late]]
  BY DEF RefuseBuild
<1>l. late \in 0 .. Attempts
  BY RestoreAssumption
<1>3. /\ row' = [row EXCEPT ![b] = row'[b]] /\ row'[b] \in RowStates
      /\ row'[b].keyed = row[b].keyed /\ (row'[b].status = "none" <=> row[b].status = "none")
  BY RowFailed DEF RefuseBuild
<1> QED
  BY <1>1, <1>2, <1>l, <1>3, BuildEnds

\* A run that finds its row, or none.
LEMMA BeginKeeps ==
  ASSUME Inductive, NEW b \in Backups, Begin(b)
  PROVE  Inductive'
<1>1. /\ UNCHANGED <<cart, click, run, del, abandoned>> /\ UNCHANGED shopVars
      /\ stranded' \subseteq Backups /\ faults' \in 0 .. MaxFaults
      /\ UNCHANGED <<row, stored>> /\ build[b].phase = "idle" /\ build[b].tries > 0 /\ build[b] # Idle
  BY BackupTyped, BuildFrame, Blanks DEF Begin, Due
<1>2. /\ row' = [row EXCEPT ![b] = row[b]] /\ row[b] \in RowStates
      /\ stored' = [stored EXCEPT ![b] = stored[b]] /\ stored[b] \in Tabled
  BY <1>1, BackupTyped
<1>3. CASE row[b].status = "none"
  <2>1. 0 \in 0 .. Attempts /\ Idle = [Idle EXCEPT !.tries = 0]
    BY RestoreAssumption DEF Idle
  <2>2. build' = [build EXCEPT ![b] = Idle]
    BY <1>3 DEF Begin
  <2> QED
    BY <1>1, <1>2, <2>1, <2>2, BuildEnds
<1>4. CASE row[b].status # "none"
  <2> DEFINE q == [build[b] EXCEPT !.phase = "dumping"]
  <2>1. /\ q \in BuildStates /\ q.phase = "dumping" /\ q.tries = build[b].tries
        /\ build' = [build EXCEPT ![b] = q] /\ build'[b] = q
    BY <1>4, BackupTyped DEF BuildStates, Begin
  <2> HIDE DEF q
  <2>2. BackupSound(b)'
    BY <1>1, <1>4, <2>1, BackupTyped DEF BackupSound, Dumping, shopVars, Unmixed
  <2> QED
    BY <1>1, <1>2, <2>1, <2>2, BuildMoves
<1> QED
  BY <1>3, <1>4

\* One table is read: the counter, the orders, then the items.
LEMMA DumpKeeps ==
  ASSUME Inductive, NEW b \in Backups, Dump(b)
  PROVE  Inductive'
<1> DEFINE at == build[b].phase
           d == build[b].dump
<1>1. /\ UNCHANGED <<cart, click, run, del, abandoned>> /\ UNCHANGED shopVars
      /\ stranded' \subseteq Backups /\ faults' \in 0 .. MaxFaults
      /\ UNCHANGED <<row, stored>> /\ build[b] # Idle
  BY BackupTyped, BuildFrame, Blanks DEF Dump
<1>2. /\ row' = [row EXCEPT ![b] = row[b]] /\ row[b] \in RowStates
      /\ stored' = [stored EXCEPT ![b] = stored[b]] /\ stored[b] \in Tabled
  BY <1>1, BackupTyped
<1>3. shop \in Tables
  BY DEF Inductive, TypeOK
<1>4. PICK q \in BuildStates :
        /\ build' = [build EXCEPT ![b] = q] /\ q.tries = build[b].tries
        /\ \/ at = "dumping" /\ q.phase = "counter" /\ q.dump.counter = shop.counter
           \/ at = "counter" /\ q.phase = "orders"
              /\ q.dump.orders = shop.orders /\ q.dump.counter = d.counter
           \/ at = "orders" /\ q.phase = "dumped"
              /\ q.dump.counter = d.counter /\ q.dump.orders = d.orders /\ q.dump.items = shop.items
  <2> DEFINE move(phase, dump) == [build[b] EXCEPT !.phase = phase, !.dump = dump]
  <2>1. CASE at = "dumping"
    <3> DEFINE e == [d EXCEPT !.counter = shop.counter]
    <3>1. e \in Tables /\ e.counter = shop.counter
      BY <1>3, BackupTyped DEF Tables
    <3>2. Step(b) = [phase |-> "counter", dump |-> e]
      BY <2>1 DEF Step
    <3>3. build' = [build EXCEPT ![b] = move("counter", e)]
      BY <3>2 DEF Dump
    <3> HIDE DEF e
    <3>4. /\ move("counter", e) \in BuildStates /\ move("counter", e).tries = build[b].tries
          /\ move("counter", e).phase = "counter" /\ move("counter", e).dump = e
      BY <3>1, BackupTyped DEF BuildStates
    <3> HIDE DEF move
    <3> QED
      BY <2>1, <3>1, <3>3, <3>4
  <2>2. CASE at = "counter"
    <3> DEFINE e == [d EXCEPT !.orders = shop.orders]
    <3>1. e \in Tables /\ e.orders = shop.orders /\ e.counter = d.counter
      BY <1>3, BackupTyped DEF Tables
    <3>2. Step(b) = [phase |-> "orders", dump |-> e]
      BY <2>2 DEF Step
    <3>3. build' = [build EXCEPT ![b] = move("orders", e)]
      BY <3>2 DEF Dump
    <3> HIDE DEF e
    <3>4. /\ move("orders", e) \in BuildStates /\ move("orders", e).tries = build[b].tries
          /\ move("orders", e).phase = "orders" /\ move("orders", e).dump = e
      BY <3>1, BackupTyped DEF BuildStates
    <3> HIDE DEF move
    <3> QED
      BY <2>2, <3>1, <3>3, <3>4
  <2>3. CASE at = "orders"
    <3> DEFINE e == [d EXCEPT !.items = shop.items]
    <3>1. e \in Tables /\ e.items = shop.items /\ e.orders = d.orders /\ e.counter = d.counter
      BY <1>3, BackupTyped DEF Tables
    <3>2. Step(b) = [phase |-> "dumped", dump |-> e]
      BY <2>3 DEF Step
    <3>3. build' = [build EXCEPT ![b] = move("dumped", e)]
      BY <3>2 DEF Dump
    <3> HIDE DEF e
    <3>4. /\ move("dumped", e) \in BuildStates /\ move("dumped", e).tries = build[b].tries
          /\ move("dumped", e).phase = "dumped" /\ move("dumped", e).dump = e
      BY <3>1, BackupTyped DEF BuildStates
    <3> HIDE DEF move
    <3> QED
      BY <2>3, <3>1, <3>3, <3>4
  <2> QED
    BY <2>1, <2>2, <2>3 DEF Dump
<1>5. build'[b] = q
  BY <1>4, BackupTyped
<1>6. q.dump \in Tables
  BY DEF BuildStates
<1>7. q.phase = "dumped" /\ raced = {} => q.dump \in past
  <2> HAVE q.phase = "dumped" /\ raced = {}
  <2>1. /\ d.counter = shop.counter /\ d.orders = shop.orders /\ at = "orders"
    BY <1>4, BackupTyped DEF BackupSound, Dumping
  <2>2. q.dump = shop
    BY <1>3, <1>4, <1>6, <2>1 DEF Tables
  <2> QED
    BY <2>2, BackupTyped DEF ShopSound
<1>8. q.phase = "orders" /\ Unmixed => q.dump.orders \subseteq shop.items
  BY <1>4, BackupTyped DEF ShopSound
<1>9. q.phase = "dumped" /\ Unmixed => Whole(q.dump)
  BY <1>4, BackupTyped DEF BackupSound, Whole
<1>10. q.phase \in {"counter", "orders"} /\ raced = {} => q.dump.counter = shop.counter
  BY <1>4, BackupTyped DEF BackupSound, Dumping
<1>11. q.phase = "orders" => q.dump.orders = shop.orders
  BY <1>4
<1>12. q.phase \in {"counter", "orders", "dumped"} /\ build[b].tries > 0
  BY <1>4, BackupTyped DEF BackupSound
<1>13. BackupSound(b)'
  BY <1>1, <1>4, <1>5, <1>7, <1>8, <1>9, <1>10, <1>11, <1>12, BackupTyped DEF BackupSound, Dumping, shopVars, Unmixed
<1> QED
  BY <1>1, <1>2, <1>4, <1>13, BuildMoves

\* The archive is there before the row has its key.
LEMMA PutKeeps ==
  ASSUME Inductive, NEW b \in Backups, Put(b)
  PROVE  Inductive'
<1> DEFINE q == [build[b] EXCEPT !.phase = "put"]
           a == build[b].dump
<1>1. /\ UNCHANGED <<cart, click, run, del, abandoned>> /\ UNCHANGED shopVars
      /\ stranded' \subseteq Backups /\ faults' \in 0 .. MaxFaults
      /\ UNCHANGED row /\ build[b].phase = "dumped" /\ build[b] # Idle
  BY BackupTyped, BuildFrame, Blanks DEF Put
<1>2. /\ q \in BuildStates /\ q.phase = "put" /\ q.tries = build[b].tries /\ q.dump = a
      /\ build' = [build EXCEPT ![b] = q] /\ build'[b] = q
  BY BackupTyped DEF BuildStates, Put
<1>3. /\ row' = [row EXCEPT ![b] = row[b]] /\ row[b] \in RowStates
      /\ stored' = [stored EXCEPT ![b] = a] /\ a \in Tabled /\ stored'[b] = a /\ a # Null
  BY <1>1, BackupTyped, RestoreAssumption DEF Put, Tabled
<1> HIDE DEF q
<1>4. BackupSound(b)'
  BY <1>1, <1>2, <1>3, BackupTyped DEF BackupSound, Dumping, shopVars, Unmixed
<1> QED
  BY <1>1, <1>2, <1>3, <1>4, BuildMoves

\* The row has its key.
LEMMA StampKeeps ==
  ASSUME Inductive, NEW b \in Backups, Stamp(b)
  PROVE  Inductive'
<1> DEFINE s == [status |-> "ready", keyed |-> TRUE]
<1>1. /\ UNCHANGED <<cart, click, run, del, abandoned>> /\ UNCHANGED shopVars
      /\ stranded' \subseteq Backups /\ faults' \in 0 .. MaxFaults
      /\ UNCHANGED stored /\ build[b].phase = "put" /\ build[b] # Idle
  BY BackupTyped, BuildFrame, Blanks DEF Stamp, Stampable
<1>2. build' = [build EXCEPT ![b] = Idle] /\ build'[b] = Idle
  BY BackupTyped DEF Stamp
<1>3. /\ row' = [row EXCEPT ![b] = s] /\ s \in RowStates /\ row'[b] = s
      /\ stored' = [stored EXCEPT ![b] = stored[b]] /\ stored[b] \in Tabled
  BY <1>1, BackupTyped DEF Stamp, RowStates
<1>4. BackupSound(b)'
  BY <1>1, <1>2, <1>3, BackupTyped, Blanks DEF BackupSound, Dumping, shopVars, Unmixed
<1> QED
  BY <1>1, <1>2, <1>3, <1>4, Blanks, BuildMoves

\* A run that fails or dies leaves one try less.
LEMMA BuildFailsKeeps ==
  ASSUME Inductive, NEW b \in Backups, BuildFails(b) \/ BuildCrash(b)
  PROVE  Inductive'
<1>1. /\ UNCHANGED <<cart, click, run, del, abandoned>> /\ UNCHANGED shopVars
      /\ UNCHANGED stored /\ build[b] # Idle
      /\ build[b].phase \in {"dumping", "counter", "orders", "dumped", "put"}
  BY BuildFrame, Blanks DEF BuildFails, BuildCrash
<1>s. stranded' \subseteq Backups /\ faults' \in 0 .. MaxFaults
  <2>1. faults' \in 0 .. MaxFaults
    BY FaultTyped DEF BuildFails, BuildCrash
  <2>2. stranded' \in {stranded, stranded \union {b}}
    BY DEF BuildFails, BuildCrash
  <2> QED
    BY <2>1, <2>2, BackupTyped
<1>2. build[b].tries - 1 \in 0 .. Attempts
  BY <1>1, BackupTyped, RestoreAssumption DEF BackupSound
<1>3. build' = [build EXCEPT ![b] = [Idle EXCEPT !.tries = build[b].tries - 1]]
  BY DEF BuildFails, BuildCrash
<1>4. /\ row' = [row EXCEPT ![b] = row'[b]] /\ row'[b] \in RowStates
      /\ row'[b].keyed = row[b].keyed /\ (row'[b].status = "none" <=> row[b].status = "none")
  BY RowFailed, BackupTyped DEF BuildFails, BuildCrash
<1> QED
  BY <1>1, <1>s, <1>2, <1>3, <1>4, BuildEnds

--------------------------------------------------------------------------------
(* The request and the restore *)

\* The state of a restore, typed.
LEMMA ClickTyped ==
  ASSUME Inductive, NEW r \in Clicks
  PROVE  /\ click \in [Clicks -> ClickStates] /\ click[r] \in ClickStates
         /\ run \in [Clicks -> RunStates] /\ run[r] \in RunStates
         /\ click[r].tries \in 0 .. Attempts /\ Archive(r) \in Tables
         /\ stranded \subseteq Backups /\ faults \in 0 .. MaxFaults
         /\ ClickSound(r) /\ ShopSound
<1>1. click[r] \in ClickStates /\ run[r] \in RunStates
  BY DEF Inductive, TypeOK
<1>2. click[r].tries \in 0 .. Attempts /\ Archive(r) \in Tables
  BY <1>1 DEF ClickStates, RunStates, Archive
<1> QED
  BY <1>1, <1>2 DEF Inductive, TypeOK

\* The status of a row that is there, or no change.
RowMarked ==
  \/ UNCHANGED row
  \/ \E b \in Backups, st \in {"ready", "restoring"} :
       row[b].status # "none" /\ row' = [row EXCEPT ![b].status = st]

\* A step of one restore, with the status it may write.
LEMMA Marked ==
  ASSUME Inductive, NEW r \in Clicks, UNCHANGED <<cart, stored, build, del, abandoned>>, UNCHANGED shopVars,
         NEW q \in ClickStates, NEW p \in RunStates,
         click' = [click EXCEPT ![r] = q], run' = [run EXCEPT ![r] = p], RowMarked,
         p.phase \in Locking => \A x \in Clicks : run[x].phase \in Locking => x = r,
         stranded' \subseteq Backups, faults' \in 0 .. MaxFaults,
         ClickSound(r)'
  PROVE  Inductive'
<1>1. CASE UNCHANGED row
  BY <1>1, ClickMoves
<1>2. CASE ~UNCHANGED row
  <2>1. PICK b \in Backups, st \in {"ready", "restoring"} :
          row[b].status # "none" /\ row' = [row EXCEPT ![b].status = st]
    BY <1>2 DEF RowMarked
  <2> QED
    BY <2>1, ClickMoves
<1> QED
  BY <1>1, <1>2

\* The request goes on, its job and run as they were.
LEMMA RequestMoves ==
  ASSUME Inductive, NEW r \in Clicks, OnlyClick, RowMarked,
         NEW q \in ClickStates, click' = [click EXCEPT ![r] = q],
         q.phase # "idle" => q.backup \in Backups,
         q.tries > 0 => q.phase \in {"sent", "refused"},
         run[r].phase # "idle" => q.tries > 0,
         stranded' \subseteq Backups, faults' \in 0 .. MaxFaults
  PROVE  Inductive'
<1>1. /\ UNCHANGED <<cart, stored, build, del, abandoned>> /\ UNCHANGED shopVars /\ UNCHANGED run
  BY DEF OnlyClick, Shopless, shopVars
<1>2. run' = [run EXCEPT ![r] = run[r]] /\ run[r] \in RunStates /\ click'[r] = q
  BY <1>1, ClickTyped
<1>3. run[r].phase \in Locking => \A x \in Clicks : run[x].phase \in Locking => x = r
  BY DEF Inductive, OneRestores
<1>4. ClickSound(r)'
  BY <1>1, <1>2, ClickTyped DEF ClickSound, Archive, Reloading, shopVars, Unmixed
<1> QED
  BY <1>1, <1>2, <1>3, <1>4, Marked

\* restoreTenantBackup: the checks, the status, and the job.
LEMMA AskKeeps ==
  ASSUME Inductive, NEW r \in Clicks, NEW b \in Backups, Ask(r, b)
  PROVE  Inductive'
<1> DEFINE q == [click[r] EXCEPT !.phase = "checked", !.backup = b]
<1>1. click[r].tries = 0 /\ run[r].phase = "idle"
  BY ClickTyped DEF ClickSound, Ask
<1>2. q \in ClickStates /\ q.backup = b /\ q.tries = 0 /\ click' = [click EXCEPT ![r] = q]
  BY <1>1, ClickTyped DEF ClickStates, Ask
<1>3. OnlyClick /\ RowMarked /\ stranded' \subseteq Backups /\ faults' \in 0 .. MaxFaults
  BY ClickTyped DEF Ask, RowMarked
<1> HIDE DEF q
<1>4. ~(q.tries > 0)
  BY <1>2
<1>5. q.backup \in Backups
  BY <1>2
<1> QED
  BY <1>1, <1>2, <1>3, <1>4, <1>5, RequestMoves

\* The status is written.
LEMMA MarkKeeps ==
  ASSUME Inductive, NEW r \in Clicks, Mark(r)
  PROVE  Inductive'
<1>1. PICK ph \in {"marked", "refused"} : click' = [click EXCEPT ![r].phase = ph]
  BY DEF Mark, Moves
<1> DEFINE q == [click[r] EXCEPT !.phase = ph]
<1>2. click[r].tries = 0 /\ run[r].phase = "idle" /\ click[r].backup \in Backups
  BY ClickTyped DEF ClickSound, Mark
<1>3. q \in ClickStates /\ q.backup = click[r].backup /\ q.tries = 0 /\ click' = [click EXCEPT ![r] = q]
  BY <1>1, <1>2, ClickTyped DEF ClickStates
<1>4. OnlyClick /\ RowMarked /\ stranded' \subseteq Backups /\ faults' \in 0 .. MaxFaults
  BY <1>2, ClickTyped DEF Mark, RowMarked, Writes
<1> HIDE DEF q
<1>5. ~(q.tries > 0) /\ q.backup \in Backups
  BY <1>2, <1>3
<1> QED
  BY <1>2, <1>3, <1>4, <1>5, RequestMoves

\* The job is accepted, given up, or lost with its process.
LEMMA SendKeeps ==
  ASSUME Inductive, NEW r \in Clicks, Send(r)
  PROVE  Inductive'
<1>1. PICK ph \in {"sent", "unsent", "refused"}, n \in 0 .. Attempts :
        /\ click' = [click EXCEPT ![r] = [click[r] EXCEPT !.phase = ph, !.tries = n]]
        /\ n > 0 => ph = "sent"
  <2>1. click[r].tries = 0 /\ 0 \in 0 .. Attempts /\ Attempts \in 0 .. Attempts
    BY ClickTyped, RestoreAssumption DEF ClickSound, Send
  <2>2. CASE click' = [click EXCEPT ![r] = [@ EXCEPT !.phase = "sent", !.tries = Attempts]]
    BY <2>1, <2>2
  <2>3. CASE \E ph \in {"unsent", "refused"} : click' = [click EXCEPT ![r].phase = ph]
    <3>1. PICK ph \in {"unsent", "refused"} : click' = [click EXCEPT ![r].phase = ph]
      BY <2>3
    <3>2. click' = [click EXCEPT ![r] = [click[r] EXCEPT !.phase = ph, !.tries = 0]]
      BY <2>1, <3>1, ClickTyped DEF ClickStates
    <3>3. ph \in {"sent", "unsent", "refused"} /\ ~(0 > 0)
      BY <3>1
    <3> QED
      BY <2>1, <3>2, <3>3, Zenon
  <2> QED
    BY <2>2, <2>3 DEF Send, Moves
<1> DEFINE q == [click[r] EXCEPT !.phase = ph, !.tries = n]
<1>2. q \in ClickStates /\ q.backup = click[r].backup /\ q.tries = n /\ q.phase = ph
      /\ click' = [click EXCEPT ![r] = q]
  BY <1>1, ClickTyped DEF ClickStates
<1>3. run[r].phase = "idle" /\ click[r].backup \in Backups
  BY ClickTyped DEF ClickSound, Send
<1>4. OnlyClick /\ RowMarked
  BY DEF Send, RowMarked
<1>5. stranded' \subseteq Backups /\ faults' \in 0 .. MaxFaults
  <2>1. faults' \in 0 .. MaxFaults
    BY FaultTyped DEF Send
  <2>2. stranded' \in {stranded, stranded \union {click[r].backup}}
    BY DEF Send
  <2> QED
    BY <1>3, <2>1, <2>2, ClickTyped
<1> HIDE DEF q
<1> QED
  BY <1>1, <1>2, <1>3, <1>4, <1>5, RequestMoves

\* The status is put back; the job may come all the same.
LEMMA RefuseRestoreKeeps ==
  ASSUME Inductive, NEW r \in Clicks, RefuseRestore(r)
  PROVE  Inductive'
<1>1. PICK late \in {0, Attempts} : click' = [click EXCEPT ![r] = [@ EXCEPT !.phase = "refused", !.tries = late]]
  BY DEF RefuseRestore
<1> DEFINE q == [click[r] EXCEPT !.phase = "refused", !.tries = late]
<1>l. late \in 0 .. Attempts
  BY RestoreAssumption
<1>2. q \in ClickStates /\ q.backup = click[r].backup /\ q.phase = "refused"
      /\ click' = [click EXCEPT ![r] = q]
  BY <1>1, <1>l, ClickTyped DEF ClickStates
<1>3. run[r].phase = "idle" /\ click[r].backup \in Backups
  BY ClickTyped DEF ClickSound, RefuseRestore
<1>4. OnlyClick /\ RowMarked /\ stranded' \subseteq Backups /\ faults' \in 0 .. MaxFaults
  BY <1>3, ClickTyped DEF RefuseRestore, RowMarked
<1> HIDE DEF q
<1> QED
  BY <1>2, <1>3, <1>4, RequestMoves

\* A step of a run: its try and its own state; the builds stay.
LEMMA RunFrame ==
  ASSUME OnlyRun, Shopless, UNCHANGED build
  PROVE  UNCHANGED <<cart, stored, build, del, abandoned>> /\ UNCHANGED shopVars
BY DEF OnlyRun, Shopless, shopVars

\* A run goes on from one phase of the lock to the next, or starts.
LEMMA RunGoesOn ==
  ASSUME Inductive, NEW r \in Clicks, OnlyRun, Shopless, UNCHANGED <<row, build, click, stranded, faults>>,
         NEW p \in RunStates, run' = [run EXCEPT ![r] = p],
         p.phase # "idle" => click[r].tries > 0 /\ (Unmixed => Whole(p.archive)),
         p.phase \in Locking => \A x \in Clicks : run[x].phase \in Locking => x = r,
         raced = {} => /\ p.phase # "idle" => p.archive \in past
                       /\ p.phase \in Reloading => shop.orders \union shop.items \subseteq p.gone
                       /\ p.phase = "uncounted" /\ ~p.uncounted => shop.counter = 0
  PROVE  Inductive'
<1>1. UNCHANGED <<cart, stored, build, del, abandoned>> /\ UNCHANGED shopVars /\ RowMarked
  BY RunFrame DEF RowMarked
<1>2. click' = [click EXCEPT ![r] = click[r]] /\ click[r] \in ClickStates /\ run'[r] = p
  BY ClickTyped
<1>3. ClickSound(r)'
  BY <1>1, <1>2, ClickTyped DEF ClickSound, Archive, Reloading, shopVars, Unmixed
<1> QED
  BY <1>1, <1>2, <1>3, ClickTyped, Marked

\* A run ends and leaves so many tries.
LEMMA RunEnds ==
  ASSUME Inductive, NEW r \in Clicks, OnlyRun, Shopless, UNCHANGED build, RowMarked,
         NEW n \in 0 .. Attempts, n < click[r].tries \/ n = 0,
         click' = [click EXCEPT ![r].tries = n], run' = [run EXCEPT ![r] = NoRun],
         stranded' \subseteq Backups, faults' \in 0 .. MaxFaults
  PROVE  Inductive'
<1> DEFINE q == [click[r] EXCEPT !.tries = n]
<1>1. UNCHANGED <<cart, stored, build, del, abandoned>> /\ UNCHANGED shopVars
  BY RunFrame
<1>2. /\ q \in ClickStates /\ q.backup = click[r].backup /\ q.phase = click[r].phase /\ q.tries = n
      /\ click' = [click EXCEPT ![r] = q] /\ click'[r] = q /\ run'[r] = NoRun
  BY ClickTyped DEF ClickStates
<1> HIDE DEF q
<1>3. n > 0 => click[r].tries > 0
  BY ClickTyped, RestoreAssumption
<1>4. ClickSound(r)'
  BY <1>1, <1>2, <1>3, ClickTyped, Blanks DEF ClickSound, Archive, Reloading, shopVars, Unmixed
<1>5. NoRun.phase \notin Locking
  BY Blanks DEF Locking
<1> QED
  BY <1>1, <1>2, <1>4, <1>5, Blanks, Marked

\* The job is skipped, finds no archive, or reads it.
LEMMA TakeKeeps ==
  ASSUME Inductive, NEW r \in Clicks, Take(r)
  PROVE  Inductive'
<1> DEFINE b == click[r].backup
<1>1. /\ OnlyRun /\ Shopless /\ UNCHANGED <<build, stranded, faults>>
      /\ click[r].tries > 0 /\ b \in Backups /\ run[r].phase = "idle"
  BY ClickTyped DEF Take, Due, ClickSound
<1>2. CASE /\ row[b].keyed /\ stored[b] # Null
           /\ run' = [run EXCEPT ![r] = [NoRun EXCEPT !.phase = "taken", !.archive = stored[b]]]
           /\ UNCHANGED <<click, row>>
  <2> DEFINE p == [NoRun EXCEPT !.phase = "taken", !.archive = stored[b]]
  <2>1. stored[b] \in Tables
    BY <1>1, <1>2, BackupTyped DEF Tabled
  <2>2. p \in RunStates /\ p.phase = "taken" /\ p.archive = stored[b]
    BY <2>1, Blanks DEF RunStates, NoRun
  <2>3. run' = [run EXCEPT ![r] = p]
    BY <1>2
  <2> HIDE DEF p
  <2>4. (Unmixed => Whole(stored[b])) /\ (raced = {} => stored[b] \in past)
    BY <1>1, <1>2, BackupTyped DEF BackupSound
  <2> QED
    BY <1>1, <1>2, <2>2, <2>3, <2>4, RunGoesOn DEF Locking, Reloading
<1>3. ASSUME NEW n \in 0 .. Attempts, click' = [click EXCEPT ![r].tries = n],
             n < click[r].tries \/ n = 0, UNCHANGED run, RowMarked
      PROVE  Inductive'
  <2> DEFINE q == [click[r] EXCEPT !.tries = n]
  <2>1. UNCHANGED <<cart, stored, build, del, abandoned>> /\ UNCHANGED shopVars
    BY <1>1, RunFrame
  <2>2. /\ q \in ClickStates /\ q.backup = click[r].backup /\ q.phase = click[r].phase /\ q.tries = n
        /\ click' = [click EXCEPT ![r] = q] /\ click'[r] = q
    BY <1>3, ClickTyped DEF ClickStates
  <2> HIDE DEF q
  <2>3. run' = [run EXCEPT ![r] = run[r]] /\ run[r] \in RunStates /\ run[r].phase \notin Locking
    BY <1>1, <1>3, ClickTyped DEF Locking
  <2>4. ClickSound(r)'
    BY <1>1, <1>3, <2>1, <2>2, ClickTyped DEF ClickSound, Archive, Reloading, shopVars, Unmixed
  <2> QED
    BY <1>1, <1>3, <2>1, <2>2, <2>3, <2>4, ClickTyped, Marked
<1>4. CASE ~row[b].keyed /\ Done(r) /\ UNCHANGED <<run, row>>
  <2>1. 0 \in 0 .. Attempts
    BY RestoreAssumption
  <2> QED
    BY <1>3, <1>4, <2>1 DEF Done, RowMarked
<1>5. CASE /\ row[b].keyed /\ stored[b] = Null /\ Writes(b, "ready")
           /\ click' = [click EXCEPT ![r].tries = @ - 1] /\ UNCHANGED run
  <2>1. click[r].tries - 1 \in 0 .. Attempts /\ click[r].tries - 1 < click[r].tries
    BY <1>1, ClickTyped, RestoreAssumption
  <2>2. RowMarked
    BY <1>1, <1>5, BackupTyped DEF Writes, RowMarked, BackupSound
  <2>3. click' = [click EXCEPT ![r].tries = click[r].tries - 1]
    BY <1>5
  <2> QED
    BY <1>3, <1>5, <2>1, <2>2, <2>3
<1> QED
  BY <1>2, <1>4, <1>5 DEF Take

\* drainTenantJobs: every build and every restore that waits.
LEMMA DrainKeeps ==
  ASSUME Inductive, NEW r \in Clicks, Drain(r)
  PROVE  Inductive'
<1> DEFINE p == [run[r] EXCEPT !.phase = "drained"]
<1>1. TypeOK /\ ShopSound /\ OneRestores /\ Backed /\ Clicked
  BY Parts
<1>2. UNCHANGED <<cart, stored, row, del, abandoned, faults>> /\ UNCHANGED shopVars
  BY DEF Drain, OnlyRun, Shopless, shopVars
<1>3. /\ p \in RunStates /\ p.phase = "drained" /\ p.archive = run[r].archive
      /\ run' = [run EXCEPT ![r] = p] /\ run'[r] = p
      /\ run[r].phase = "taken" /\ \A q \in Clicks : run[q].phase \in {"idle", "taken"}
  BY ClickTyped DEF RunStates, Drain
<1> HIDE DEF p
<1>4. run' \in [Clicks -> RunStates] /\ \A q \in Clicks \ {r} : run'[q] = run[q]
  BY <1>3, ClickTyped
<1>5. /\ build' \in [Backups -> BuildStates]
      /\ \A b \in Backups : build'[b] = IF build[b].phase = "idle" THEN Idle ELSE build[b]
  <2>1. build' = [b \in Backups |-> IF build[b].phase = "idle" THEN Idle ELSE build[b]]
    BY DEF Drain
  <2>2. build \in [Backups -> BuildStates]
    BY <1>1 DEF TypeOK
  <2> QED
    BY <2>1, <2>2, Blanks
<1>6. \A q \in Clicks :
        /\ click'[q] \in ClickStates
        /\ click'[q].phase = click[q].phase /\ click'[q].backup = click[q].backup
        /\ IF Waiting(q) THEN click'[q].tries = 0 ELSE click'[q] = click[q]
  <2> TAKE q \in Clicks
  <2>1. click'[q] = IF Waiting(q) THEN [click[q] EXCEPT !.tries = 0] ELSE click[q]
    BY DEF Drain
  <2>2. click[q] \in ClickStates /\ 0 \in 0 .. Attempts
    BY ClickTyped, RestoreAssumption
  <2> QED
    BY <2>1, <2>2 DEF ClickStates
<1>7. click' \in [Clicks -> ClickStates]
  BY <1>6 DEF Drain
<1>8. stranded' \subseteq Backups
  <2>1. \A q \in Clicks : Waiting(q) => click[q].backup \in Backups
    BY ClickTyped DEF Waiting, ClickSound
  <2> QED
    BY <1>1, <2>1 DEF Drain, Drained, TypeOK
<1>9. TypeOK'
  BY <1>1, <1>2, <1>4, <1>5, <1>7, <1>8 DEF TypeOK, shopVars
<1>10. ASSUME NEW b \in Backups PROVE BackupSound(b)'
  <2>1. BackupSound(b) /\ build[b] = Idle => build'[b] = Idle
    BY <1>1, <1>5, Blanks DEF Backed
  <2>2. CASE build[b].phase = "idle"
    <3>1. build'[b] = Idle /\ build'[b].phase = "idle"
      BY <1>5, <2>2, Blanks
    <3>2. BackupSound(b)
      BY <1>1 DEF Backed
    <3> QED
      BY <1>2, <2>1, <3>1, <3>2 DEF BackupSound, Dumping, shopVars, Unmixed
  <2>3. CASE build[b].phase # "idle"
    <3>1. BackupSound(b) /\ build'[b] = build[b]
      BY <1>1, <1>5, <2>3 DEF Backed
    <3> QED
      BY <1>2, <3>1, OtherBackup
  <2> QED
    BY <2>2, <2>3
<1>11. ASSUME NEW q \in Clicks PROVE ClickSound(q)'
  <2>1. ClickSound(q) /\ click[q].tries \in Nat
    <3>1. click[q].tries \in 0 .. Attempts
      BY ClickTyped
    <3> QED
      BY <3>1, ClickTyped, RestoreAssumption
  <2>2. CASE q = r
    <3>1. ~Waiting(q) /\ click'[q] = click[q]
      BY <1>3, <1>6, <2>2 DEF Waiting
    <3> QED
      BY <1>2, <1>3, <2>1, <2>2, <3>1 DEF ClickSound, Archive, Reloading, shopVars, Unmixed
  <2>3. CASE q # r
    <3>1. run'[q] = run[q] /\ run[q].phase \in {"idle", "taken"}
      BY <1>3, <1>4, <2>3
    <3>2. CASE Waiting(q)
      <4>1. run[q].phase = "idle" /\ click'[q].tries = 0
        BY <1>6, <3>2 DEF Waiting
      <4> QED
        BY <1>2, <1>6, <2>1, <3>1, <4>1 DEF ClickSound, Reloading, shopVars, Unmixed
    <3>3. CASE ~Waiting(q)
      BY <1>2, <1>6, <2>1, <3>1, <3>3, OtherClick
    <3> QED
      BY <3>2, <3>3
  <2> QED
    BY <2>2, <2>3
<1>12. ShopSound'
  BY <1>1, <1>2 DEF ShopSound, shopVars, Unmixed
<1>13. OneRestores'
  BY <1>3, <1>4 DEF OneRestores, Locking
<1> QED
  BY <1>9, <1>10, <1>11, <1>12, <1>13 DEF Inductive

\* The orders and their items are deleted.
LEMMA EmptiesKeeps ==
  ASSUME Inductive, NEW r \in Clicks, Empties(r)
  PROVE  Inductive'
<1> DEFINE p == [run[r] EXCEPT !.phase = "emptied", !.gone = shop.orders]
<1>1. shop \in Tables /\ shop.orders \in SUBSET Carts
  BY DEF Inductive, TypeOK, Tables
<1>2. /\ p \in RunStates /\ p.phase = "emptied" /\ p.gone = shop.orders /\ p.archive = Archive(r)
      /\ run' = [run EXCEPT ![r] = p]
  BY <1>1, ClickTyped DEF RunStates, Empties, Archive
<1> HIDE DEF p
<1>3. run[r].phase = "drained" /\ click[r].tries > 0
  BY ClickTyped DEF Empties, ClickSound
<1>4. (Unmixed => Whole(p.archive)) /\ (raced = {} => p.archive \in past)
  BY <1>2, <1>3, ClickTyped DEF ClickSound
<1>5. raced = {} => shop.orders \union shop.items \subseteq p.gone
  BY <1>2, ClickTyped DEF ShopSound, Unmixed
<1>6. \A x \in Clicks : run[x].phase \in Locking => x = r
  BY <1>3 DEF Inductive, OneRestores, Locking
<1> QED
  BY <1>2, <1>3, <1>4, <1>5, <1>6, RunGoesOn DEF Empties

\* Then the counter.
LEMMA UncountsKeeps ==
  ASSUME Inductive, NEW r \in Clicks, Uncounts(r)
  PROVE  Inductive'
<1> DEFINE u == shop.counter > 0
           p == [run[r] EXCEPT !.phase = "uncounted", !.uncounted = u]
<1>1. shop.counter \in Nat /\ u \in BOOLEAN /\ (~u => shop.counter = 0)
  BY DEF Inductive, TypeOK, Tables
<1>0. run' = [run EXCEPT ![r] = p]
  BY DEF Uncounts
<1> HIDE DEF u
<1>2. /\ p \in RunStates /\ p.phase = "uncounted" /\ p.gone = run[r].gone /\ p.archive = Archive(r)
      /\ p.uncounted = u /\ run' = [run EXCEPT ![r] = p]
  BY <1>0, <1>1, ClickTyped DEF RunStates, Archive
<1> HIDE DEF p
<1>3. run[r].phase = "emptied" /\ click[r].tries > 0
  BY ClickTyped DEF Uncounts, ClickSound
<1>4. (Unmixed => Whole(p.archive)) /\ (raced = {} => p.archive \in past)
  BY <1>2, <1>3, ClickTyped DEF ClickSound
<1>5. raced = {} => shop.orders \union shop.items \subseteq p.gone
  BY <1>2, <1>3, ClickTyped DEF ClickSound, Reloading
<1>6. ~p.uncounted => shop.counter = 0
  BY <1>1, <1>2, Zenon
<1>7. \A x \in Clicks : run[x].phase \in Locking => x = r
  BY <1>3 DEF Inductive, OneRestores, Locking
<1> QED
  BY <1>2, <1>3, <1>4, <1>5, <1>6, <1>7, RunGoesOn DEF Uncounts

\* The status is put back.
LEMMA FinishKeeps ==
  ASSUME Inductive, NEW r \in Clicks, Finish(r)
  PROVE  Inductive'
<1>1. /\ OnlyRun /\ Shopless /\ UNCHANGED <<build, stranded, faults>>
      /\ click' = [click EXCEPT ![r].tries = 0] /\ run' = [run EXCEPT ![r] = NoRun]
  BY DEF Finish, Ends, Done
<1>2. click[r].backup \in Backups /\ 0 \in 0 .. Attempts
  BY ClickTyped, RestoreAssumption DEF ClickSound, Finish
<1>3. RowMarked
  BY <1>2 DEF Finish, RowMarked
<1> QED
  BY <1>1, <1>2, <1>3, ClickTyped, RunEnds

\* A run that fails or dies leaves one try less.
LEMMA RunFailsKeeps ==
  ASSUME Inductive, NEW r \in Clicks, RunFails(r) \/ RunCrash(r)
  PROVE  Inductive'
<1>1. /\ OnlyRun /\ Shopless /\ UNCHANGED build /\ run[r].phase # "idle"
      /\ run' = [run EXCEPT ![r] = NoRun]
      /\ click' = [click EXCEPT ![r].tries = click[r].tries - 1]
  BY DEF RunFails, RunCrash, Ends
<1>2. click[r].tries > 0 /\ click[r].backup \in Backups
  BY <1>1, ClickTyped DEF ClickSound
<1>3. click[r].tries - 1 \in 0 .. Attempts /\ click[r].tries - 1 < click[r].tries
  BY <1>2, ClickTyped, RestoreAssumption
<1>4. RowMarked
  BY <1>2 DEF RunFails, RunCrash, Reported, RowMarked
<1>5. stranded' \subseteq Backups
  BY <1>2, ClickTyped DEF RunFails, RunCrash
<1>6. faults' \in 0 .. MaxFaults
  BY FaultTyped DEF RunFails, RunCrash
<1> QED
  BY <1>1, <1>3, <1>4, <1>5, <1>6, RunEnds

\* The reloaded counter is the archive's, unless a commit fell in.
LEMMA ReloadRestores ==
  ASSUME Inductive, NEW r \in Clicks, run[r].phase = "uncounted", raced = {}
  PROVE  /\ Surviving(r) = {} /\ shop.items \ run[r].gone = {}
         /\ Counted(r) = Archive(r).counter
<1>1. shop.orders \union shop.items \subseteq run[r].gone /\ (~run[r].uncounted => shop.counter = 0)
  BY ClickTyped DEF ClickSound, Reloading
<1>2. Archive(r).counter \in Nat /\ run[r].uncounted \in BOOLEAN
  BY ClickTyped DEF Tables, RunStates
<1>3. CASE Archive(r).counter > 0
  BY <1>1, <1>3 DEF Counted, Surviving
<1>4. CASE ~(Archive(r).counter > 0)
  <2>1. Archive(r).counter = 0
    BY <1>2, <1>4
  <2>2. CASE run[r].uncounted
    BY <1>1, <1>4, <2>1, <2>2 DEF Counted, Surviving
  <2>3. CASE ~run[r].uncounted
    BY <1>1, <1>4, <2>1, <2>3 DEF Counted, Surviving
  <2> QED
    BY <2>2, <2>3
<1> QED
  BY <1>3, <1>4

\* The commit of a restore: the shop changes, and what is under way is overtaken.
LEMMA ReloadKeeps ==
  ASSUME Inductive, NEW r \in Clicks, Reload(r)
  PROVE  Inductive' /\ (shop' \in past \/ raced' # {})
<1> DEFINE a == Archive(r)
           p == [run[r] EXCEPT !.phase = "restored"]
           t == [counter |-> Counted(r), orders |-> a.orders \union Surviving(r),
                 items |-> a.items \union (shop.items \ run[r].gone)]
<1>1. TypeOK /\ ShopSound /\ OneRestores /\ Backed /\ Clicked
  BY Parts
<1>2. UNCHANGED <<cart, stored, row, build, click, del, abandoned, stranded, faults>>
  BY DEF Reload, OnlyRun
<1>3. /\ shop' = t /\ past' = past \union {t}
      /\ raced' = IF Dumped THEN raced \union {"restore"} ELSE raced
  BY DEF Reload, Settle
<1>4. a \in Tables /\ shop \in Tables
  BY <1>1, ClickTyped DEF TypeOK
<1>5. t \in Tables
  <2>1. Counted(r) \in Nat
    BY <1>4 DEF Counted, Tables
  <2> QED
    BY <1>4, <2>1 DEF Surviving, Tables
<1>6. /\ p \in RunStates /\ p.phase = "restored" /\ p.archive = a
      /\ run' = [run EXCEPT ![r] = p] /\ run'[r] = p /\ run[r].phase = "uncounted"
      /\ \A q \in Clicks \ {r} : run'[q] = run[q]
  BY ClickTyped DEF RunStates, Reload, Archive
<1>7. t.orders = a.orders \union Surviving(r) /\ t.items = a.items \union (shop.items \ run[r].gone)
  OBVIOUS
<1>8. raced = {} => t = a
  <2> HAVE raced = {}
  <2>1. t = [counter |-> a.counter, orders |-> a.orders, items |-> a.items]
    BY <1>6, ReloadRestores
  <2> QED
    BY <1>4, <2>1 DEF Tables
<1> HIDE DEF p, t
<1>9. TypeOK'
  BY <1>1, <1>2, <1>3, <1>5, <1>6 DEF TypeOK
<1>10. Unmixed' => Unmixed /\ ~Dumped
  BY <1>3 DEF Unmixed
<1>11. raced' = {} => raced = {} /\ ~Dumped
  BY <1>3
<1>12. a.items \subseteq a.orders \union Surviving(r)
  BY DEF Reload, Refused
<1>13. ShopSound'
  <2>1. Unmixed => Whole(a) /\ shop.items = shop.orders
    BY <1>1, <1>6, ClickTyped DEF ClickSound, ShopSound
  <2>2. Unmixed => t.items = t.orders
    BY <1>7, <1>12, <2>1 DEF Whole, Surviving
  <2> QED
    BY <1>3, <1>10, <2>2 DEF ShopSound
<1>14. ASSUME NEW b \in Backups PROVE BackupSound(b)'
  <2>1. BackupSound(b)
    BY <1>1 DEF Backed
  <2>2. ~Dumped => build[b].phase \notin {"counter", "orders"}
    BY DEF Dumped, Dumping
  <2> QED
    BY <1>2, <1>3, <1>10, <1>11, <2>1, <2>2 DEF BackupSound, Dumping
<1>15. ASSUME NEW q \in Clicks PROVE ClickSound(q)'
  <2>1. ClickSound(q)
    BY <1>1 DEF Clicked
  <2>2. CASE q = r
    BY <1>2, <1>3, <1>6, <1>10, <1>11, <2>1, <2>2 DEF ClickSound, Archive, Reloading
  <2>3. CASE q # r
    <3>1. run'[q] = run[q] /\ run[q].phase \notin Reloading /\ run[q].phase # "uncounted"
      BY <1>1, <1>6, <2>3 DEF OneRestores, Locking, Reloading
    <3> QED
      BY <1>2, <1>3, <1>10, <1>11, <2>1, <3>1 DEF ClickSound, Archive, Reloading
  <2> QED
    BY <2>2, <2>3
<1>16. OneRestores'
  BY <1>1, <1>6 DEF OneRestores, Locking
<1>17. shop' \in past \/ raced' # {}
  <2>1. raced = {} => a \in past
    BY <1>6, ClickTyped DEF ClickSound
  <2> QED
    BY <1>3, <1>8, <1>11, <2>1
<1> QED
  BY <1>9, <1>13, <1>14, <1>15, <1>16, <1>17 DEF Inductive

--------------------------------------------------------------------------------
(* The checkout *)

\* A checkout commits.
LEMMA PlaceKeeps ==
  ASSUME Inductive, NEW c \in Carts, Place(c)
  PROVE  Inductive'
<1> DEFINE t == [counter |-> cart[c].number, orders |-> shop.orders \union {c},
                 items |-> shop.items \union {c}]
<1>1. TypeOK /\ ShopSound /\ OneRestores /\ Backed /\ Clicked
  BY Parts
<1>2. UNCHANGED <<row, stored, build, click, run, del, abandoned, stranded, faults>>
  BY DEF Place, OnlyCart
<1>3. /\ shop' = t /\ past' = past \union {t}
      /\ raced' = IF Overlapped THEN raced \union {"checkout"} ELSE raced
  BY DEF Place, Settle
<1>4. t \in Tables /\ t.orders = shop.orders \union {c} /\ t.items = shop.items \union {c}
  BY <1>1 DEF TypeOK, Tables
<1>5. cart' \in [Carts -> [phase : {"idle", "numbered", "placed", "failed"}, number : Nat]]
  BY <1>1 DEF TypeOK, Place
<1> HIDE DEF t
<1>6. TypeOK'
  BY <1>1, <1>2, <1>3, <1>4, <1>5 DEF TypeOK
<1>7. Unmixed' => Unmixed
  BY <1>3 DEF Unmixed
<1>8. raced' = {} => raced = {} /\ ~Overlapped
  BY <1>3
<1>9. ShopSound'
  BY <1>1, <1>3, <1>4, <1>7 DEF ShopSound
<1>10. ASSUME NEW b \in Backups PROVE BackupSound(b)'
  <2>1. BackupSound(b)
    BY <1>1 DEF Backed
  <2>2. ~Overlapped => build[b].phase \notin {"counter", "orders"}
    BY DEF Overlapped, Dumped, Dumping
  <2> QED
    BY <1>2, <1>3, <1>4, <1>7, <1>8, <2>1, <2>2 DEF BackupSound, Dumping
<1>11. ASSUME NEW q \in Clicks PROVE ClickSound(q)'
  <2>1. ClickSound(q)
    BY <1>1 DEF Clicked
  <2>2. ~Overlapped => run[q].phase \notin {"emptied", "uncounted"}
    BY DEF Overlapped, Reloading
  <2> QED
    BY <1>2, <1>3, <1>7, <1>8, <2>1, <2>2 DEF ClickSound, Archive, Reloading
<1>12. OneRestores'
  BY <1>1, <1>2 DEF OneRestores
<1> QED
  BY <1>6, <1>9, <1>10, <1>11, <1>12 DEF Inductive

\* A checkout that takes a number, or fails.
LEMMA NumberKeeps ==
  ASSUME Inductive, NEW c \in Carts, Number(c) \/ PlaceFails(c)
  PROVE  Inductive'
<1>1. TypeOK /\ ShopSound /\ OneRestores /\ Backed /\ Clicked
  BY Parts
<1>2. UNCHANGED <<row, stored, build, click, run, del, abandoned, stranded, faults>> /\ UNCHANGED shopVars
  BY DEF Number, PlaceFails, OnlyCart, Shopless, shopVars
<1>3. cart' \in [Carts -> [phase : {"idle", "numbered", "placed", "failed"}, number : Nat]]
  <2>1. shop.counter + 1 \in Nat
    BY <1>1 DEF TypeOK, Tables
  <2>2. CASE Number(c)
    BY <1>1, <2>1, <2>2 DEF TypeOK, Number
  <2>3. CASE PlaceFails(c)
    BY <1>1, <2>3 DEF TypeOK, PlaceFails
  <2> QED
    BY <2>2, <2>3
<1>4. TypeOK'
  BY <1>1, <1>2, <1>3 DEF TypeOK, shopVars
<1>5. (\A b \in Backups : BackupSound(b)') /\ (\A q \in Clicks : ClickSound(q)')
  BY <1>1, <1>2, OtherBackup, OtherClick DEF Backed, Clicked
<1>6. ShopSound' /\ OneRestores'
  BY <1>1, <1>2 DEF ShopSound, OneRestores, shopVars, Unmixed
<1> QED
  BY <1>4, <1>5, <1>6 DEF Inductive

--------------------------------------------------------------------------------
(* The deletion *)

\* deleteTenantBackup: the object, then the row, or a death in between.
LEMMA DeleteKeeps ==
  ASSUME Inductive, NEW b \in Backups, Delete(b)
  PROVE  Inductive'
<1>1. TypeOK /\ ShopSound /\ OneRestores /\ Backed /\ Clicked
  BY Parts
<1>2. UNCHANGED <<cart, build, click, run, stranded>> /\ UNCHANGED shopVars
  BY DEF Delete, DeleteObject, DeleteRow, DeleteCrash, OnlyDelete, Shopless, shopVars
<1>3. PICK s \in RowStates, a \in Tabled, d \in {"removed", "halfway", "deleted"} :
        /\ row' = [row EXCEPT ![b] = s] /\ stored' = [stored EXCEPT ![b] = a] /\ del' = [del EXCEPT ![b] = d]
        /\ a = stored[b] \/ a = Null
        /\ s = row[b] \/ ~s.keyed
  <2>1. CASE DeleteObject(b)
    <3>1. /\ row' = [row EXCEPT ![b] = row[b]] /\ del' = [del EXCEPT ![b] = "removed"]
          /\ stored' = [stored EXCEPT ![b] = stored[b]] \/ stored' = [stored EXCEPT ![b] = Null]
      BY <2>1, BackupTyped DEF DeleteObject, Removed, OnlyDelete
    <3> QED
      BY <3>1, BackupTyped DEF Tabled
  <2>2. CASE DeleteRow(b)
    BY <2>2, BackupTyped, Blanks DEF DeleteRow
  <2>3. CASE DeleteCrash(b)
    BY <2>3, BackupTyped DEF DeleteCrash
  <2> QED
    BY <2>1, <2>2, <2>3 DEF Delete
<1>4. /\ abandoned' \subseteq Backups /\ abandoned \subseteq abandoned'
      /\ faults' \in 0 .. MaxFaults
  <2>1. faults' \in 0 .. MaxFaults
    BY FaultTyped, BackupTyped DEF Delete, DeleteObject, DeleteRow, DeleteCrash
  <2> QED
    BY <1>1, <2>1 DEF TypeOK, Delete, DeleteObject, DeleteRow, DeleteCrash
<1>5. TypeOK'
  BY <1>1, <1>2, <1>3, <1>4 DEF TypeOK, shopVars, Tabled
<1>6. row'[b] = s /\ stored'[b] = a /\ del'[b] = d
  BY <1>1, <1>3 DEF TypeOK
<1>7. \A x \in Backups : x # b => row'[x] = row[x] /\ stored'[x] = stored[x] /\ del'[x] = del[x]
  BY <1>1, <1>3 DEF TypeOK
<1>8. \A x \in Backups : x # b => BackupSound(x)'
  BY <1>1, <1>2, <1>4, <1>7, OtherBackup DEF Backed
<1>9. b \notin abandoned' => build[b] = Idle /\ stored'[b] = Null
  <2>1. BackupSound(b)
    BY <1>1 DEF Backed
  <2>2. CASE DeleteObject(b)
    BY <1>1, <2>2 DEF DeleteObject, Removed, TypeOK
  <2>3. CASE DeleteRow(b) \/ DeleteCrash(b)
    BY <2>1, <2>3 DEF DeleteRow, DeleteCrash, BackupSound, OnlyDelete
  <2> QED
    BY <2>2, <2>3 DEF Delete
<1>10. BackupSound(b)'
  <2>1. BackupSound(b)
    BY <1>1 DEF Backed
  <2> QED
    BY <1>2, <1>3, <1>6, <1>9, <2>1 DEF BackupSound, Dumping, shopVars, Unmixed
<1>11. \A q \in Clicks : ClickSound(q)'
  BY <1>1, <1>2, OtherClick DEF Clicked
<1>12. ShopSound' /\ OneRestores'
  BY <1>1, <1>2 DEF ShopSound, OneRestores, shopVars, Unmixed
<1> QED
  BY <1>5, <1>8, <1>10, <1>11, <1>12 DEF Inductive

--------------------------------------------------------------------------------
(* The theorems *)

\* It holds at the start ...
LEMMA InitHolds == Init => Inductive
<1> SUFFICES ASSUME Init PROVE Inductive
  OBVIOUS
<1>1. 0 \in 0 .. Attempts /\ 0 \in 0 .. MaxFaults
  BY RestoreAssumption
<1>2. [phase |-> "idle", backup |-> Null, tries |-> 0] \in ClickStates
  BY <1>1 DEF ClickStates
<1>3. TypeOK
  BY <1>1, <1>2, Blanks DEF Init, TypeOK
<1>4. \A b \in Backups : BackupSound(b)
  BY Blanks DEF Init, BackupSound, Dumping
<1>5. \A r \in Clicks : ClickSound(r)
  BY Blanks DEF Init, ClickSound, Reloading
<1>6. ShopSound /\ OneRestores
  BY Blanks DEF Init, ShopSound, OneRestores, Locking, Empty
<1> QED
  BY <1>3, <1>4, <1>5, <1>6 DEF Inductive

\* ... and every step keeps it.
LEMMA NextKeeps ==
  ASSUME Inductive, [Next]_vars
  PROVE  Inductive'
<1>1. ASSUME NEW c \in Carts, Checkout(c) PROVE Inductive'
  BY <1>1, NumberKeeps, PlaceKeeps DEF Checkout
<1>2. ASSUME NEW b \in Backups, Create(b) \/ Build(b) \/ Delete(b) PROVE Inductive'
  BY <1>2, CreateKeeps, DispatchKeeps, RefuseBuildKeeps, BeginKeeps, DumpKeeps, PutKeeps, StampKeeps,
     BuildFailsKeeps, DeleteKeeps DEF Build
<1>3. ASSUME NEW r \in Clicks, NEW b \in Backups, Ask(r, b) PROVE Inductive'
  BY <1>3, AskKeeps
<1>4. ASSUME NEW r \in Clicks, Request(r) \/ Run(r) PROVE Inductive'
  BY <1>4, MarkKeeps, SendKeeps, RefuseRestoreKeeps, TakeKeeps, DrainKeeps, EmptiesKeeps, UncountsKeeps,
     ReloadKeeps, FinishKeeps, RunFailsKeeps DEF Request, Run
<1>5. CASE UNCHANGED vars
  <2>1. UNCHANGED <<cart, row, stored, build, click, run, del, abandoned, stranded, faults>> /\ UNCHANGED shopVars
    BY <1>5 DEF vars, shopVars
  <2>2. TypeOK'
    BY <2>1 DEF Inductive, TypeOK, shopVars
  <2>3. (\A b \in Backups : BackupSound(b)') /\ (\A q \in Clicks : ClickSound(q)')
    BY <2>1, OtherBackup, OtherClick DEF Inductive
  <2>4. ShopSound' /\ OneRestores'
    BY <2>1 DEF Inductive, ShopSound, OneRestores, shopVars, Unmixed
  <2> QED
    BY <2>2, <2>3, <2>4 DEF Inductive
<1> QED
  BY <1>1, <1>2, <1>3, <1>4, <1>5 DEF Next

\* What every step keeps, for any number of checkouts, backups and restores.
THEOREM InductiveHolds == Spec => []Inductive
<1>1. Init => Inductive
  BY InitHolds
<1>2. Inductive /\ [Next]_vars => Inductive'
  BY NextKeeps
<1> QED
  BY <1>1, <1>2, PTL DEF Spec

\* A restored shop has whole orders.
THEOREM OrdersWholeHolds == Spec => []OrdersWhole
<1>1. Inductive => OrdersWhole
  BY DEF Inductive, ShopSound, Unmixed, OrdersWhole
<1> QED
  BY <1>1, InductiveHolds, PTL

\* An archive in storage has its row, or was abandoned.
THEOREM ArchivesOwnedHolds == Spec => []ArchivesOwned
<1>1. Inductive => ArchivesOwned
  <2> SUFFICES ASSUME Inductive, NEW b \in Backups, stored[b] # Null, row[b].status = "none"
               PROVE  b \in abandoned
    BY DEF ArchivesOwned
  <2> QED
    BY BackupTyped DEF BackupSound
<1> QED
  BY <1>1, InductiveHolds, PTL

\* A backup that is offered can be fetched.
THEOREM ReadyIsStoredHolds == Spec => []ReadyIsStored
<1>1. Inductive => ReadyIsStored
  <2> SUFFICES ASSUME Inductive, NEW b \in Backups, row[b].keyed, del[b] = "idle"
               PROVE  stored[b] # Null
    BY DEF ReadyIsStored
  <2> QED
    BY BackupTyped DEF BackupSound
<1> QED
  BY <1>1, InductiveHolds, PTL

\* Only Reload takes a run from uncounted to restored.
LEMMA OnlyReloadRestores ==
  ASSUME Inductive, [Next]_vars, NEW r \in Clicks,
         run[r].phase = "uncounted", run'[r].phase = "restored"
  PROVE  Reload(r)
<1>1. run' # run
  OBVIOUS
<1>2. PICK q \in Clicks : Run(q)
  BY <1>1 DEF Next, vars, Checkout, Number, Place, PlaceFails, OnlyCart,
     Create, Build, Dispatch, RefuseBuild, Begin, Dump, Put, Stamp, BuildFails, BuildCrash, OnlyBuild,
     Delete, DeleteObject, DeleteRow, DeleteCrash, OnlyDelete,
     Ask, Request, Mark, Send, RefuseRestore, OnlyClick
<1>3. q = r
  <2>1. \E p : run' = [run EXCEPT ![q] = p]
    BY <1>1, <1>2, ClickTyped DEF Run, Take, Drain, Empties, Uncounts, Reload, Finish, RunFails, RunCrash, Ends
  <2> QED
    BY <2>1, ClickTyped
<1>4. run \in [Clicks -> RunStates]
  BY ClickTyped
<1> QED
  BY <1>2, <1>3, <1>4, Blanks
     DEF Run, Take, Drain, Empties, Uncounts, Finish, RunFails, RunCrash, Ends, RunStates

\* A restore puts the shop back the way it was.
THEOREM PutBackHolds == Spec => PutBack
<1>1. Inductive /\ [Next]_vars
        => [\A r \in Clicks : run[r].phase = "uncounted" /\ run'[r].phase = "restored"
              => shop' \in past \/ raced' # {}]_vars
  BY OnlyReloadRestores, ReloadKeeps
<1> QED
  BY <1>1, InductiveHolds, PTL DEF Spec, PutBack

================================================================================
