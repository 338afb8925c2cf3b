------------------------------ MODULE MediaProofs ------------------------------
(***************************************************************************)
(* Proofs about Media, for every set of photos and of runs, all sizes, any *)
(* plan and any number of tries and of faults.  A step but for the sweep's *)
(* concerns one photo, and at most one run of it: the invariant is shown   *)
(* for these two, and frames give the rest.                                *)
(***************************************************************************)
EXTENDS Media, SumsProofs

Photographed == \A p \in Photos : PhotoSound(p)
Running == \A w \in Workers : RunSound(w)

\* The invariant in its parts.
LEMMA Parts == Inductive <=> TypeOK /\ SweepSound /\ QuotaExact /\ PlanKept /\ Photographed /\ Running
BY DEF Inductive, Photographed, Running

\* The three states of a row that the code writes as a whole.
LEMMA Rows ==
  /\ NoRow \in RowStates /\ NoRow.status = "none" /\ NoRow.size = 0
  /\ \A p \in Photos : /\ Uploaded(p) \in RowStates /\ Uploaded(p).status = "pending"
                       /\ Uploaded(p).size = Size[p] /\ Uploaded(p).key = "source"
                       /\ Shown(p) \in RowStates /\ Shown(p).status = "ready"
                       /\ Shown(p).size = Stored[p]
BY MediaAssumption DEF NoRow, Uploaded, Shown, RowStates, Statuses

LEMMA Sizes ==
  /\ \A p \in Photos : Size[p] \in Nat \ {0} /\ Stored[p] \in Nat \ {0}
  /\ Limit \in Nat /\ Attempts \in Nat \ {0} /\ MaxFaults \in Nat /\ IsFiniteSet(Photos)
BY MediaAssumption

LEMMA Clamped == \A n, d \in Nat : Less(n, d) \in Nat /\ (n >= d => Less(n, d) = n - d)
BY DEF Less

\* The objects of a photo.
LEMMA Keyed ==
  \A p \in Photos : /\ KeysOf(p) = {<<p, "source">>, <<p, "small">>, <<p, "full">>}
                    /\ VariantsOf(p) \subseteq KeysOf(p) /\ KeysOf(p) \subseteq Photos \X Kinds
                    /\ \A o \in Photos \X Kinds : o[1] = p <=> o \in KeysOf(p)
BY DEF KeysOf, VariantsOf, Kinds

--------------------------------------------------------------------------------
(* The counter *)

Weights == [p \in Photos |-> row[p].size]
Upholds == [p \in Photos |-> Upheld(p)]

\* While the counter is right it is at least what any photo weighs, and what
\* is upheld of the plan is at most the counter.
LEMMA Counted ==
  ASSUME TypeOK, QuotaExact
  PROVE  /\ Weights \in [Photos -> Nat] /\ Upholds \in [Photos -> Nat]
         /\ SumOver(Upholds) \in Nat /\ SumOver(Weights) \in Nat
         /\ SumOver(Upholds) <= SumOver(Weights)
         /\ skewed = {} => used = SumOver(Weights) /\ \A p \in Photos : row[p].size <= used
<1>1. \A p \in Photos : row[p].size \in Nat
  BY DEF TypeOK, RowStates
<1>2. \A p \in Photos : Upheld(p) \in Nat /\ Upheld(p) <= row[p].size
  BY <1>1, Sizes DEF Upheld
<1>3. /\ Weights \in [Photos -> Nat] /\ Weights \in [Photos -> Int]
      /\ Upholds \in [Photos -> Nat] /\ Upholds \in [Photos -> Int]
      /\ \A p \in Photos : Upholds[p] <= Weights[p]
  BY <1>1, <1>2 DEF Weights, Upholds
<1>4. SumOver(Upholds) \in Nat
  BY <1>3, Sizes, SumNat, Zenon
<1>5. SumOver(Weights) \in Nat /\ \A p \in Photos : Weights[p] <= SumOver(Weights)
  BY <1>3, Sizes, SumNat, Zenon
<1>6. SumOver(Upholds) <= SumOver(Weights)
  BY <1>3, Sizes, SumLe, Zenon
<1>7. \A p \in Photos : Weights[p] = row[p].size
  BY DEF Weights
<1>8. skewed = {} => used = SumOver(Weights)
  BY Zenon DEF QuotaExact, Total, Weights
<1> QED
  BY <1>3, <1>4, <1>5, <1>6, <1>7, <1>8

LEMMA EntryChanges ==
  \A p \in Photos, f, h \in [Photos -> Int] :
    (\A x \in Photos \ {p} : h[x] = f[x]) => SumOver(h) = SumOver(f) - f[p] + h[p]
<1> SUFFICES ASSUME NEW p \in Photos, NEW f \in [Photos -> Int], NEW h \in [Photos -> Int],
                    \A x \in Photos \ {p} : h[x] = f[x]
             PROVE  SumOver(h) = SumOver(f) - f[p] + h[p]
  BY Zenon
<1>1. IsFiniteSet(Photos)
  BY Sizes
<1> QED
  BY <1>1, SumChange, Zenon

\* A change of one row, with the counter.
LEMMA RowCounted ==
  ASSUME TypeOK, QuotaExact, PlanKept, TypeOK', NEW p \in Photos,
         \A x \in Photos \ {p} : row'[x] = row[x],
         released' = released, skewed \subseteq skewed',
         skewed' = {} => /\ used' = used - row[p].size + row'[p].size
                         /\ Upheld(p)' <= Upheld(p) \/ used' <= Limit
  PROVE  QuotaExact' /\ PlanKept'
<1> SUFFICES ASSUME skewed' = {}
             PROVE  used' = Total' /\ SumOver(Upholds)' <= Limit
  BY Zenon DEF QuotaExact, PlanKept, Upholds
<1>1. skewed = {}
  OBVIOUS
<1>2. /\ Weights \in [Photos -> Nat] /\ Upholds \in [Photos -> Nat]
      /\ SumOver(Upholds) \in Nat /\ used = SumOver(Weights)
  BY <1>1, Counted
<1>3. \A x \in Photos : row'[x].size \in Nat /\ row[x].size \in Nat
  BY DEF TypeOK, RowStates
<1>4. \A x \in Photos : Upheld(x)' \in Nat /\ Upheld(x)' <= row'[x].size
  BY <1>3, Sizes DEF Upheld
<1>5. \A x \in Photos \ {p} : Upheld(x)' = Upheld(x)
  BY DEF Upheld
<1>6. /\ Weights \in [Photos -> Int] /\ Weights' \in [Photos -> Int]
      /\ \A x \in Photos : Weights'[x] = row'[x].size /\ Weights[x] = row[x].size
      /\ \A x \in Photos \ {p} : Weights'[x] = Weights[x]
  BY <1>3 DEF Weights
<1>7. /\ Upholds \in [Photos -> Int] /\ Upholds' \in [Photos -> Int]
      /\ Upholds'[p] = Upheld(p)' /\ Upholds[p] = Upheld(p)
      /\ \A x \in Photos \ {p} : Upholds'[x] = Upholds[x]
      /\ \A x \in Photos : Upholds'[x] <= Weights'[x]
  BY <1>2, <1>4, <1>5, <1>6 DEF Upholds
<1>8. \A f, h \in [Photos -> Int] :
        (\A x \in Photos \ {p} : h[x] = f[x]) => SumOver(h) = SumOver(f) - f[p] + h[p]
  BY EntryChanges, Zenon
<1>9. SumOver(Weights') = SumOver(Weights) - Weights[p] + Weights'[p]
  BY <1>6, <1>8, Zenon
<1>10. SumOver(Upholds') = SumOver(Upholds) - Upholds[p] + Upholds'[p]
  BY <1>7, <1>8, Zenon
<1>11. SumOver(Upholds') <= SumOver(Weights')
  BY <1>6, <1>7, Sizes, SumLe, Zenon
<1>12. used' = SumOver(Weights')
  BY <1>2, <1>6, <1>9
<1>13. SumOver(Upholds) <= Limit
  BY <1>1, Zenon DEF PlanKept, Upholds
<1>14. SumOver(Upholds') <= Limit
  <2>1. CASE Upheld(p)' <= Upheld(p)
    <3>1. Upholds[p] \in Int /\ Upholds'[p] \in Int /\ Upholds'[p] <= Upholds[p] /\ Limit \in Int
      BY <1>7, <2>1, Sizes
    <3> QED
      BY <1>2, <1>10, <1>13, <3>1
  <2>2. CASE used' <= Limit
    <3>1. SumOver(Upholds') \in Int /\ SumOver(Weights') \in Int
      BY <1>6, <1>7, Sizes, SumInt, Zenon
    <3> QED
      BY <1>11, <1>12, <2>2, <3>1, Sizes
  <2> QED
    BY <2>1, <2>2
<1> QED
  BY <1>12, <1>14, Zenon DEF Total, Weights

--------------------------------------------------------------------------------
(* Frames *)

\* What the sweep judged right of one object.
JudgedSound(o) ==
  /\ up[o[1]] \notin {"idle", "stored"}
  /\ There(o[1]) /\ Sane(o[1]) => row[o[1]].status = "ready" /\ o[2] = "source"

LEMMA SweepParts ==
  SweepSound <=> /\ sweep.phase = "judged" => \A o \in sweep.doomed : JudgedSound(o)
                 /\ sweep.phase = "stuck" => \A p \in Photos : sweep.read[p] \in {NoRow, Uploaded(p)}
BY DEF SweepSound, JudgedSound

\* A run that is under way.
LEMMA RunTyped ==
  ASSUME TypeOK, NEW w \in Workers, work[w].phase # "idle"
  PROVE  /\ work[w] \in RunStates /\ work[w].photo \in Photos /\ On(w, work[w].photo)
         /\ work[w].size \in Nat /\ work[w].key \in {"source", "full"} /\ work[w].phase \in Holding
<1>1. work[w] \in RunStates
  BY DEF TypeOK, Idle
<1> QED
  BY <1>1 DEF RunStates, On

\* A photo that was left alone is as sound as before.
LEMMA OtherPhoto ==
  ASSUME NEW x \in Photos, PhotoSound(x),
         row'[x] = row[x], up'[x] = up[x], jobs'[x] = jobs[x], del'[x] = del[x],
         x \in late' => x \in late, x \in released => x \in released', unreached \subseteq unreached',
         \A k \in Kinds : /\ <<x, k>> \in objects' <=> <<x, k>> \in objects
                          /\ <<x, k>> \in fresh => <<x, k>> \in fresh',
         \A w \in Workers : On(w, x)' => On(w, x) /\ work'[w] = work[w]
  PROVE  PhotoSound(x)'
<1>1. Locked(x)' => Locked(x)
  BY DEF Locked
<1>2. Unrun(x) => Unrun(x)'
  BY DEF Unrun
<1>3. Handed(x)' => Handed(x)
  BY <1>2 DEF Handed
<1>4. /\ Sane(x)' => Sane(x)
      /\ There(x)' <=> There(x)
  BY DEF Sane, There
<1>5. /\ KeysOf(x) \cap objects' = KeysOf(x) \cap objects
      /\ \A k \in Kinds : <<x, k>> \in KeysOf(x)
      /\ KeysOf(x) \cap fresh \subseteq fresh'
      /\ VariantsOf(x) \subseteq KeysOf(x)
  BY DEF KeysOf, VariantsOf, Kinds
<1>6. "source" \in Kinds /\ "full" \in Kinds
  BY DEF Kinds
<1> QED
  BY <1>1, <1>2, <1>3, <1>4, <1>5, <1>6 DEF PhotoSound

\* So is a run whose photo was left alone, but for its original and for objects
\* that came.
LEMMA OtherRun ==
  ASSUME TypeOK, NEW w \in Workers, RunSound(w), work'[w] = work[w],
         NEW x \in Photos, work[w].photo = x,
         row'[x] = row[x], x \in released => x \in released', unreached \subseteq unreached',
         \A k \in {"small", "full"} : <<x, k>> \in objects => <<x, k>> \in objects',
         \A v \in Workers : On(v, x)' => On(v, x) /\ work'[v] = work[v]
  PROVE  RunSound(w)'
<1> SUFFICES ASSUME work[w].phase # "idle" PROVE RunSound(w)'
  BY DEF RunSound
<1>2. \A v \in Workers : On(v, x)' /\ Live(v)' => On(v, x) /\ Live(v)
  BY DEF Live
<1>3. /\ Sane(x)' => Sane(x)
      /\ There(x)' <=> There(x)
  BY DEF Sane, There
<1>4. VariantsOf(x) \subseteq objects => VariantsOf(x) \subseteq objects'
  BY DEF VariantsOf
<1> QED
  BY <1>2, <1>3, <1>4 DEF RunSound

\* A step of one photo and of runs of it.
LEMMA PhotoStep ==
  ASSUME Inductive, TypeOK', NEW p \in Photos,
         \A x \in Photos \ {p} : /\ row'[x] = row[x] /\ up'[x] = up[x]
                                 /\ jobs'[x] = jobs[x] /\ del'[x] = del[x]
                                 /\ x \in late' => x \in late,
         \A x \in Photos \ {p}, k \in Kinds : /\ <<x, k>> \in objects' <=> <<x, k>> \in objects
                                              /\ <<x, k>> \in fresh => <<x, k>> \in fresh',
         \A w \in Workers : \/ work'[w] = work[w]
                            \/ /\ work[w].phase = "idle" \/ work[w].photo = p
                               /\ work'[w].phase = "idle" \/ work'[w].photo = p,
         sweep' = sweep, released' = released, unreached \subseteq unreached', skewed \subseteq skewed',
         skewed' = {} => /\ used' = used - row[p].size + row'[p].size
                         /\ Upheld(p)' <= Upheld(p) \/ used' <= Limit,
         PhotoSound(p)',
         \A w \in Workers : On(w, p)' => RunSound(w)',
         \A o \in Photos \X Kinds :
           o[1] = p /\ sweep.phase = "judged" /\ o \in sweep.doomed /\ JudgedSound(o) => JudgedSound(o)'
  PROVE  Inductive'
<1>1. TypeOK /\ SweepSound /\ QuotaExact /\ PlanKept /\ Photographed /\ Running
  BY Parts
<1>2. QuotaExact' /\ PlanKept'
  BY <1>1, RowCounted
<1>3. \A x \in Photos \ {p}, w \in Workers : On(w, x)' => On(w, x) /\ work'[w] = work[w]
  BY DEF On
<1>4. \A x \in Photos : PhotoSound(x)'
  <2> SUFFICES ASSUME NEW x \in Photos, x # p PROVE PhotoSound(x)'
    OBVIOUS
  <2> QED
    BY <1>1, <1>3, OtherPhoto DEF Photographed
<1>5. \A w \in Workers : RunSound(w)'
  <2> SUFFICES ASSUME NEW w \in Workers, ~On(w, p)' PROVE RunSound(w)'
    OBVIOUS
  <2>1. CASE work'[w].phase = "idle"
    BY <2>1 DEF RunSound
  <2>2. CASE work'[w].phase # "idle"
    <3>1. work'[w] = work[w] /\ work[w].photo # p
      BY <2>2 DEF On
    <3>2. work[w].photo \in Photos
      BY <1>1, <2>2, <3>1, RunTyped
    <3>3. PICK x \in Photos : work[w].photo = x
      BY <3>2
    <3>4. x \in Photos \ {p}
      BY <3>1, <3>3
    <3>5. /\ row'[x] = row[x] /\ x \in released => x \in released'
          /\ \A k \in {"small", "full"} : <<x, k>> \in objects => <<x, k>> \in objects'
          /\ \A v \in Workers : On(v, x)' => On(v, x) /\ work'[v] = work[v]
      BY <1>3, <3>4 DEF Kinds
    <3>6. RunSound(w)
      BY <1>1 DEF Running
    <3> QED
      BY <1>1, <3>1, <3>3, <3>5, <3>6, OtherRun
  <2> QED
    BY <2>1, <2>2
<1>6. SweepSound'
  <2>1. ASSUME sweep.phase = "judged", NEW o \in sweep.doomed PROVE JudgedSound(o)'
    <3>1. JudgedSound(o) /\ o \in Photos \X Kinds
      <4>1. JudgedSound(o)
        BY <1>1, <2>1, SweepParts
      <4>2. sweep \in [phase : {"judged"}, doomed : SUBSET (Photos \X Kinds)]
        BY <1>1, <2>1 DEF TypeOK, SweepStates, Idle
      <4> QED
        BY <4>1, <4>2
    <3>2. CASE o[1] = p
      BY <2>1, <3>1, <3>2
    <3>3. CASE o[1] # p
      <4>1. o[1] \in Photos \ {p}
        BY <3>1, <3>3
      <4> QED
        BY <3>1, <4>1 DEF JudgedSound, There, Sane
    <3> QED
      BY <3>2, <3>3
  <2>2. sweep.phase = "stuck" => \A x \in Photos : sweep.read[x] \in {NoRow, Uploaded(x)}
    BY <1>1, SweepParts
  <2> QED
    BY <2>1, <2>2 DEF SweepSound, JudgedSound
<1> QED
  BY <1>2, <1>4, <1>5, <1>6 DEF Inductive

--------------------------------------------------------------------------------
(* The request *)

Requests == {"idle", "stored", "undo", "reserved", "rollback", "unstore", "accepted", "refused"}

\* A step of a request that leaves the row and the counter alone, and of the
\* objects the delivery files.
LEMMA RequestStep ==
  ASSUME Inductive, NEW p \in Photos,
         UNCHANGED <<row, used, aged, work, del, sweep, skewed, released, unreached>>,
         NEW phase \in Requests, up' = [up EXCEPT ![p] = phase],
         phase \in {"idle", "stored"} => up[p] \in {"idle", "stored"},
         jobs' \in [Photos -> 0 .. Attempts], \A x \in Photos \ {p} : jobs'[x] = jobs[x],
         late' \subseteq Photos, \A x \in Photos \ {p} : x \in late' => x \in late,
         objects' \subseteq Photos \X Kinds, fresh' \subseteq objects',
         \A x \in Photos \ {p}, k \in Kinds : /\ <<x, k>> \in objects' <=> <<x, k>> \in objects
                                              /\ <<x, k>> \in fresh => <<x, k>> \in fresh',
         \A k \in {"small", "full"} : <<p, k>> \in objects => <<p, k>> \in objects',
         faults' \in 0 .. MaxFaults,
         PhotoSound(p)'
  PROVE  Inductive'
<1>1. TypeOK /\ SweepSound /\ QuotaExact /\ PlanKept /\ Photographed /\ Running
  BY Parts
<1>2. TypeOK'
  BY <1>1 DEF TypeOK, Requests
<1>3. up'[p] = phase /\ \A x \in Photos \ {p} : up'[x] = up[x]
  BY <1>1 DEF TypeOK
<1>4. \A w \in Workers : On(w, p)' => RunSound(w)'
  <2> SUFFICES ASSUME NEW w \in Workers, On(w, p) PROVE RunSound(w)'
    BY DEF On
  <2>1. RunSound(w) /\ work[w].photo = p
    BY <1>1 DEF Running, On
  <2>2. \A v \in Workers : On(v, p)' => On(v, p) /\ work'[v] = work[v]
    BY DEF On
  <2> QED
    BY <1>1, <2>1, <2>2, OtherRun
<1>5. \A o \in Photos \X Kinds : o[1] = p /\ JudgedSound(o) => JudgedSound(o)'
  BY <1>3 DEF JudgedSound, There, Sane
<1>6. used' = used - row[p].size + row'[p].size /\ Upheld(p)' = Upheld(p) /\ Upheld(p) \in Nat
  <2>1. row[p].size \in Nat /\ used \in Nat /\ Size[p] \in Nat
    BY <1>1, Sizes DEF TypeOK, RowStates
  <2> QED
    BY <2>1 DEF Upheld
<1> QED
  BY <1>2, <1>3, <1>4, <1>5, <1>6, PhotoStep

\* What PhotoSound reads of the objects, one by one.
LEMMA ObjectsOf ==
  ASSUME NEW p \in Photos, NEW O, NEW F
  PROVE  /\ KeysOf(p) \cap O = {} <=> \A k \in Kinds : <<p, k>> \notin O
         /\ KeysOf(p) \cap O \subseteq F <=> \A k \in Kinds : <<p, k>> \in O => <<p, k>> \in F
         /\ VariantsOf(p) \subseteq O <=> <<p, "small">> \in O /\ <<p, "full">> \in O
BY DEF KeysOf, VariantsOf

\* Some of the objects go, and perhaps an outage is counted.
LEMMA Dropped ==
  ASSUME TypeOK, NEW S, DropMostly(S)
  PROVE  \E D \in SUBSET S : /\ objects' = objects \ D /\ fresh' = fresh \ D
                             /\ faults' \in 0 .. MaxFaults
<1>1. CASE Drop(S) /\ NoFault
  BY <1>1 DEF Drop, NoFault, TypeOK
<1>2. CASE Fault /\ \E rest \in SUBSET S : rest # {} /\ Drop(S \ rest)
  <2>1. faults' \in 0 .. MaxFaults
    BY <1>2, Sizes DEF Fault, TypeOK
  <2> QED
    BY <1>2, <2>1 DEF Drop
<1> QED
  BY <1>1, <1>2 DEF DropMostly

LEMMA Faulted == TypeOK /\ (Fault \/ NoFault) => faults' \in 0 .. MaxFaults
BY Sizes DEF Fault, NoFault, TypeOK

LEMMA AdmitKeeps ==
  ASSUME Inductive, NEW p \in Photos, Admit(p)
  PROVE  Inductive'
<1>1. TypeOK /\ PhotoSound(p)
  BY Parts DEF Photographed
<1>2. UNCHANGED <<row, used, aged, late, jobs, work, del, sweep, skewed, released, unreached>> /\ up[p] = "idle"
  BY DEF Admit, OnlyUpload
<1>3. faults' \in 0 .. MaxFaults
  BY <1>1, Faulted DEF Admit
<1>4. PICK phase \in {"stored", "refused"} :
        /\ up' = [up EXCEPT ![p] = phase]
        /\ \/ objects' = objects \union {<<p, "source">>} /\ fresh' = fresh \union {<<p, "source">>}
           \/ phase = "refused" /\ UNCHANGED <<objects, fresh>>
  BY DEF Admit, MovesTo, Put
<1>5. up'[p] = phase /\ phase \in Requests
  BY <1>1, <1>4 DEF TypeOK, Requests
<1>6. /\ objects' \subseteq Photos \X Kinds /\ fresh' \subseteq objects'
      /\ \A x \in Photos \ {p}, k \in Kinds : /\ <<x, k>> \in objects' <=> <<x, k>> \in objects
                                              /\ <<x, k>> \in fresh => <<x, k>> \in fresh'
      /\ \A k \in {"small", "full"} : <<p, k>> \in objects => <<p, k>> \in objects'
  BY <1>1, <1>4 DEF TypeOK, Kinds
<1>7. PhotoSound(p)'
  <2>1. \A k \in Kinds : <<p, k>> \notin objects
    BY <1>1, <1>2, ObjectsOf DEF PhotoSound
  <2>2. phase = "stored" => /\ <<p, "source">> \in objects'
                            /\ \A k \in Kinds : <<p, k>> \in objects' => <<p, k>> \in fresh'
    BY <1>4, <2>1
  <2>3. phase = "stored" => KeysOf(p) \cap objects' \subseteq fresh'
    BY <2>2, ObjectsOf
  <2>4. row[p] = NoRow /\ row[p].status = "none" /\ jobs[p] = 0 /\ p \notin late /\ Unrun(p) /\ del[p] = {}
    BY <1>1, <1>2 DEF PhotoSound, Unsent
  <2> QED
    BY <1>2, <1>5, <2>2, <2>3, <2>4 DEF PhotoSound, Unrun, On, There
<1>8. jobs' \in [Photos -> 0 .. Attempts] /\ late' \subseteq Photos
  BY <1>1, <1>2 DEF TypeOK
<1> QED
  BY <1>2, <1>3, <1>4, <1>5, <1>6, <1>7, <1>8, RequestStep

\* A request that ends without its photo, or leaves it as it is: it may take
\* back the upload of a row that is not there or that no job will see.
LEMMA RequestEnds ==
  ASSUME Inductive, NEW p \in Photos,
         up[p] \in {"undo", "reserved", "stored", "rollback", "unstore"}, MovesTo(p, "refused"),
         OnlyUpload, UNCHANGED <<row, used>>, faults' \in 0 .. MaxFaults,
         NEW D \in SUBSET {<<p, "source">>}, objects' = objects \ D, fresh' = fresh \ D,
         D # {} => up[p] \in {"undo", "unstore"}
  PROVE  Inductive'
<1>1. TypeOK /\ PhotoSound(p)
  BY Parts DEF Photographed
<1>2. up' = [up EXCEPT ![p] = "refused"] /\ up'[p] = "refused" /\ "refused" \in Requests
  BY <1>1 DEF TypeOK, MovesTo, Requests
<1>3. UNCHANGED <<row, used, aged, late, jobs, work, del, sweep, skewed, released, unreached>>
  BY DEF OnlyUpload
<1>4. /\ objects' \subseteq Photos \X Kinds /\ fresh' \subseteq objects'
      /\ \A x \in Photos \ {p}, k \in Kinds : /\ <<x, k>> \in objects' <=> <<x, k>> \in objects
                                              /\ <<x, k>> \in fresh => <<x, k>> \in fresh'
      /\ \A k \in {"small", "full"} : <<p, k>> \in objects => <<p, k>> \in objects'
  BY <1>1 DEF TypeOK
<1>5. PhotoSound(p)'
  <2>1. There(p)' <=> There(p)
    BY <1>3 DEF There
  <2>2. Locked(p)' <=> Locked(p)
    BY <1>3 DEF Locked, On
  <2>3. Unrun(p)' <=> Unrun(p)
    BY <1>3 DEF Unrun, On
  <2>4. (There(p) /\ Sane(p) /\ Handed(p))' => <<p, "source">> \in objects' \/ <<p, "full">> \in objects'
    <3>1. CASE D = {}
      <4>1. Handed(p)' => Handed(p)
        BY <1>2, <1>3, <2>3 DEF Handed
      <4>2. There(p) /\ Sane(p) /\ Handed(p) => <<p, "source">> \in objects \/ <<p, "full">> \in objects
        BY <1>1 DEF PhotoSound
      <4> QED
        BY <1>3, <2>1, <3>1, <4>1, <4>2 DEF Sane
    <3>2. CASE up[p] = "undo"
      <4>1. jobs[p] = 0 /\ p \notin late /\ Unrun(p)
        BY <1>1, <3>2 DEF PhotoSound, Unsent
      <4> QED
        BY <1>2, <1>3, <2>3, <4>1 DEF Handed
    <3>3. CASE up[p] = "unstore"
      BY <1>1, <2>1, <3>3 DEF PhotoSound, There
    <3> QED
      BY <3>1, <3>2, <3>3
  <2>5. VariantsOf(p) \subseteq objects => VariantsOf(p) \subseteq objects'
    BY DEF VariantsOf
  <2> QED
    BY <1>1, <1>2, <1>3, <2>2, <2>3, <2>4, <2>5 DEF PhotoSound, Unsent
<1>6. jobs' \in [Photos -> 0 .. Attempts] /\ late' \subseteq Photos
  BY <1>1, <1>3 DEF TypeOK
<1> QED
  BY <1>2, <1>3, <1>4, <1>5, <1>6, RequestStep

LEMMA UndoKeeps ==
  ASSUME Inductive, NEW p \in Photos, Undo(p) \/ RollbackObject(p)
  PROVE  Inductive'
<1>1. TypeOK
  BY Parts
<1>2. /\ up[p] \in {"undo", "unstore"} /\ DropMostly({<<p, "source">>}) /\ MovesTo(p, "refused")
      /\ OnlyUpload /\ UNCHANGED <<row, used>>
  BY DEF Undo, RollbackObject
<1>3. PICK D \in SUBSET {<<p, "source">>} : /\ objects' = objects \ D /\ fresh' = fresh \ D
                                            /\ faults' \in 0 .. MaxFaults
  BY <1>1, <1>2, Dropped
<1> QED
  BY <1>2, <1>3, RequestEnds

LEMMA GiveUpKeeps ==
  ASSUME Inductive, NEW p \in Photos, RollbackFails(p) \/ UploadCrash(p)
  PROVE  Inductive'
<1>1. TypeOK
  BY Parts
<1>2. /\ up[p] \in {"undo", "reserved", "stored", "rollback", "unstore"} /\ MovesTo(p, "refused")
      /\ OnlyUpload /\ UNCHANGED <<row, used, objects, fresh>> /\ Fault
  BY DEF RollbackFails, UploadCrash
<1>3. faults' \in 0 .. MaxFaults
  BY <1>1, <1>2, Faulted
<1>4. {} \in SUBSET {<<p, "source">>} /\ objects' = objects \ {} /\ fresh' = fresh \ {}
  BY <1>2
<1> QED
  BY <1>2, <1>3, <1>4, RequestEnds

\* A step of a request that moves the job: it is sent, or sent after all.
LEMMA SendStep ==
  ASSUME Inductive, NEW p \in Photos,
         NEW phase \in Requests \ {"idle", "stored"}, MovesTo(p, phase),
         UNCHANGED <<row, used, objects, fresh, aged, work, del, sweep, skewed, released, unreached>>,
         jobs' \in [Photos -> 0 .. Attempts], \A x \in Photos \ {p} : jobs'[x] = jobs[x],
         late' \subseteq Photos, \A x \in Photos \ {p} : x \in late' => x \in late,
         faults' \in 0 .. MaxFaults,
         phase = "unstore" => up[p] = "unstore",
         row[p].status = "failed" /\ p \notin released => up[p] = phase /\ jobs'[p] = 0 /\ p \notin late',
         phase \in Unsent => up[p] \in Unsent /\ jobs'[p] = 0 /\ p \notin late',
         p \in late' => jobs'[p] = 0 /\ Unrun(p),
         phase \in {"reserved", "rollback", "accepted"} \/ p \in late' \/ jobs'[p] > 0 => Handed(p)
  PROVE  Inductive'
<1>1. TypeOK /\ PhotoSound(p)
  BY Parts DEF Photographed
<1>2. up' = [up EXCEPT ![p] = phase] /\ up'[p] = phase
  BY <1>1 DEF TypeOK, MovesTo
<1>3. objects' \subseteq Photos \X Kinds /\ fresh' \subseteq objects'
  BY <1>1 DEF TypeOK
<1>4. PhotoSound(p)'
  <2>1. There(p)' <=> There(p)
    BY DEF There
  <2>2. Locked(p)' <=> Locked(p)
    BY DEF Locked, On
  <2>3. Unrun(p)' <=> Unrun(p)
    BY DEF Unrun, On
  <2>4. Handed(p)' => Handed(p)
    BY <1>2, <2>3 DEF Handed
  <2>5. Sane(p)' <=> Sane(p)
    BY DEF Sane
  <2> QED
    BY <1>1, <1>2, <2>1, <2>2, <2>3, <2>4, <2>5 DEF PhotoSound
<1> QED
  BY <1>2, <1>3, <1>4, RequestStep

LEMMA ReserveRefusedKeeps ==
  ASSUME Inductive, NEW p \in Photos, ReserveRefused(p)
  PROVE  Inductive'
<1>1. TypeOK /\ PhotoSound(p)
  BY Parts DEF Photographed
<1>2. /\ up[p] = "stored" /\ MovesTo(p, "undo") /\ "undo" \in Requests \ {"idle", "stored"}
      /\ UNCHANGED <<row, used, objects, fresh, aged, late, jobs, work, del, sweep, skewed, released, unreached>>
  BY DEF ReserveRefused, OnlyUpload, Requests
<1>3. faults' \in 0 .. MaxFaults
  BY <1>1, Faulted DEF ReserveRefused
<1>4. jobs[p] = 0 /\ p \notin late /\ Unrun(p) /\ row[p].status = "none" /\ "undo" \in Unsent /\ up[p] \in Unsent
  BY <1>1, <1>2 DEF PhotoSound, Unsent
<1>5. jobs' \in [Photos -> 0 .. Attempts] /\ late' \subseteq Photos
  BY <1>1, <1>2 DEF TypeOK
<1> QED
  BY <1>2, <1>3, <1>4, <1>5, SendStep

LEMMA EnqueueKeeps ==
  ASSUME Inductive, NEW p \in Photos, Enqueue(p)
  PROVE  Inductive'
<1>1. TypeOK /\ PhotoSound(p)
  BY Parts DEF Photographed
<1>2. up[p] = "reserved" /\ UNCHANGED <<row, used, objects, fresh, aged, work, del, sweep, skewed, released, unreached>>
  BY DEF Enqueue
<1>3. PICK phase \in {"accepted", "rollback"} :
        /\ MovesTo(p, phase)
        /\ \/ phase = "accepted" /\ jobs' = [jobs EXCEPT ![p] = Attempts] /\ late' = late
           \/ phase = "rollback" /\ jobs' = jobs /\ late' \in {late, late \union {p}}
  BY DEF Enqueue
<1>4. faults' \in 0 .. MaxFaults
  BY <1>1, Faulted DEF Enqueue
<1>5. jobs[p] = 0 /\ p \notin late /\ Unrun(p) /\ Handed(p)
      /\ ~(row[p].status = "failed" /\ p \notin released)
  BY <1>1, <1>2 DEF PhotoSound, Unsent, Handed
<1>6. /\ jobs' \in [Photos -> 0 .. Attempts] /\ \A x \in Photos \ {p} : jobs'[x] = jobs[x]
      /\ late' \subseteq Photos /\ \A x \in Photos \ {p} : x \in late' => x \in late
      /\ p \in late' => jobs'[p] = 0
  BY <1>1, <1>3, <1>5, Sizes DEF TypeOK
<1>7. phase \in Requests \ {"idle", "stored"} /\ phase \notin Unsent /\ phase # "unstore"
  BY DEF Requests, Unsent
<1> QED
  BY <1>2, <1>3, <1>4, <1>5, <1>6, <1>7, SendStep

LEMMA LateEnqueueKeeps ==
  ASSUME Inductive, NEW p \in Photos, LateEnqueue(p)
  PROVE  Inductive'
<1>1. TypeOK /\ PhotoSound(p)
  BY Parts DEF Photographed
<1>2. /\ p \in late /\ late' = late \ {p} /\ jobs' = [jobs EXCEPT ![p] = Attempts]
      /\ UNCHANGED <<row, used, objects, fresh, aged, work, del, sweep, skewed, released, unreached>> /\ up' = up /\ faults' = faults
  BY DEF LateEnqueue
<1>3. Handed(p) /\ ~(row[p].status = "failed" /\ p \notin released) /\ up[p] \notin Unsent
  BY <1>1, <1>2 DEF PhotoSound, Handed
<1>4. up[p] \in Requests \ {"idle", "stored"} /\ MovesTo(p, up[p])
  BY <1>1, <1>2, <1>3 DEF TypeOK, Requests, Unsent, MovesTo
<1>5. /\ jobs' \in [Photos -> 0 .. Attempts] /\ \A x \in Photos \ {p} : jobs'[x] = jobs[x]
      /\ late' \subseteq Photos /\ (\A x \in Photos \ {p} : x \in late' => x \in late) /\ p \notin late'
      /\ faults' \in 0 .. MaxFaults
  BY <1>1, <1>2, Sizes DEF TypeOK
<1> QED
  BY <1>2, <1>3, <1>4, <1>5, SendStep

\* The upload is reserved: the row comes, and the counter says what it weighs.
LEMMA ReserveKeeps ==
  ASSUME Inductive, NEW p \in Photos, Reserve(p)
  PROVE  Inductive'
<1>1. TypeOK /\ QuotaExact /\ PhotoSound(p) /\ Running
  BY Parts DEF Photographed
<1>2. /\ up[p] = "stored" /\ used + Size[p] <= Limit
      /\ row' = [row EXCEPT ![p] = Uploaded(p)] /\ used' = used + Size[p]
      /\ UNCHANGED <<objects, fresh, aged, late, jobs, work, del, sweep, skewed, released, unreached>>
  BY DEF Reserve, Admitted, Fits, OnlyUpload
<1>3. PICK phase \in {"reserved", "undo"} : up' = [up EXCEPT ![p] = phase]
  BY DEF Reserve, MovesTo
<1>4. faults' \in 0 .. MaxFaults
  BY <1>1, Faulted DEF Reserve
<1>5. /\ row'[p] = Uploaded(p) /\ up'[p] = phase
      /\ \A x \in Photos \ {p} : row'[x] = row[x] /\ up'[x] = up[x]
      /\ row' \in [Photos -> RowStates] /\ used' \in Nat
  BY <1>1, <1>2, <1>3, Rows, Sizes DEF TypeOK
<1>6. TypeOK'
  BY <1>1, <1>2, <1>3, <1>4, <1>5 DEF TypeOK
<1>7. row[p] = NoRow /\ jobs[p] = 0 /\ p \notin late /\ Unrun(p) /\ del[p] = {} /\ <<p, "source">> \in objects
  BY <1>1, <1>2 DEF PhotoSound, Unsent
<1>8. PhotoSound(p)'
  <2>1. Unrun(p)'
    BY <1>2, <1>7 DEF Unrun, On
  <2> QED
    BY <1>1, <1>2, <1>5, <1>7, <2>1, Rows DEF PhotoSound
<1>9. \A w \in Workers : ~On(w, p)'
  BY <1>2, <1>7 DEF Unrun, On
<1>10. used' = used - row[p].size + row'[p].size /\ used' <= Limit
  BY <1>1, <1>2, <1>5, <1>7, Rows, Sizes DEF TypeOK
<1>11. \A o \in Photos \X Kinds : o[1] = p => ~JudgedSound(o)
  BY <1>2 DEF JudgedSound
<1> QED
  BY <1>2, <1>5, <1>6, <1>8, <1>9, <1>10, <1>11, PhotoStep

--------------------------------------------------------------------------------
(* A row goes *)

\* A row goes, or is gone: its run is over, or has lost its lock.
LEMMA RowGoes ==
  ASSUME Inductive, NEW p \in Photos, ~Locked(p),
         row' = [row EXCEPT ![p] = NoRow],
         UNCHANGED <<objects, fresh, aged, late, jobs, work, sweep, released, unreached, faults>>,
         up' \in [Photos -> Requests], \A x \in Photos \ {p} : up'[x] = up[x],
         up'[p] \notin {"idle", "stored"}, up'[p] = up[p] \/ up'[p] \notin Unsent,
         del' \in [Photos -> SUBSET (Photos \X Kinds)], \A x \in Photos \ {p} : del'[x] = del[x],
         del'[p] \subseteq KeysOf(p),
         skewed' \subseteq Photos, skewed \subseteq skewed',
         used' \in Nat, skewed' = {} => used' = used - row[p].size
  PROVE  Inductive'
<1>1. TypeOK /\ PhotoSound(p) /\ Running
  BY Parts DEF Photographed
<1>2. /\ row'[p] = NoRow /\ \A x \in Photos \ {p} : row'[x] = row[x]
      /\ row' \in [Photos -> RowStates]
  BY <1>1, Rows DEF TypeOK
<1>3. TypeOK'
  BY <1>1, <1>2 DEF TypeOK, Requests
<1>4. ~There(p)'
  BY <1>2, Rows DEF There
<1>5. Unrun(p) <=> Unrun(p)'
  BY DEF Unrun, On
<1>6. PhotoSound(p)'
  BY <1>1, <1>2, <1>4, <1>5, Rows DEF PhotoSound
<1>7. \A w \in Workers : On(w, p)' => RunSound(w)'
  <2> SUFFICES ASSUME NEW w \in Workers, On(w, p) PROVE RunSound(w)'
    BY DEF On
  <2>1. RunSound(w) /\ work[w].photo = p /\ work[w].phase # "idle" /\ work[w].lost
    BY <1>1 DEF Running, On, Locked
  <2>2. Sane(p)' <=> Sane(p)
    BY DEF Sane
  <2> QED
    BY <1>4, <2>1, <2>2 DEF RunSound
<1>8. \A o \in Photos \X Kinds : o[1] = p => JudgedSound(o)'
  BY <1>4 DEF JudgedSound
<1>9. Upheld(p)' <= Upheld(p) /\ row'[p].size = 0 /\ used \in Nat /\ row[p].size \in Nat
  <2>1. row[p].size \in Nat /\ Size[p] \in Nat /\ row'[p].size = 0
    BY <1>1, <1>2, Rows, Sizes DEF TypeOK, RowStates
  <2> QED
    BY <1>1, <2>1 DEF Upheld, TypeOK
<1>10. skewed' = {} => used' = used - row[p].size + row'[p].size
  BY <1>9
<1> QED
  BY <1>2, <1>3, <1>6, <1>7, <1>8, <1>9, <1>10, PhotoStep

LEMMA RollbackKeeps ==
  ASSUME Inductive, NEW p \in Photos, Rollback(p)
  PROVE  Inductive'
<1>1. TypeOK /\ QuotaExact /\ PhotoSound(p)
  BY Parts DEF Photographed
<1>2. /\ up[p] = "rollback" /\ ~Locked(p) /\ row' = [row EXCEPT ![p] = NoRow]
      /\ used' = Less(used, Size[p])
      /\ skewed' = IF row[p].size = Size[p] THEN skewed ELSE skewed \union {p}
      /\ up' = [up EXCEPT ![p] = "unstore"]
      /\ UNCHANGED <<objects, fresh, aged, late, jobs, work, del, sweep, released, unreached, faults>>
  BY DEF Rollback, MovesTo
<1>3. /\ up' \in [Photos -> Requests] /\ up'[p] = "unstore" /\ \A x \in Photos \ {p} : up'[x] = up[x]
      /\ up'[p] \notin Unsent
  BY <1>1, <1>2 DEF TypeOK, Requests, Unsent
<1>4. /\ del' \in [Photos -> SUBSET (Photos \X Kinds)] /\ del' = del /\ del'[p] \subseteq KeysOf(p)
      /\ skewed' \subseteq Photos /\ skewed \subseteq skewed'
  BY <1>1, <1>2 DEF TypeOK, PhotoSound
<1>5. used \in Nat /\ Size[p] \in Nat /\ used' \in Nat
  BY <1>1, <1>2, Sizes, Clamped DEF TypeOK
<1>6. ASSUME skewed' = {} PROVE used' = used - row[p].size
  <2>1. skewed = {} /\ row[p].size = Size[p]
    BY <1>2, <1>6
  <2>2. row[p].size <= used
    BY <1>1, <2>1, Counted
  <2> QED
    BY <1>2, <1>5, <2>1, <2>2, Clamped
<1> QED
  BY <1>2, <1>3, <1>4, <1>5, <1>6, RowGoes

LEMMA DeleteKeeps ==
  ASSUME Inductive, NEW p \in Photos, Delete(p)
  PROVE  Inductive'
<1>1. TypeOK /\ QuotaExact /\ PhotoSound(p)
  BY Parts DEF Photographed
<1> DEFINE keys == {<<p, row[p].key>>} \union IF row[p].variants THEN VariantsOf(p) ELSE {}
<1>2. /\ row[p].status # "none" /\ ~Locked(p) /\ row' = [row EXCEPT ![p] = NoRow]
      /\ used' = Less(used, row[p].size)
      /\ UNCHANGED <<objects, fresh, aged, late, jobs, work, sweep, skewed, released, unreached, faults>> /\ up' = up
  BY DEF Delete
<1>3. /\ up' \in [Photos -> Requests] /\ up'[p] = up[p] /\ up'[p] \notin {"idle", "stored"}
  BY <1>1, <1>2 DEF TypeOK, Requests, PhotoSound
<1>4. keys \subseteq KeysOf(p)
  <2>1. row[p].key \in Kinds
    BY <1>1 DEF TypeOK, RowStates, Kinds
  <2>2. <<p, row[p].key>> \in KeysOf(p)
    BY <2>1 DEF KeysOf
  <2> QED
    BY <2>2, Keyed
<1>5. /\ del' \in [Photos -> SUBSET (Photos \X Kinds)] /\ \A x \in Photos \ {p} : del'[x] = del[x]
      /\ del'[p] \subseteq KeysOf(p)
  <2>1. del' = [del EXCEPT ![p] = keys]
    BY DEF Delete
  <2> HIDE DEF keys
  <2>2. keys \in SUBSET (Photos \X Kinds)
    BY <1>4, Keyed
  <2> QED
    BY <1>1, <1>4, <2>1, <2>2 DEF TypeOK
<1>6. used \in Nat /\ row[p].size \in Nat /\ used' \in Nat /\ skewed \subseteq Photos
  BY <1>1, <1>2, Clamped DEF TypeOK, RowStates
<1>7. ASSUME skewed' = {} PROVE used' = used - row[p].size
  <2>1. row[p].size <= used
    BY <1>1, <1>2, <1>7, Counted
  <2> QED
    BY <1>2, <1>6, <2>1, Clamped
<1> QED
  BY <1>2, <1>3, <1>5, <1>6, <1>7, RowGoes

--------------------------------------------------------------------------------
(* Its objects, and time *)

LEMMA DeleteObjectsKeeps ==
  ASSUME Inductive, NEW p \in Photos, DeleteObjects(p)
  PROVE  Inductive'
<1>1. TypeOK /\ PhotoSound(p) /\ Running
  BY Parts DEF Photographed
<1>2. /\ del[p] # {} /\ DropMostly(del[p]) /\ del' = [del EXCEPT ![p] = {}]
      /\ UNCHANGED <<row, used, aged, up, late, jobs, work, sweep, skewed, released, unreached>>
  BY DEF DeleteObjects
<1>3. PICK D \in SUBSET del[p] : /\ objects' = objects \ D /\ fresh' = fresh \ D
                                 /\ faults' \in 0 .. MaxFaults
  BY <1>1, <1>2, Dropped
<1>4. D \subseteq KeysOf(p) /\ row[p].status = "none" /\ up[p] \notin {"idle", "stored"}
  BY <1>1, <1>2 DEF PhotoSound
<1>5. /\ del' \in [Photos -> SUBSET (Photos \X Kinds)] /\ \A x \in Photos \ {p} : del'[x] = del[x]
      /\ del'[p] = {}
  BY <1>1, <1>2 DEF TypeOK
<1>6. TypeOK'
  BY <1>1, <1>2, <1>3, <1>5 DEF TypeOK
<1>7. \A x \in Photos \ {p}, k \in Kinds : <<x, k>> \notin D
  BY <1>4 DEF KeysOf
<1>8. ~There(p)' /\ ~There(p) /\ (Unrun(p)' <=> Unrun(p))
  BY <1>2, <1>4 DEF There, Unrun, On
<1>9. PhotoSound(p)'
  BY <1>1, <1>2, <1>4, <1>5, <1>8 DEF PhotoSound
<1>10. \A w \in Workers : On(w, p)' => RunSound(w)'
  <2> SUFFICES ASSUME NEW w \in Workers, On(w, p) PROVE RunSound(w)'
    BY <1>2 DEF On
  <2>1. RunSound(w) /\ work[w].photo = p /\ work[w].phase # "idle"
    BY <1>1 DEF Running, On
  <2>2. (Sane(p)' <=> Sane(p)) /\ \A v \in Workers : (On(v, p)' <=> On(v, p)) /\ (Live(v)' <=> Live(v))
    BY <1>2 DEF Sane, On, Live
  <2> QED
    BY <1>2, <1>8, <2>1, <2>2 DEF RunSound
<1>11. \A o \in Photos \X Kinds : o[1] = p => JudgedSound(o)'
  BY <1>2, <1>4, <1>8 DEF JudgedSound
<1>12. used' = used - row[p].size + row'[p].size /\ Upheld(p)' <= Upheld(p)
  <2>1. row[p].size \in Nat /\ used \in Nat /\ Size[p] \in Nat
    BY <1>1, Sizes DEF TypeOK, RowStates
  <2> QED
    BY <1>2, <2>1 DEF Upheld
<1> QED
  BY <1>2, <1>3, <1>5, <1>6, <1>7, <1>9, <1>10, <1>11, <1>12, PhotoStep

\* Time only takes objects and rows out of their first hour or day.
LEMMA TimeKeeps ==
  ASSUME Inductive, (\E o \in Photos \X Kinds : Hour(o)) \/ (\E p \in Photos : Day(p))
  PROVE  Inductive'
<1>1. TypeOK /\ SweepSound /\ QuotaExact /\ PlanKept /\ Photographed /\ Running
  BY Parts
<1>2. /\ UNCHANGED <<row, used, objects, up, late, jobs, work, del, sweep, skewed, released, unreached, faults>>
      /\ aged' \subseteq Photos /\ fresh' \subseteq fresh
      /\ \A o \in Photos \X Kinds : o \in fresh /\ o \notin fresh' => up[o[1]] # "stored"
  BY <1>1 DEF Hour, InFlight, Day, TypeOK
<1>3. TypeOK'
  BY <1>1, <1>2 DEF TypeOK
<1>4. SweepSound' /\ QuotaExact' /\ PlanKept'
  BY <1>1, <1>2 DEF SweepSound, QuotaExact, PlanKept, Total, Upheld, There, Sane
<1>5. \A p \in Photos : PhotoSound(p)'
  <2> SUFFICES ASSUME NEW p \in Photos PROVE PhotoSound(p)'
    OBVIOUS
  <2>1. PhotoSound(p)
    BY <1>1 DEF Photographed
  <2>2. up[p] = "stored" => KeysOf(p) \cap objects \subseteq fresh'
    <3>1. up[p] = "stored" => \A k \in Kinds : <<p, k>> \in objects => <<p, k>> \in fresh'
      <4>1. \A k \in Kinds : <<p, k>> \in Photos \X Kinds /\ <<p, k>>[1] = p
        OBVIOUS
      <4>2. up[p] = "stored" => \A k \in Kinds : <<p, k>> \in objects => <<p, k>> \in fresh
        BY <2>1, ObjectsOf DEF PhotoSound
      <4> QED
        BY <1>2, <4>1, <4>2
    <3> QED
      BY <1>2, <3>1, ObjectsOf
  <2>3. /\ Unrun(p)' <=> Unrun(p)
        /\ Locked(p)' <=> Locked(p)
        /\ There(p)' <=> There(p)
        /\ Sane(p)' <=> Sane(p)
    BY <1>2 DEF Unrun, Locked, On, There, Sane
  <2>4. Handed(p)' <=> Handed(p)
    BY <1>2, <2>3 DEF Handed
  <2> QED
    BY <1>2, <2>1, <2>2, <2>3, <2>4 DEF PhotoSound
<1>6. \A w \in Workers : RunSound(w)'
  BY <1>1, <1>2 DEF RunSound, Running, On, Live, There, Sane
<1> QED
  BY <1>3, <1>4, <1>5, <1>6 DEF Inductive

--------------------------------------------------------------------------------
(* The runs *)

\* What a run that holds or held a row may claim of it and of the objects, by
\* whether the photo is sane.
RunWrites(r, p, O, sane) ==
  /\ ~r.lost => row[p].size = r.size /\ row[p].status \in {"pending", "failed"}
  /\ r.phase \in {"recorded", "discarded"} => p \notin Bad
  /\ sane => r.key = "source"
  /\ There(p) /\ sane =>
       /\ r.phase \notin {"permanent", "cleared"}
       /\ r.phase = "small" => <<p, "small">> \in O
       /\ r.phase \in {"full", "recorded", "discarded"} => VariantsOf(p) \subseteq O

LEMMA RunParts ==
  ASSUME NEW w \in Workers, NEW p, On(w, p)
  PROVE  RunSound(w) <=> /\ RunWrites(work[w], p, objects, Sane(p))
                         /\ ~work[w].lost => \A v \in Workers : On(v, p) /\ Live(v) => v = w
BY DEF RunSound, RunWrites, On

\* A run goes on, ends, or begins with a job; the row is left alone.
LEMMA PhaseStep ==
  ASSUME Inductive, NEW w \in Workers, NEW p \in Photos,
         UNCHANGED <<row, used, aged, up, late, del, sweep, skewed, released>>,
         unreached' \in {unreached, unreached \union {p}},
         On(w, p) \/ (work[w].phase = "idle" /\ jobs[p] > 0),
         NEW q \in {Idle} \union RunStates, work' = [work EXCEPT ![w] = q],
         q.phase # "idle" => q.photo = p /\ RunWrites(q, p, objects', Sane(p)'),
         q.phase # "idle" /\ ~q.lost => \/ On(w, p) /\ ~work[w].lost
                                        \/ ~Locked(p) /\ jobs[p] > 0,
         jobs' \in [Photos -> 0 .. Attempts], \A x \in Photos \ {p} : jobs'[x] = jobs[x],
         jobs'[p] <= jobs[p],
         objects' \subseteq Photos \X Kinds, fresh' \subseteq objects',
         \A x \in Photos \ {p}, k \in Kinds : /\ <<x, k>> \in objects' <=> <<x, k>> \in objects
                                              /\ <<x, k>> \in fresh => <<x, k>> \in fresh',
         There(p) /\ Sane(p)' =>
           /\ \A k \in {"small", "full"} : <<p, k>> \in objects => <<p, k>> \in objects'
           /\ <<p, "source">> \in objects => <<p, "source">> \in objects' \/ <<p, "full">> \in objects',
         faults' \in 0 .. MaxFaults
  PROVE  Inductive'
<1>1. TypeOK /\ SweepSound /\ QuotaExact /\ PlanKept /\ PhotoSound(p) /\ Running
  BY Parts DEF Photographed
<1>2. /\ work' \in [Workers -> {Idle} \union RunStates] /\ work'[w] = q
      /\ \A v \in Workers \ {w} : work'[v] = work[v]
  BY <1>1 DEF TypeOK
<1>3. TypeOK' /\ unreached \subseteq unreached'
  BY <1>1, <1>2 DEF TypeOK
<1>4. Handed(p) /\ up[p] \notin Unsent /\ p \notin late /\ jobs[p] \in Nat /\ jobs'[p] \in Nat
  BY <1>1, Sizes DEF PhotoSound, Unrun, Handed, TypeOK
<1>5. Locked(p)' => Locked(p) \/ jobs[p] > 0
  BY <1>2 DEF Locked, On
<1>6. (There(p)' <=> There(p)) /\ (Sane(p)' => Sane(p))
  BY DEF There, Sane
<1>7. PhotoSound(p)'
  <2>1. row[p].status = "ready" /\ p \notin released \union unreached' => VariantsOf(p) \subseteq objects'
    <3>1. row[p].status = "ready" /\ p \notin released \union unreached' =>
            There(p) /\ Sane(p)' /\ VariantsOf(p) \subseteq objects
      BY <1>1 DEF PhotoSound, There, Sane
    <3> QED
      BY <3>1 DEF VariantsOf
  <2>2. There(p) /\ Sane(p)' => <<p, "source">> \in objects' \/ <<p, "full">> \in objects'
    BY <1>1, <1>4, <1>6 DEF PhotoSound
  <2>3. row[p].status = "failed" /\ p \notin released => jobs'[p] = 0 /\ ~Locked(p)'
    BY <1>1, <1>4, <1>5 DEF PhotoSound
  <2>4. up[p] \notin {"idle", "stored"}
    BY <1>4 DEF Unsent
  <2> QED
    BY <1>1, <1>4, <1>6, <2>1, <2>2, <2>3, <2>4 DEF PhotoSound
<1>8. \A v \in Workers : On(v, p)' => RunSound(v)'
  <2> SUFFICES ASSUME NEW v \in Workers, On(v, p)' PROVE RunSound(v)'
    OBVIOUS
  <2>1. RunWrites(work'[v], p, objects', Sane(p)')
    <3>1. CASE v = w
      BY <1>2, <3>1 DEF On
    <3>2. CASE v # w
      <4>1. On(v, p) /\ work'[v] = work[v]
        BY <1>2, <3>2 DEF On
      <4>2. RunWrites(work[v], p, objects, Sane(p))
        BY <1>1, <4>1, RunParts DEF Running
      <4>3. There(p) /\ Sane(p)' /\ VariantsOf(p) \subseteq objects => VariantsOf(p) \subseteq objects'
        BY DEF VariantsOf
      <4> QED
        BY <1>6, <4>1, <4>2, <4>3 DEF RunWrites
    <3> QED
      BY <3>1, <3>2
  <2>2. ASSUME ~work'[v].lost, NEW u \in Workers, On(u, p)', Live(u)' PROVE u = v
    <3>1. \A x \in Workers : On(x, p)' /\ ~work'[x].lost =>
            \/ On(x, p) /\ ~work[x].lost
            \/ x = w /\ ~Locked(p)
      BY <1>2 DEF On
    <3>2. \A x, y \in Workers : On(x, p) /\ ~work[x].lost /\ On(y, p) /\ ~work[y].lost => x = y
      BY <1>1 DEF Running, RunSound, On, Live
    <3> QED
      BY <2>2, <3>1, <3>2 DEF Live, Locked
  <2> QED
    BY <1>6, <2>1, <2>2 DEF RunSound, RunWrites, On
<1>9. \A o \in Photos \X Kinds : o[1] = p /\ JudgedSound(o) => JudgedSound(o)'
  BY DEF JudgedSound, There, Sane
<1>10. used' = used - row[p].size + row'[p].size /\ Upheld(p)' <= Upheld(p)
  <2>1. row[p].size \in Nat /\ used \in Nat /\ Size[p] \in Nat
    BY <1>1, Sizes DEF TypeOK, RowStates
  <2> QED
    BY <2>1 DEF Upheld
<1> QED
  BY <1>2, <1>3, <1>7, <1>8, <1>9, <1>10, PhotoStep DEF On

\* A run that is under way moves to another phase.
LEMMA RunMoves ==
  ASSUME Inductive, NEW w \in Workers, NEW p \in Photos, On(w, p),
         UNCHANGED <<row, used, aged, up, late, jobs, del, sweep, skewed, released>>,
         unreached' \in {unreached, unreached \union {p}},
         NEW phase \in Holding, Runs(w, phase),
         phase \in {"recorded", "discarded"} => p \notin Bad,
         There(p) /\ Sane(p)' =>
           /\ phase \notin {"permanent", "cleared"}
           /\ phase = "small" => <<p, "small">> \in objects'
           /\ phase \in {"full", "recorded", "discarded"} => VariantsOf(p) \subseteq objects'
           /\ \A k \in {"small", "full"} : <<p, k>> \in objects => <<p, k>> \in objects'
           /\ <<p, "source">> \in objects => <<p, "source">> \in objects' \/ <<p, "full">> \in objects',
         NEW A \in SUBSET KeysOf(p), NEW D \in SUBSET KeysOf(p),
         objects' = (objects \union A) \ D, fresh' = (fresh \union A) \ D,
         faults' \in 0 .. MaxFaults
  PROVE  Inductive'
<1>1. TypeOK /\ RunSound(w)
  BY Parts DEF Running
<1>2. work[w] \in RunStates /\ work[w].photo = p
  BY <1>1, RunTyped DEF On
<1> DEFINE q == [work[w] EXCEPT !.phase = phase]
<1>3. /\ q \in RunStates /\ q.phase = phase /\ q.photo = p /\ q.size = work[w].size
      /\ q.key = work[w].key /\ q.lost = work[w].lost
  BY <1>2 DEF RunStates
<1>4. work' = [work EXCEPT ![w] = q]
  BY DEF Runs
<1>5. jobs' \in [Photos -> 0 .. Attempts] /\ jobs' = jobs /\ jobs'[p] <= jobs[p]
  BY <1>1, Sizes DEF TypeOK
<1>6. /\ objects' \subseteq Photos \X Kinds /\ fresh' \subseteq objects'
      /\ \A x \in Photos \ {p}, k \in Kinds : /\ <<x, k>> \in objects' <=> <<x, k>> \in objects
                                              /\ <<x, k>> \in fresh => <<x, k>> \in fresh'
  <2>1. A \subseteq Photos \X Kinds /\ \A x \in Photos \ {p}, k \in Kinds : <<x, k>> \notin A \union D
    BY DEF KeysOf
  <2> QED
    BY <1>1, <2>1 DEF TypeOK
<1>7. RunWrites(work[w], p, objects, Sane(p)) /\ (Sane(p)' => Sane(p))
  BY <1>1, RunParts DEF Sane
<1> HIDE DEF q
<1>8. RunWrites(q, p, objects', Sane(p)')
  BY <1>3, <1>7 DEF RunWrites
<1>9. ~q.lost => On(w, p) /\ ~work[w].lost
  BY <1>3
<1> QED
  BY <1>3, <1>4, <1>5, <1>6, <1>8, <1>9, PhaseStep

LEMMA LoadKeeps ==
  ASSUME Inductive, NEW w \in Workers, Load(w)
  PROVE  Inductive'
<1>1. TypeOK /\ Photographed /\ Running
  BY Parts
<1>2. PICK p \in Photos : work[w].photo = p /\ On(w, p)
  BY <1>1, RunTyped DEF Load
<1>3. PICK phase \in {"render", "permanent"} :
        Runs(w, phase) /\ (phase = "permanent" <=> ~Loadable(work[w]))
  BY DEF Load
<1>4. There(p) /\ Sane(p) => phase = "render"
  <2>1. There(p) /\ Sane(p) => <<p, "source">> \in objects \/ <<p, "full">> \in objects
    BY <1>1, <1>2 DEF Photographed, PhotoSound, Handed, Unrun
  <2>2. Sane(p) => work[w].key = "source"
    BY <1>1, <1>2 DEF Running, RunSound, On
  <2> QED
    BY <1>2, <1>3, <2>1, <2>2 DEF Loadable
<1>5. /\ UNCHANGED <<row, used, objects, fresh, aged, up, late, jobs, del, sweep, skewed, released, unreached>>
      /\ faults' \in 0 .. MaxFaults
  BY <1>1 DEF Load, OnlyRun, TypeOK
<1>6. objects' = (objects \union {}) \ {} /\ fresh' = (fresh \union {}) \ {} /\ {} \in SUBSET KeysOf(p)
  BY <1>5
<1> QED
  BY <1>2, <1>3, <1>4, <1>5, <1>6, RunMoves DEF Holding, Sane

\* The outage that makes a run give up: its photo counts as sane no more.
LEMMA LoadUnreachableKeeps ==
  ASSUME Inductive, NEW w \in Workers, LoadUnreachable(w)
  PROVE  Inductive'
<1>1. TypeOK
  BY Parts
<1>2. PICK p \in Photos : work[w].photo = p /\ On(w, p)
  BY <1>1, RunTyped DEF LoadUnreachable
<1>3. /\ UNCHANGED <<row, used, objects, fresh, aged, up, late, jobs, del, sweep, skewed, released>>
      /\ unreached' = unreached \union {p} /\ Runs(w, "permanent") /\ faults' \in 0 .. MaxFaults
  BY <1>1, <1>2, Faulted DEF LoadUnreachable, OnlyRun
<1>4. ~Sane(p)' /\ unreached' \in {unreached, unreached \union {p}}
  BY <1>3 DEF Sane
<1>5. objects' = (objects \union {}) \ {} /\ fresh' = (fresh \union {}) \ {} /\ {} \in SUBSET KeysOf(p)
  BY <1>3
<1> QED
  BY <1>2, <1>3, <1>4, <1>5, RunMoves DEF Holding

LEMMA RenderKeeps ==
  ASSUME Inductive, NEW w \in Workers, Render(w)
  PROVE  Inductive'
<1>1. TypeOK /\ Running
  BY Parts
<1>2. PICK p \in Photos : work[w].photo = p /\ On(w, p)
  BY <1>1, RunTyped DEF Render
<1>3. PICK k \in {"small", "full"} :
        /\ k = "full" => work[w].phase = "small"
        /\ Runs(w, k) /\ objects' = objects \union {<<p, k>>} /\ fresh' = fresh \union {<<p, k>>}
  BY <1>2 DEF Render, Put
<1>4. /\ UNCHANGED <<row, used, aged, up, late, jobs, del, sweep, skewed, released, unreached>>
      /\ faults' \in 0 .. MaxFaults
  BY <1>1 DEF Render, OnlyRun, TypeOK
<1>5. There(p) /\ Sane(p) /\ k = "full" => <<p, "small">> \in objects
  BY <1>1, <1>2, <1>3 DEF Running, RunSound, On
<1>6. There(p) /\ Sane(p) /\ k = "full" => VariantsOf(p) \subseteq objects'
  BY <1>3, <1>5 DEF VariantsOf
<1>7. objects' = (objects \union {<<p, k>>}) \ {} /\ fresh' = (fresh \union {<<p, k>>}) \ {}
      /\ {<<p, k>>} \in SUBSET KeysOf(p) /\ {} \in SUBSET KeysOf(p)
  BY <1>3 DEF KeysOf, Kinds
<1>8. /\ k \in Holding \ {"recorded", "discarded", "permanent", "cleared"}
      /\ k = "small" => <<p, "small">> \in objects'
      /\ \A x \in Kinds : <<p, x>> \in objects => <<p, x>> \in objects'
  BY <1>3 DEF Holding
<1>9. "small" \in Kinds /\ "full" \in Kinds /\ "source" \in Kinds
  BY DEF Kinds
<1> QED
  BY <1>2, <1>3, <1>4, <1>6, <1>7, <1>8, <1>9, RunMoves DEF Sane

\* The steps of a run that touch no object.
LEMMA PassKeeps ==
  ASSUME Inductive, NEW w \in Workers, Undecodable(w) \/ Record(w)
  PROVE  Inductive'
<1>1. TypeOK /\ Running
  BY Parts
<1>2. PICK p \in Photos : work[w].photo = p /\ On(w, p)
  BY <1>1, RunTyped DEF Undecodable, Record
<1>3. PICK phase \in {"permanent", "recorded"} :
        /\ Runs(w, phase)
        /\ phase = "permanent" => p \in Bad
        /\ phase = "recorded" => p \notin Bad /\ work[w].phase = "full"
  BY <1>2 DEF Undecodable, Record
<1>4. /\ UNCHANGED <<row, used, objects, fresh, aged, up, late, jobs, del, sweep, skewed, released, unreached>>
      /\ faults' \in 0 .. MaxFaults
  BY <1>1 DEF Undecodable, Record, OnlyRun, TypeOK
<1>5. There(p) /\ Sane(p) => phase # "permanent" /\ VariantsOf(p) \subseteq objects
  BY <1>1, <1>2, <1>3 DEF Running, RunSound, On, Sane
<1>6. objects' = (objects \union {}) \ {} /\ fresh' = (fresh \union {}) \ {} /\ {} \in SUBSET KeysOf(p)
  BY <1>4
<1> QED
  BY <1>2, <1>3, <1>4, <1>5, <1>6, RunMoves DEF Holding, Sane

LEMMA DiscardKeeps ==
  ASSUME Inductive, NEW w \in Workers, Discard(w)
  PROVE  Inductive'
<1>1. TypeOK /\ Running
  BY Parts
<1>2. PICK p \in Photos : work[w].photo = p /\ On(w, p)
  BY <1>1, RunTyped DEF Discard
<1>3. PICK D \in SUBSET {<<p, "source">>} : objects' = objects \ D /\ fresh' = fresh \ D
  BY <1>2 DEF Discard, Drop
<1>4. /\ UNCHANGED <<row, used, aged, up, late, jobs, del, sweep, skewed, released, unreached>>
      /\ Runs(w, "discarded") /\ faults' \in 0 .. MaxFaults
  BY <1>1 DEF Discard, OnlyRun, TypeOK
<1>5. p \notin Bad /\ (There(p) /\ Sane(p) => VariantsOf(p) \subseteq objects)
  BY <1>1, <1>2 DEF Running, RunSound, On, Discard
<1>6. There(p) /\ Sane(p) => VariantsOf(p) \subseteq objects' /\ <<p, "full">> \in objects'
  BY <1>3, <1>5 DEF VariantsOf
<1>7. /\ \A k \in {"small", "full"} : <<p, k>> \in objects => <<p, k>> \in objects'
      /\ objects' = (objects \union {}) \ D /\ fresh' = (fresh \union {}) \ D
      /\ D \in SUBSET KeysOf(p) /\ {} \in SUBSET KeysOf(p)
  BY <1>3 DEF KeysOf, Kinds
<1> QED
  BY <1>2, <1>4, <1>5, <1>6, <1>7, RunMoves DEF Holding, Sane

LEMMA ClearKeeps ==
  ASSUME Inductive, NEW w \in Workers, Clear(w)
  PROVE  Inductive'
<1>1. TypeOK /\ Running
  BY Parts
<1>2. PICK p \in Photos : work[w].photo = p /\ On(w, p)
  BY <1>1, RunTyped DEF Clear
<1>3. PICK D \in SUBSET KeysOf(p) : /\ objects' = objects \ D /\ fresh' = fresh \ D
                                    /\ faults' \in 0 .. MaxFaults
  BY <1>1, <1>2, Dropped DEF Clear
<1>4. /\ UNCHANGED <<row, used, aged, up, late, jobs, del, sweep, skewed, released, unreached>>
      /\ Runs(w, "cleared")
  BY DEF Clear, OnlyRun
<1>5. ~(There(p) /\ Sane(p))
  BY <1>1, <1>2 DEF Running, RunSound, On, Clear
<1>6. objects' = (objects \union {}) \ D /\ fresh' = (fresh \union {}) \ D /\ {} \in SUBSET KeysOf(p)
  BY <1>3
<1> QED
  BY <1>2, <1>3, <1>4, <1>5, <1>6, RunMoves DEF Holding, Sane

\* A run begins with a job that waits, or finds nothing to do.
LEMMA ClaimKeeps ==
  ASSUME Inductive, NEW w \in Workers, NEW p \in Photos, Claim(w, p)
  PROVE  Inductive'
<1>1. TypeOK /\ PhotoSound(p)
  BY Parts DEF Photographed
<1>2. /\ work[w].phase = "idle" /\ jobs[p] > 0 /\ ~Locked(p)
      /\ UNCHANGED <<row, used, objects, fresh, aged, up, late, del, sweep, skewed, released, unreached>>
      /\ faults' \in 0 .. MaxFaults /\ objects' \subseteq Photos \X Kinds /\ fresh' \subseteq objects'
  BY <1>1 DEF Claim, OnlyRun, TypeOK
<1>3. jobs[p] \in 0 .. Attempts /\ row[p] \in RowStates /\ jobs \in [Photos -> 0 .. Attempts]
  BY <1>1 DEF TypeOK
<1>4. CASE Claimable(p) /\ jobs' = jobs
           /\ work' = [work EXCEPT ![w] = [phase |-> "claimed", photo |-> p, size |-> row[p].size,
                                           key |-> row[p].key, lost |-> FALSE]]
  <2> DEFINE q == [phase |-> "claimed", photo |-> p, size |-> row[p].size, key |-> row[p].key, lost |-> FALSE]
  <2>1. q \in RunStates
    BY <1>3 DEF RunStates, RowStates, Holding
  <2>2. q.phase = "claimed" /\ q.photo = p /\ q.size = row[p].size /\ q.key = row[p].key
    OBVIOUS
  <2>3. row[p].status \in {"pending", "failed"}
    BY <1>3, <1>4 DEF Claimable, RowStates, Statuses
  <2>4. Sane(p) => row[p].key = "source"
    <3>1. row[p].status = "failed" => ~Sane(p)
      BY <1>1, <1>2, <1>3 DEF PhotoSound, Sane
    <3> QED
      BY <1>1, <2>3, <3>1, Rows DEF PhotoSound
  <2>5. work' = [work EXCEPT ![w] = q]
    BY <1>4
  <2> HIDE DEF q
  <2>6. RunWrites(q, p, objects', Sane(p)')
    BY <1>1, <1>2, <1>3, <2>2, <2>3, <2>4 DEF RunWrites, Sane
  <2>7. jobs'[p] <= jobs[p] /\ jobs' \in [Photos -> 0 .. Attempts]
    BY <1>3, <1>4, Sizes
  <2> QED
    BY <1>2, <1>4, <2>1, <2>2, <2>5, <2>6, <2>7, PhaseStep
<1>5. CASE Done(p) /\ work' = work
  <2>1. work' = [work EXCEPT ![w] = Idle] /\ Idle.phase = "idle"
    BY <1>1, <1>2, <1>5 DEF TypeOK, RunStates, Idle, Holding
  <2>2. /\ jobs' \in [Photos -> 0 .. Attempts] /\ jobs'[p] <= jobs[p]
        /\ \A x \in Photos \ {p} : jobs'[x] = jobs[x]
    BY <1>3, <1>5, Sizes DEF Done
  <2> QED
    BY <1>2, <1>3, <2>1, <2>2, PhaseStep
<1> QED
  BY <1>4, <1>5 DEF Claim

\* A run ends with its transaction rolled back, or goes on without it.
LEMMA LostKeeps ==
  ASSUME Inductive, NEW w \in Workers, Fail(w) \/ Expire(w) \/ Notice(w)
  PROVE  Inductive'
<1>1. TypeOK /\ Running
  BY Parts
<1>2. PICK p \in Photos : work[w].photo = p /\ On(w, p)
  BY <1>1, RunTyped DEF Fail, Expire, Notice
<1>3. /\ UNCHANGED <<row, used, objects, fresh, aged, up, late, del, sweep, skewed, released, unreached>>
      /\ objects' \subseteq Photos \X Kinds /\ fresh' \subseteq objects'
  BY <1>1 DEF Fail, Expire, Notice, OnlyRun, TypeOK
<1>4. faults' \in 0 .. MaxFaults
  BY <1>1, Faulted DEF Fail, Expire, Notice, TypeOK
<1>5. /\ jobs' \in [Photos -> 0 .. Attempts] /\ jobs'[p] <= jobs[p]
      /\ \A x \in Photos \ {p} : jobs'[x] = jobs[x]
  <2>1. jobs \in [Photos -> 0 .. Attempts] /\ jobs[p] \in 0 .. Attempts
    BY <1>1 DEF TypeOK
  <2>2. Less(jobs[p], 1) \in 0 .. Attempts /\ Less(jobs[p], 1) <= jobs[p]
    BY <2>1, Sizes DEF Less
  <2>3. jobs' = jobs \/ jobs' = [jobs EXCEPT ![p] = Less(@, 1)]
    BY <1>2 DEF Fail, Expire, Notice, OneTryLess
  <2> QED
    BY <2>1, <2>2, <2>3, Sizes
<1>6. CASE Stops(w)
  <2>1. Idle \in {Idle} \union RunStates /\ Idle.phase = "idle" /\ work' = [work EXCEPT ![w] = Idle]
    BY <1>6 DEF Idle, Stops
  <2> QED
    BY <1>2, <1>3, <1>4, <1>5, <2>1, PhaseStep
<1>7. CASE work' = [work EXCEPT ![w].lost = TRUE]
  <2> DEFINE q == [work[w] EXCEPT !.lost = TRUE]
  <2>1. work[w] \in RunStates /\ work[w].photo = p
    BY <1>1, <1>2, RunTyped DEF On
  <2>2. /\ q \in RunStates /\ q.phase = work[w].phase /\ q.photo = p /\ q.key = work[w].key
        /\ q.lost = TRUE
    BY <2>1 DEF RunStates
  <2>3. work' = [work EXCEPT ![w] = q]
    BY <1>7
  <2>4. RunWrites(work[w], p, objects, Sane(p))
    BY <1>1, <1>2, RunParts DEF Running
  <2> HIDE DEF q
  <2>5. RunWrites(q, p, objects', Sane(p)')
    BY <1>3, <2>2, <2>4 DEF RunWrites, Sane
  <2>6. q.lost
    BY <2>2
  <2> QED
    BY <1>2, <1>3, <1>4, <1>5, <2>2, <2>3, <2>5, <2>6, PhaseStep
<1> QED
  BY <1>6, <1>7 DEF Fail, Expire, Notice

\* A run that ends with its commit, which it can only while it holds the row.
LEMMA CommitStep ==
  ASSUME Inductive, NEW w \in Workers, NEW p \in Photos, On(w, p), ~work[w].lost,
         UNCHANGED <<objects, fresh, aged, up, late, del, sweep, skewed, released, unreached, faults>>,
         Stops(w), Done(p),
         NEW r \in RowStates, row' = [row EXCEPT ![p] = r],
         \/ r = Shown(p) /\ p \notin Bad /\ used' = Less(used + Stored[p], work[w].size)
            /\ (Sane(p) => VariantsOf(p) \subseteq objects)
         \/ r.status = "failed" /\ r.size = 0 /\ ~Sane(p) /\ used' = Less(used, work[w].size)
  PROVE  Inductive'
<1>1. TypeOK /\ QuotaExact /\ PhotoSound(p) /\ RunSound(w) /\ Running
  BY Parts DEF Photographed, Running
<1>2. /\ row'[p] = r /\ \A x \in Photos \ {p} : row'[x] = row[x]
      /\ jobs'[p] = 0 /\ \A x \in Photos \ {p} : jobs'[x] = jobs[x]
      /\ work'[w] = Idle /\ \A v \in Workers \ {w} : work'[v] = work[v]
  BY <1>1 DEF TypeOK, Done, Stops
<1>3. /\ row[p].size = work[w].size /\ row[p].status \in {"pending", "failed"}
      /\ \A v \in Workers : On(v, p) /\ Live(v) => v = w
  BY <1>1 DEF RunSound, On
<1>4. /\ row[p].size \in Nat /\ used \in Nat /\ used' \in Nat /\ Stored[p] \in Nat
      /\ Size[p] \in Nat /\ r.size \in Nat
  <2>1. row[p].size \in Nat /\ used \in Nat /\ r.size \in Nat /\ Stored[p] \in Nat /\ Size[p] \in Nat
    BY <1>1, Sizes DEF TypeOK, RowStates
  <2>2. used' \in Nat
    BY <1>3, <2>1 DEF Less
  <2> QED
    BY <2>1, <2>2
<1>5. TypeOK'
  <2>1. row' \in [Photos -> RowStates]
    BY <1>1 DEF TypeOK
  <2>2. jobs' \in [Photos -> 0 .. Attempts]
    BY <1>1, Sizes DEF TypeOK, Done
  <2>3. work' \in [Workers -> {Idle} \union RunStates]
    BY <1>1 DEF TypeOK, Stops
  <2> QED
    BY <1>1, <1>4, <2>1, <2>2, <2>3 DEF TypeOK
<1>6. There(p) /\ ~Unrun(p) /\ up[p] \notin Unsent /\ up[p] # "unstore" /\ p \notin late /\ del[p] = {}
  BY <1>1, <1>3 DEF There, Unrun, PhotoSound
<1>7. ~Locked(p)'
  BY <1>2, <1>3 DEF Locked, On, Live, Idle
<1>8. row[p].status = "failed" => p \in released /\ ~Sane(p)
  BY <1>1, On(w, p), ~work[w].lost DEF PhotoSound, Sane, Locked
<1>9. PhotoSound(p)'
  <2>1. Sane(p)' <=> Sane(p)
    BY DEF Sane
  <2>2. Sane(p) => <<p, "full">> \in objects /\ VariantsOf(p) \subseteq objects
    <3>1. Sane(p) => VariantsOf(p) \subseteq objects
      OBVIOUS
    <3> QED
      BY <3>1 DEF VariantsOf
  <2>3. up[p] \notin {"idle", "stored", "unstore"}
    BY <1>6 DEF Unsent
  <2> QED
    BY <1>2, <1>6, <1>7, <2>1, <2>2, <2>3, Rows DEF PhotoSound, Sane
<1>10. \A v \in Workers : On(v, p)' => RunSound(v)'
  <2> SUFFICES ASSUME NEW v \in Workers, On(v, p)' PROVE RunSound(v)'
    OBVIOUS
  <2>1. v # w /\ On(v, p) /\ work'[v] = work[v] /\ work[v].lost
    BY <1>2, <1>3 DEF On, Live, Idle
  <2>2. (Sane(p)' <=> Sane(p)) /\ RunSound(v)
    BY <1>1 DEF Sane, Running
  <2> QED
    BY <1>6, <2>1, <2>2 DEF RunSound, On
<1>11. \A o \in Photos \X Kinds :
         o[1] = p /\ sweep.phase = "judged" /\ o \in sweep.doomed /\ JudgedSound(o) => JudgedSound(o)'
  BY <1>3, <1>6, <1>8 DEF JudgedSound, Sane, There
<1>12. ASSUME skewed = {} PROVE used' = used - row[p].size + row'[p].size /\ Upheld(p)' <= Upheld(p)
  <2>1. row[p].size <= used
    BY <1>1, <1>12, Counted
  <2>2. CASE r = Shown(p) /\ p \notin Bad /\ used' = Less(used + Stored[p], work[w].size)
    <3>1. row'[p].size = Stored[p]
      BY <1>2, <2>2, Rows
    <3>2. used + Stored[p] >= row[p].size /\ used + Stored[p] \in Nat
      BY <1>4, <2>1
    <3>3. used' = used + Stored[p] - row[p].size
      BY <1>3, <1>4, <2>2, <3>2 DEF Less
    <3>4. Upheld(p)' <= Upheld(p)
      <4>1. p \notin released => row[p].size = Size[p]
        BY <1>1, <1>3, <1>8, <2>2, Rows DEF PhotoSound, Sane
      <4> QED
        BY <1>4, <3>1, <4>1 DEF Upheld
    <3> QED
      BY <1>4, <3>1, <3>3, <3>4
  <2>3. CASE r.status = "failed" /\ r.size = 0 /\ used' = Less(used, work[w].size)
    <3>1. used' = used - row[p].size /\ row'[p].size = 0
      BY <1>2, <1>3, <1>4, <2>1, <2>3 DEF Less
    <3>2. Upheld(p)' <= Upheld(p)
      BY <1>4, <3>1 DEF Upheld
    <3> QED
      BY <1>4, <3>1, <3>2
  <2> QED
    BY <2>2, <2>3
<1> QED
  BY <1>2, <1>5, <1>9, <1>10, <1>11, <1>12, PhotoStep DEF On, Idle

LEMMA CommitKeeps ==
  ASSUME Inductive, NEW w \in Workers, Commit(w) \/ CommitFailed(w)
  PROVE  Inductive'
<1>1. TypeOK /\ Running
  BY Parts
<1>2. PICK p \in Photos : work[w].photo = p /\ On(w, p)
  BY <1>1, RunTyped DEF Commit, CommitFailed
<1>3. /\ ~work[w].lost /\ Stops(w) /\ Done(p) /\ RunSound(w)
      /\ UNCHANGED <<objects, fresh, aged, up, late, del, sweep, skewed, released, unreached, faults>>
  BY <1>1, <1>2 DEF Commit, CommitFailed, OnlyRun, Running
<1>4. There(p)
  BY <1>2, <1>3 DEF RunSound, On, There
<1>5. CASE Commit(w)
  <2>1. row' = [row EXCEPT ![p] = Shown(p)] /\ used' = Less(used + Stored[p], work[w].size)
        /\ work[w].phase = "discarded"
    BY <1>2, <1>5 DEF Commit, Held
  <2>2. p \notin Bad /\ (Sane(p) => VariantsOf(p) \subseteq objects)
    BY <1>2, <1>3, <1>4, <2>1 DEF RunSound
  <2> QED
    BY <1>2, <1>3, <2>1, <2>2, Rows, CommitStep
<1>6. CASE CommitFailed(w)
  <2> DEFINE r == [row[p] EXCEPT !.status = "failed", !.size = 0, !.variants = FALSE]
  <2>1. row' = [row EXCEPT ![p] = r] /\ used' = Less(used, work[w].size) /\ work[w].phase = "cleared"
    BY <1>2, <1>6 DEF CommitFailed, Held
  <2>2. row[p] \in RowStates
    BY <1>1 DEF TypeOK
  <2>3. r \in RowStates /\ r.status = "failed" /\ r.size = 0
    BY <2>2 DEF RowStates, Statuses
  <2>4. ~Sane(p)
    BY <1>2, <1>3, <1>4, <2>1 DEF RunSound
  <2> HIDE DEF r
  <2> QED
    BY <1>2, <1>3, <2>1, <2>3, <2>4, CommitStep
<1> QED
  BY <1>5, <1>6

LEMMA RunKeeps ==
  ASSUME Inductive, NEW w \in Workers, Run(w)
  PROVE  Inductive'
BY ClaimKeeps, LoadKeeps, LoadUnreachableKeeps, RenderKeeps, PassKeeps, DiscardKeeps, ClearKeeps,
   CommitKeeps, LostKeeps DEF Run

--------------------------------------------------------------------------------
(* The sweep *)

LEMMA JudgeKeeps ==
  ASSUME Inductive, Judge \/ SweepFails
  PROVE  Inductive'
<1>1. TypeOK /\ SweepSound /\ QuotaExact /\ PlanKept /\ Photographed /\ Running
  BY Parts
<1> DEFINE doomed == {o \in objects \ fresh : Orphaned(o)}
<1>2. /\ UNCHANGED <<row, used, objects, fresh, aged, up, late, jobs, work, del, skewed, released, unreached>>
      /\ faults' \in 0 .. MaxFaults
  BY <1>1, Faulted DEF Judge, SweepFails, OnlySweep, TypeOK, NoFault
<1>3. sweep' = Idle \/ sweep' = [phase |-> "judged", doomed |-> doomed]
  BY DEF Judge, SweepFails
<1>4. ASSUME NEW o \in doomed
      PROVE  o \in Photos \X Kinds /\ JudgedSound(o)
  <2>1. o \in objects \ fresh /\ Orphaned(o) /\ o \in Photos \X Kinds
    BY <1>1 DEF TypeOK
  <2>2. PICK p \in Photos, k \in Kinds : o = <<p, k>>
    BY <2>1
  <2>3. PhotoSound(p)
    BY <1>1 DEF Photographed
  <2>4. up[p] \notin {"idle", "stored"}
    BY <2>1, <2>2, <2>3, ObjectsOf DEF PhotoSound
  <2>5. There(p) /\ Sane(p) => row[p].status = "ready" /\ k = "source"
    BY <2>1, <2>2, <2>3 DEF Orphaned, There, Sane, PhotoSound
  <2> QED
    BY <2>1, <2>2, <2>4, <2>5 DEF JudgedSound
<1>5. TypeOK'
  <2>1. sweep' \in SweepStates
    <3>1. doomed \in SUBSET (Photos \X Kinds)
      BY <1>4
    <3> HIDE DEF doomed
    <3> QED
      BY <1>3, <3>1 DEF SweepStates
  <2> QED
    BY <1>1, <1>2, <2>1 DEF TypeOK
<1>6. SweepSound'
  <2>1. ASSUME sweep'.phase = "judged", NEW o \in sweep'.doomed PROVE JudgedSound(o)'
    <3>1. o \in doomed
      BY <1>3, <2>1 DEF Idle
    <3> QED
      BY <1>2, <1>4, <3>1 DEF JudgedSound, There, Sane
  <2>2. sweep'.phase # "stuck"
    BY <1>3 DEF Idle
  <2> QED
    BY <2>1, <2>2 DEF SweepSound, JudgedSound
<1>7. QuotaExact' /\ PlanKept'
  BY <1>1, <1>2 DEF QuotaExact, PlanKept, Total, Upheld
<1>8. \A p \in Photos : PhotoSound(p)'
  BY <1>1, <1>2, OtherPhoto DEF Photographed, On
<1>9. \A w \in Workers : RunSound(w)'
  BY <1>1, <1>2 DEF RunSound, Running, On, Live, There, Sane
<1> QED
  BY <1>5, <1>6, <1>7, <1>8, <1>9 DEF Inductive

\* Of a sane photo that is there, only the original goes, and once it is shown.
LEMMA CollectKeeps ==
  ASSUME Inductive, Collect
  PROVE  Inductive'
<1>1. TypeOK /\ SweepSound /\ QuotaExact /\ PlanKept /\ Photographed /\ Running
  BY Parts
<1> DEFINE read == [p \in Photos |-> IF Stuck(p) THEN row[p] ELSE NoRow]
<1>2. /\ sweep.phase = "judged" /\ objects' = objects \ sweep.doomed /\ fresh' = fresh \ sweep.doomed
      /\ sweep' = [phase |-> "stuck", read |-> read]
      /\ UNCHANGED <<row, used, aged, up, late, jobs, work, del, skewed, released, unreached, faults>>
  BY DEF Collect, Drop, OnlySweep
<1>3. /\ sweep'.phase = "stuck" /\ sweep'.read = read
      /\ \A p \in Photos : read[p] = IF Stuck(p) THEN row[p] ELSE NoRow
  BY <1>2
<1>4. \A p \in Photos : read[p] \in {NoRow, Uploaded(p)} /\ read[p] \in RowStates
  BY <1>1, <1>3, Rows DEF Stuck, Photographed, PhotoSound, TypeOK
<1>5. TypeOK'
  <2>1. read \in [Photos -> RowStates]
    BY <1>4
  <2> HIDE DEF read
  <2>2. sweep' \in SweepStates
    BY <1>2, <2>1 DEF SweepStates
  <2> QED
    BY <1>1, <1>2, <2>2 DEF TypeOK
<1>6. SweepSound'
  BY <1>3, <1>4 DEF SweepSound
<1>7. QuotaExact' /\ PlanKept'
  BY <1>1, <1>2 DEF QuotaExact, PlanKept, Total, Upheld
<1>8. ASSUME NEW p \in Photos, NEW k \in Kinds, <<p, k>> \in sweep.doomed
      PROVE  /\ up[p] \notin {"idle", "stored"}
             /\ There(p) /\ Sane(p) => row[p].status = "ready" /\ k = "source"
  BY <1>1, <1>2, <1>8 DEF SweepSound
<1>9. \A p \in Photos : PhotoSound(p)'
  <2> SUFFICES ASSUME NEW p \in Photos PROVE PhotoSound(p)'
    OBVIOUS
  <2>1. PhotoSound(p)
    BY <1>1 DEF Photographed
  <2>2. /\ Unrun(p)' <=> Unrun(p)
        /\ Locked(p)' <=> Locked(p)
        /\ There(p)' <=> There(p)
        /\ Sane(p)' <=> Sane(p)
    BY <1>2 DEF Unrun, Locked, On, There, Sane
  <2>3. Handed(p)' <=> Handed(p)
    BY <1>2, <2>2 DEF Handed
  <2>4. up[p] = "idle" => KeysOf(p) \cap objects' = {}
    BY <1>2, <2>1 DEF PhotoSound
  <2>5. up[p] = "stored" => KeysOf(p) \cap objects' \subseteq fresh' /\ <<p, "source">> \in objects'
    <3> SUFFICES ASSUME up[p] = "stored"
                 PROVE  KeysOf(p) \cap objects' \subseteq fresh' /\ <<p, "source">> \in objects'
      OBVIOUS
    <3>1. \A k \in Kinds : <<p, k>> \in objects => <<p, k>> \in fresh
      BY <2>1, ObjectsOf DEF PhotoSound
    <3>2. \A k \in Kinds : <<p, k>> \notin sweep.doomed
      BY <1>8
    <3>3. <<p, "source">> \in objects /\ "source" \in Kinds
      BY <2>1 DEF PhotoSound, Kinds
    <3>4. \A k \in Kinds : <<p, k>> \in objects' => <<p, k>> \in fresh'
      BY <1>2, <3>1, <3>2
    <3> QED
      BY <1>2, <3>2, <3>3, <3>4, ObjectsOf
  <2>6. row[p].status = "ready" /\ p \notin released \union unreached => VariantsOf(p) \subseteq objects'
    <3> SUFFICES ASSUME row[p].status = "ready", p \notin released \union unreached PROVE VariantsOf(p) \subseteq objects'
      OBVIOUS
    <3>1. There(p) /\ Sane(p) /\ <<p, "small">> \in objects /\ <<p, "full">> \in objects
      BY <2>1, ObjectsOf DEF PhotoSound, There, Sane
    <3>2. <<p, "small">> \notin sweep.doomed /\ <<p, "full">> \notin sweep.doomed
      BY <1>8, <3>1 DEF Kinds
    <3> QED
      BY <1>2, <3>1, <3>2, ObjectsOf
  <2>7. There(p) /\ Sane(p) /\ Handed(p) => <<p, "source">> \in objects' \/ <<p, "full">> \in objects'
    <3> SUFFICES ASSUME There(p), Sane(p), Handed(p)
                 PROVE  <<p, "source">> \in objects' \/ <<p, "full">> \in objects'
      OBVIOUS
    <3>1. CASE row[p].status = "ready"
      BY <2>6, <3>1, ObjectsOf DEF Sane
    <3>2. CASE row[p].status # "ready"
      <4>1. <<p, "source">> \notin sweep.doomed /\ <<p, "full">> \notin sweep.doomed
        BY <1>8, <3>2 DEF Kinds
      <4> QED
        BY <1>2, <2>1, <4>1 DEF PhotoSound
    <3> QED
      BY <3>1, <3>2
  <2> QED
    BY <1>2, <2>1, <2>2, <2>3, <2>4, <2>5, <2>6, <2>7 DEF PhotoSound
<1>10. \A w \in Workers : RunSound(w)'
  <2> SUFFICES ASSUME NEW w \in Workers, work[w].phase # "idle" PROVE RunSound(w)'
    BY <1>2 DEF RunSound
  <2>1. PICK p \in Photos : work[w].photo = p
    BY <1>1, RunTyped
  <2>2. RunSound(w)
    BY <1>1 DEF Running
  <2>3. /\ There(p)' <=> There(p)
        /\ Sane(p)' <=> Sane(p)
        /\ \A v \in Workers : (On(v, p)' <=> On(v, p)) /\ (Live(v)' <=> Live(v))
    BY <1>2 DEF On, Live, There, Sane
  <2>4. There(p) /\ Sane(p) =>
          \A k \in {"small", "full"} : <<p, k>> \in objects => <<p, k>> \in objects'
    BY <1>2, <1>8 DEF Kinds
  <2>5. There(p) /\ Sane(p) /\ VariantsOf(p) \subseteq objects => VariantsOf(p) \subseteq objects'
    BY <2>4 DEF VariantsOf
  <2> QED
    BY <1>2, <2>1, <2>2, <2>3, <2>4, <2>5 DEF RunSound
<1> QED
  BY <1>5, <1>6, <1>7, <1>9, <1>10 DEF Inductive

\* What the rows lose by a release is what had been read of them, unless one
\* has changed in between.
LEMMA ReleaseCounted ==
  ASSUME TypeOK, SweepSound, QuotaExact, PlanKept, TypeOK', Release
  PROVE  QuotaExact' /\ PlanKept'
<1> SUFFICES ASSUME skewed' = {}
             PROVE  used' = Total' /\ SumOver(Upholds)' <= Limit
  BY Zenon DEF QuotaExact, PlanKept, Upholds
<1> DEFINE read == [p \in Photos |-> sweep.read[p].size]
<1>1. /\ skewed = {} /\ \A p \in Abandoned : row[p] = sweep.read[p]
      /\ released' = released \union Abandoned
      /\ row' = [p \in Photos |-> IF p \in Abandoned
                                  THEN [row[p] EXCEPT !.status = "failed", !.size = 0] ELSE row[p]]
      /\ used' = Less(used, SumOver(read)) /\ sweep.phase = "stuck"
  BY DEF Release
<1>2. \A p \in Photos : row[p] \in RowStates /\ row[p].size \in Nat
  BY DEF TypeOK, RowStates
<1>3. \A p \in Photos : /\ p \in Abandoned => row'[p].size = 0 /\ read[p] = row[p].size
                        /\ p \notin Abandoned => row'[p] = row[p] /\ read[p] = 0
  BY <1>1, <1>2, Rows DEF Abandoned, RowStates
<1>4. read \in [Photos -> Nat] /\ read \in [Photos -> Int]
  BY <1>2, <1>3
<1> HIDE DEF read
<1>5. Weights \in [Photos -> Nat] /\ SumOver(Weights) \in Nat /\ used = SumOver(Weights)
  BY <1>1, Counted
<1>6. Weights' \in [Photos -> Nat] /\ Weights' \in [Photos -> Int]
      /\ \A p \in Photos : Weights'[p] = row'[p].size /\ Weights[p] = row[p].size
  BY <1>2, <1>3 DEF Weights
<1>7. [p \in Photos |-> Weights'[p] + read[p]] = Weights
  BY <1>2, <1>3, <1>4, <1>5, <1>6
<1>8. SumOver(Weights) = SumOver(Weights') + SumOver(read)
  <2>1. SumOver([p \in Photos |-> Weights'[p] + read[p]]) = SumOver(Weights') + SumOver(read)
    BY <1>4, <1>6, Sizes, SumPlus, Zenon
  <2> QED
    BY <1>7, <2>1
<1>9. SumOver(Weights') \in Nat /\ SumOver(read) \in Nat
  BY <1>4, <1>6, Sizes, SumNat, Zenon
<1>10. used' = SumOver(Weights')
  <2>1. used' = Less(used, SumOver(read))
    BY <1>1
  <2>2. SumOver(Weights) >= SumOver(read) /\ SumOver(Weights) - SumOver(read) = SumOver(Weights')
    BY <1>8, <1>9
  <2> QED
    BY <1>5, <2>1, <2>2, Zenon DEF Less
<1>11. \A p \in Photos : /\ Upheld(p) \in Nat /\ Upheld(p)' \in Nat
                         /\ Upheld(p)' <= Upheld(p)
  <2> SUFFICES ASSUME NEW p \in Photos
               PROVE  Upheld(p) \in Nat /\ Upheld(p)' \in Nat /\ Upheld(p)' <= Upheld(p)
    OBVIOUS
  <2>1. row[p].size \in Nat /\ Size[p] \in Nat /\ Upheld(p) \in Nat
    BY <1>2, Sizes DEF Upheld
  <2>2. CASE p \in Abandoned
    <3>1. p \in released'
      BY <1>1, <2>2
    <3>2. Upheld(p)' = 0
      BY <3>1 DEF Upheld
    <3> QED
      BY <2>1, <3>2
  <2>3. CASE p \notin Abandoned
    <3>1. (p \in released' <=> p \in released) /\ row'[p].size = row[p].size
      BY <1>1, <1>3, <2>3
    <3>2. Upheld(p)' = Upheld(p)
      BY <3>1 DEF Upheld
    <3> QED
      BY <2>1, <3>2
  <2> QED
    BY <2>2, <2>3
<1>12. /\ Upholds \in [Photos -> Int] /\ Upholds' \in [Photos -> Int]
       /\ \A p \in Photos : Upholds'[p] <= Upholds[p]
  BY <1>11 DEF Upholds
<1>13. SumOver(Upholds') <= SumOver(Upholds)
  BY <1>12, Sizes, SumLe, Zenon
<1>14. SumOver(Upholds') \in Int /\ SumOver(Upholds) \in Int
  BY <1>12, Sizes, SumInt, Zenon
<1>15. SumOver(Upholds) <= Limit
  BY <1>1, Zenon DEF PlanKept, Upholds
<1>16. SumOver(Upholds') <= Limit
  BY <1>13, <1>14, <1>15, Sizes
<1> QED
  BY <1>10, <1>16, Zenon DEF Total, Weights

\* An abandoned row becomes failed and is released; no run holds it, and one
\* that lost it has nothing more to keep.
LEMMA ReleaseKeeps ==
  ASSUME Inductive, Release
  PROVE  Inductive'
<1>1. TypeOK /\ SweepSound /\ QuotaExact /\ PlanKept /\ Photographed /\ Running
  BY Parts
<1>2. /\ sweep.phase = "stuck" /\ Abandoned \subseteq Photos
      /\ \A p \in Abandoned : ~Locked(p) /\ row[p].status # "none"
      /\ row' = [p \in Photos |-> IF p \in Abandoned
                                  THEN [row[p] EXCEPT !.status = "failed", !.size = 0] ELSE row[p]]
      /\ used' = Less(used, SumOver([p \in Photos |-> sweep.read[p].size]))
      /\ skewed' = skewed \union {p \in Abandoned : row[p] # sweep.read[p]}
      /\ released' = released \union Abandoned
      /\ sweep' = Idle
      /\ UNCHANGED <<objects, fresh, aged, up, late, jobs, work, del, unreached, faults>>
  BY DEF Release, OnlySweep, Abandoned
<1>3. \A p \in Photos : row[p] \in RowStates
  BY <1>1 DEF TypeOK
<1>4. \A p \in Photos :
        /\ p \in Abandoned => /\ row'[p].status = "failed" /\ row'[p].size = 0
                              /\ row'[p] \in RowStates /\ p \in released'
        /\ p \notin Abandoned => row'[p] = row[p] /\ (p \in released' <=> p \in released)
  BY <1>2, <1>3 DEF RowStates, Statuses
<1>5. TypeOK'
  <2>1. row' \in [Photos -> RowStates]
    BY <1>2, <1>3, <1>4
  <2>2. used' \in Nat
    <3> DEFINE read == [p \in Photos |-> sweep.read[p].size]
    <3>1. read \in [Photos -> Nat]
      <4>1. \A p \in Photos : sweep.read[p] \in {NoRow, Uploaded(p)}
        BY <1>1, <1>2 DEF SweepSound
      <4>2. \A p \in Photos : sweep.read[p].size \in Nat
        BY <4>1, Rows DEF RowStates
      <4> QED
        BY <4>2
    <3>2. used' = Less(used, SumOver(read))
      BY <1>2
    <3> HIDE DEF read
    <3>3. SumOver(read) \in Nat
      BY <3>1, Sizes, SumNat, Zenon
    <3>4. used \in Nat
      BY <1>1 DEF TypeOK
    <3> QED
      BY <3>2, <3>3, <3>4, Clamped
  <2>3. skewed' \subseteq Photos /\ released' \subseteq Photos /\ sweep' \in SweepStates
    BY <1>1, <1>2 DEF TypeOK, SweepStates
  <2> QED
    BY <1>1, <1>2, <2>1, <2>2, <2>3 DEF TypeOK
<1>6. SweepSound'
  BY <1>2 DEF SweepSound, Idle
<1>7. QuotaExact' /\ PlanKept'
  BY <1>1, <1>5, ReleaseCounted
<1>8. ASSUME NEW p \in Photos PROVE PhotoSound(p)'
  <2>1. PhotoSound(p)
    BY <1>1 DEF Photographed
  <2>2. CASE p \in Abandoned
    <3>1. row[p].status # "none" /\ row'[p].status = "failed" /\ row'[p].size = 0 /\ p \in released'
      BY <1>2, <1>4, <2>2
    <3>2. ~Sane(p)' /\ (Unrun(p)' <=> Unrun(p))
      BY <1>2, <3>1 DEF Sane, Unrun, On
    <3> QED
      BY <1>2, <2>1, <3>1, <3>2 DEF PhotoSound
  <2>3. CASE p \notin Abandoned
    <3>1. row'[p] = row[p] /\ (p \in released => p \in released')
      BY <1>4, <2>3
    <3> QED
      BY <1>2, <2>1, <3>1, OtherPhoto DEF On
  <2> QED
    BY <2>2, <2>3
<1>9. ASSUME NEW w \in Workers PROVE RunSound(w)'
  <2>1. RunSound(w)
    BY <1>1 DEF Running
  <2>2. CASE work[w].phase = "idle"
    BY <1>2, <2>2 DEF RunSound
  <2>3. CASE work[w].phase # "idle"
    <3>1. PICK p \in Photos : work[w].photo = p /\ On(w, p)
      BY <1>1, <2>3, RunTyped
    <3>2. CASE p \in Abandoned
      <4>1. work[w].lost /\ ~Sane(p)'
        BY <1>2, <1>4, <3>1, <3>2 DEF Locked, Sane
      <4> QED
        BY <1>2, <2>1, <2>3, <3>1, <4>1 DEF RunSound
    <3>3. CASE p \notin Abandoned
      <4>1. row'[p] = row[p] /\ (p \in released => p \in released')
        BY <1>4, <3>3
      <4> QED
        BY <1>1, <1>2, <2>1, <3>1, <4>1, OtherRun DEF On
    <3> QED
      BY <3>2, <3>3
  <2> QED
    BY <2>2, <2>3
<1> QED
  BY <1>5, <1>6, <1>7, <1>8, <1>9 DEF Inductive

--------------------------------------------------------------------------------
(* The theorems *)

LEMMA InitHolds == Init => Inductive
<1> SUFFICES ASSUME Init PROVE Inductive
  OBVIOUS
<1>1. \A p \in Photos : row[p] = NoRow /\ row[p].size = 0 /\ row[p].status = "none" /\ up[p] = "idle"
                        /\ jobs[p] = 0 /\ del[p] = {}
  BY Rows DEF Init
<1>2. \A w \in Workers : work[w].phase = "idle"
  BY DEF Init, Idle
<1>3. TypeOK
  BY Rows, Sizes DEF Init, TypeOK, SweepStates
<1>4. SweepSound
  BY DEF Init, SweepSound, Idle
<1> DEFINE zero == [p \in Photos |-> 0]
<1>5. Weights = zero /\ Upholds = zero /\ zero \in [Photos -> Int]
  <2>1. \A p \in Photos : Upheld(p) = 0
    BY <1>1, Sizes DEF Upheld
  <2> QED
    BY <1>1, <2>1 DEF Weights, Upholds
<1>6. SumOver(zero) = 0
  <2>1. [p \in Photos |-> zero[p] + zero[p]] = zero
    OBVIOUS
  <2> HIDE DEF zero
  <2>2. SumOver(zero) \in Int
    BY <1>5, Sizes, SumInt, Zenon
  <2>3. SumOver([p \in Photos |-> zero[p] + zero[p]]) = SumOver(zero) + SumOver(zero)
    BY <1>5, Sizes, SumPlus, Zenon
  <2>4. SumOver(zero) = SumOver(zero) + SumOver(zero)
    BY <2>1, <2>3, Zenon
  <2>5. \A n \in Int : n = n + n => n = 0
    OBVIOUS
  <2> QED
    BY <2>2, <2>4, <2>5, Zenon
<1>7. SumOver(Weights) = 0 /\ SumOver(Upholds) = 0 /\ used = 0
  BY <1>5, <1>6 DEF Init
<1>8. Total = SumOver(Weights) /\ SumOver([p \in Photos |-> Upheld(p)]) = SumOver(Upholds)
  BY Zenon DEF Total, Weights, Upholds
<1>9. QuotaExact /\ PlanKept
  BY <1>7, <1>8, Sizes DEF QuotaExact, PlanKept
<1>10. \A p \in Photos : PhotoSound(p)
  BY <1>1, <1>2, Rows DEF PhotoSound, Init, Unrun, On, There
<1>11. \A w \in Workers : RunSound(w)
  BY <1>2 DEF RunSound
<1> QED
  BY <1>3, <1>4, <1>9, <1>10, <1>11 DEF Inductive

LEMMA NextKeeps == Inductive /\ [Next]_vars => Inductive'
<1> SUFFICES ASSUME Inductive, [Next]_vars PROVE Inductive'
  OBVIOUS
<1>1. ASSUME NEW p \in Photos, Upload(p) PROVE Inductive'
  BY <1>1, AdmitKeeps, ReserveKeeps, ReserveRefusedKeeps, UndoKeeps, EnqueueKeeps, RollbackKeeps,
     GiveUpKeeps DEF Upload
<1>2. ASSUME NEW p \in Photos, LateEnqueue(p) \/ Delete(p) \/ DeleteObjects(p) \/ Day(p) PROVE Inductive'
  BY <1>2, LateEnqueueKeeps, DeleteKeeps, DeleteObjectsKeeps, TimeKeeps
<1>3. CASE Sweep
  BY <1>3, JudgeKeeps, CollectKeeps, ReleaseKeeps DEF Sweep
<1>4. CASE UNCHANGED vars
  BY <1>4 DEF vars, Inductive, TypeOK, SweepSound, QuotaExact, PlanKept, Total, PhotoSound, RunSound,
     Upheld, There, Sane, Live, On, Unrun, Handed, Locked
<1> QED
  BY <1>1, <1>2, <1>3, <1>4, RunKeeps, TimeKeeps DEF Next

\* Every state of a tenant's media keeps its types, its rows and runs are
\* sound, the counter is right and the plan is kept, outside the named windows.
THEOREM InductiveHolds == Spec => []Inductive
BY InitHolds, NextKeeps, PTL DEF Spec

\* The storage counter is the sum of the rows, whatever uploads, runs, deletes
\* and sweeps overlap, outside the two windows that skewed names.
THEOREM QuotaExactHolds == Spec => []QuotaExact
<1>1. Inductive => QuotaExact
  BY DEF Inductive
<1> QED
  BY <1>1, InductiveHolds, PTL

\* What the rows hold stays within the plan, though uploads race.
THEOREM QuotaHeldHolds == Spec => []QuotaHeld
<1>1. Inductive => QuotaHeld
  <2> SUFFICES ASSUME Inductive, skewed = {},
                      \A p \in Photos : row[p].size <= IF p \in released THEN 0 ELSE Size[p]
               PROVE  Total <= Limit
    BY DEF QuotaHeld
  <2>1. TypeOK /\ PlanKept
    BY Parts
  <2>2. \A p \in Photos : Upheld(p) = row[p].size
    <3> SUFFICES ASSUME NEW p \in Photos PROVE Upheld(p) = row[p].size
      OBVIOUS
    <3>1. row[p].size \in Nat
      BY <2>1 DEF TypeOK, RowStates
    <3> QED
      BY <3>1 DEF Upheld
  <2>3. [p \in Photos |-> Upheld(p)] = [p \in Photos |-> row[p].size]
    BY <2>2
  <2> QED
    BY <2>1, <2>3 DEF PlanKept, Total
<1> QED
  BY <1>1, InductiveHolds, PTL

\* A shown photo has its delivery files, unless the sweep had released it or
\* an outage has hidden its full.webp from a run after the original was gone.
THEOREM ReadyIsStoredHolds == Spec => []ReadyIsStored
<1>1. Inductive => ReadyIsStored
  BY DEF Inductive, ReadyIsStored, PhotoSound
<1> QED
  BY <1>1, InductiveHolds, PTL

\* An accepted photo that can be decoded is neither declared failed nor without
\* a usable copy, until it is abandoned for a day or deleted, or an outage has
\* hidden its full.webp from a run after the original was gone.
THEOREM AcceptedKeptHolds == Spec => []AcceptedKept
<1>1. Inductive => AcceptedKept
  BY DEF Inductive, AcceptedKept, Kept, PhotoSound, There, Sane, Handed
<1> QED
  BY <1>1, InductiveHolds, PTL

\* A shown photo stays shown until it is deleted; only the release that had
\* read it as abandoned takes it away.
THEOREM ShownStaysHolds == Spec => ShownStays
<1> DEFINE Stays == \A p \in Photos : row[p].status = "ready" =>
                      row'[p].status \in {"ready", "none"} \/ p \in skewed'
<1>1. Inductive /\ [Next]_vars => Stays
  <2> SUFFICES ASSUME Inductive, [Next]_vars, NEW p \in Photos, row[p].status = "ready"
               PROVE  row'[p].status \in {"ready", "none"} \/ p \in skewed'
    OBVIOUS
  <2>1. TypeOK /\ SweepSound /\ Photographed /\ Running
    BY Parts
  <2>2. CASE row' = row
    BY <2>2
  <2>3. ASSUME NEW x \in Photos, row' = [row EXCEPT ![x] = NoRow]
        PROVE  row'[p].status \in {"ready", "none"}
    BY <2>1, <2>3, Rows DEF TypeOK
  <2>4. ASSUME NEW x \in Photos, Reserve(x) PROVE row'[p].status = "ready"
    <3>1. row[x].status = "none" /\ row' = [row EXCEPT ![x] = Uploaded(x)]
      BY <2>1, <2>4 DEF Reserve, Photographed, PhotoSound
    <3> QED
      BY <2>1, <3>1 DEF TypeOK
  <2>5. ASSUME NEW w \in Workers, Commit(w) \/ CommitFailed(w) PROVE row'[p].status = "ready"
    <3>1. row[work[w].photo].status # "ready"
      BY <2>1, <2>5 DEF Commit, CommitFailed, Running, RunSound
    <3> QED
      BY <2>1, <2>5, <3>1 DEF Commit, CommitFailed, TypeOK
  <2>6. CASE Release
    <3>1. sweep.phase = "stuck" /\ sweep.read[p] \in {NoRow, Uploaded(p)}
      BY <2>1, <2>6 DEF Release, SweepSound
    <3>2. p \in Abandoned => row[p] # sweep.read[p]
      BY <3>1, Rows DEF Abandoned
    <3> QED
      BY <2>1, <2>6, <3>2 DEF Release, TypeOK
  <2>7. ASSUME NEW w \in Workers, Run(w)
        PROVE  row' = row \/ Commit(w) \/ CommitFailed(w)
    BY <2>7 DEF Run, Claim, Load, LoadUnreachable, Render, Undecodable, Record, Discard, Clear, Fail, Expire, Notice
  <2>8. ASSUME NEW x \in Photos, Upload(x) \/ LateEnqueue(x) \/ Delete(x) \/ DeleteObjects(x) \/ Day(x)
        PROVE  row' = row \/ Reserve(x) \/ row' = [row EXCEPT ![x] = NoRow]
    BY <2>8 DEF Upload, Admit, ReserveRefused, Undo, Enqueue, Rollback, RollbackFails, RollbackObject,
       UploadCrash, OnlyUpload, LateEnqueue, Delete, DeleteObjects, Day
  <2>9. Sweep => row' = row \/ Release
    BY DEF Sweep, Judge, Collect, SweepFails
  <2>10. \A o \in Photos \X Kinds : Hour(o) => row' = row
    BY DEF Hour
  <2> QED
    BY <2>2, <2>3, <2>4, <2>5, <2>6, <2>7, <2>8, <2>9, <2>10 DEF Next, vars
<1>2. Spec => [][Stays]_vars
  BY <1>1, InductiveHolds, PTL DEF Spec
<1> QED
  BY <1>2 DEF ShownStays
================================================================================
