----------------------------- MODULE AccountProofs -----------------------------
(***************************************************************************)
(* Proofs about Account, for every set of handlers, every bound and every  *)
(* length of a period and of the retention.                                *)
(***************************************************************************)
EXTENDS Account, TLAPS

USE DEF clock, row, queue, faults, history

\* What a handler writes into a date is a day.
LEMMA DaysAdd ==
  /\ 1 + Period \in Nat
  /\ \A d \in Nat : d + 1 \in Nat /\ d + Period \in Nat /\ d + Retention \in Nat
  BY AccountAssumption

\* The parts of a handler's record that a step rewrites keep their types.
LEMMA ProcTyped ==
  ASSUME TypeOK, NEW p \in Procs, NEW pc \in Pcs
  PROVE  /\ Goto(p, pc) => proc' \in [Procs -> ProcStates]
         /\ Done(p) => proc' \in [Procs -> ProcStates]
  BY DEF TypeOK, ProcStates, Goto, Done, Idle, Pcs, Jobs

\* Starting a handler gives it a typed record and takes only its own job.
LEMMA BeginTyped ==
  ASSUME TypeOK, NEW p \in Procs, NEW to \in ProcStates,
         NEW x, ByRequest(p, x, to) \/ (x \in Jobs /\ ByJob(p, x, to))
  PROVE  proc' \in [Procs -> ProcStates] /\ jobs' \subseteq Jobs /\ failed' \subseteq Retained
  BY DEF TypeOK, ByRequest, ByJob, ProcStates

\* Every action keeps every variable in its type: the handlers that start ...
LEMMA BeginTypes == ASSUME TypeOK, NEW p \in Procs, Begin(p) PROVE TypeOK'
<1> USE AccountAssumption
<1> SUFFICES ASSUME UNCHANGED <<clock, row, gens, objects, faults, history>>
             PROVE  /\ proc' \in [Procs -> ProcStates]
                    /\ jobs' \subseteq Jobs
                    /\ failed' \subseteq Retained
  BY DEF TypeOK, Begin, BeginSuspend, BeginReactivate, BeginExtend, BeginExtendRetention,
         BeginReissue, BeginExport, BeginPurge
<1> DEFINE At(pc) == [Idle EXCEPT !.pc = pc]
<1>1. \A pc \in Pcs : At(pc) \in ProcStates
  BY DEF Idle, ProcStates
<1>2. sub.key \in Nat /\ sub.gen \in Nat /\ sub.opened \in Nat /\ sub.periodEnd \in Nat
      /\ sub.retention \in Nat /\ day \in Nat
  BY DEF TypeOK, SubRows
<1> USE BeginTyped DEF Pcs, Writing, Building, Jobs
<1>3. CASE BeginSuspend(p)
  BY <1>1, <1>3 DEF BeginSuspend
<1>4. CASE BeginReactivate(p)
  <2>1. [Idle EXCEPT !.pc = "reactivate", !.key = sub.key] \in ProcStates
    BY <1>2 DEF Idle, ProcStates
  <2> QED
    BY <1>4, <2>1 DEF BeginReactivate
<1>5. CASE BeginExtend(p)
  <2>1. [Idle EXCEPT !.pc = "extend", !.base = sub.periodEnd] \in ProcStates
    BY <1>2 DEF Idle, ProcStates
  <2> QED
    BY <1>5, <2>1 DEF BeginExtend
<1>6. CASE BeginExtendRetention(p)
  <2>1. [Idle EXCEPT !.pc = "extendRetention",
                     !.base = IF sub.retention = 0 THEN day ELSE sub.retention] \in ProcStates
    BY <1>2 DEF Idle, ProcStates
  <2> QED
    BY <1>6, <2>1 DEF BeginExtendRetention
<1>7. CASE BeginReissue(p)
  <2>1. [Idle EXCEPT !.pc = "reissue", !.gen = sub.gen, !.key = sub.key] \in ProcStates
    BY <1>2 DEF Idle, ProcStates
  <2> QED
    BY <1>7, <2>1 DEF BeginReissue
<1>8. CASE BeginExport(p)
  <2>1. [Idle EXCEPT !.pc = IF sub.key = 0 THEN "read" ELSE "announceCheck",
                     !.gen = sub.gen, !.opened = sub.opened] \in ProcStates
    BY <1>2 DEF Idle, ProcStates
  <2> QED
    BY <1>8, <2>1 DEF BeginExport
<1>9. CASE BeginPurge(p)
  BY <1>1, <1>9 DEF BeginPurge
<1> QED
  BY <1>3, <1>4, <1>5, <1>6, <1>7, <1>8, <1>9 DEF Begin

\* ... those that go on ...
LEMMA StepTypes == ASSUME TypeOK, NEW p \in Procs, Step(p) PROVE TypeOK'
<1> USE AccountAssumption
<1>1. Done(p) => proc' \in [Procs -> ProcStates]
  BY ProcTyped DEF Pcs
<1>2. \A pc \in Pcs : Goto(p, pc) => proc' \in [Procs -> ProcStates]
  BY ProcTyped
<1>3. \A pc \in Pcs \ {"idle"} : Goto(p, pc) \/ Done(p) => proc' \in [Procs -> ProcStates]
  BY <1>1, <1>2
<1>4. proc[p] \in ProcStates
  BY DEF TypeOK
<1>5. proc[p].gen \in Nat /\ proc[p].opened \in Nat /\ proc[p].key \in Nat /\ proc[p].base \in Nat
  BY <1>4 DEF ProcStates
<1>6. NoRow \in SubRows /\ sub \in SubRows
  BY DEF TypeOK, SubRows, NoRow
<1> USE <1>1, <1>3 DEF Pcs, Writing, Building
<1>7. CASE CommitSuspend(p)
  <2>1. sub' \in SubRows
    <3>1. day \in Nat /\ gens + 1 \in Nat /\ day + Retention \in Nat
      BY DaysAdd DEF TypeOK
    <3> QED
      BY <1>6, <1>7, <3>1 DEF CommitSuspend, SubRows
  <2>2. recent' \in BOOLEAN /\ shared' \in BOOLEAN /\ raced' \in BOOLEAN
    BY <1>7 DEF CommitSuspend
  <2>3. proc' \in [Procs -> ProcStates]
    BY <1>7 DEF CommitSuspend
  <2> QED
    BY <1>7, <2>1, <2>2, <2>3 DEF CommitSuspend, TypeOK
<1>8. CASE Schedule(p)
  BY <1>8 DEF Schedule, TypeOK, Jobs
<1>9. CASE CommitReactivate(p)
  <2>1. sub' \in SubRows
    <3>1. day + Period \in Nat
      BY DaysAdd DEF TypeOK
    <3> QED
      BY <1>6, <1>9, <3>1 DEF CommitReactivate, SubRows, NoRow
  <2>2. raced' \in BOOLEAN
    BY <1>9 DEF CommitReactivate
  <2>3. proc' \in [Procs -> ProcStates]
    BY <1>9 DEF CommitReactivate
  <2> QED
    BY <1>9, <2>1, <2>2, <2>3 DEF CommitReactivate, TypeOK
<1>10. CASE Discard(p) \/ TakeBack(p)
  <2>1. objects' \subseteq Nat /\ lost' \subseteq Nat
    BY <1>5, <1>10 DEF Discard, TakeBack, Remove, TypeOK
  <2> QED
    BY <1>10, <2>1 DEF Discard, TakeBack, TypeOK
<1>11. CASE CommitExtend(p) \/ CommitExtendRetention(p)
  <2>1. sub' \in SubRows
    BY <1>5, <1>6, <1>11 DEF CommitExtend, CommitExtendRetention, SubRows
  <2> QED
    BY <1>11, <2>1 DEF CommitExtend, CommitExtendRetention, TypeOK
<1>12. CASE CommitReissue(p)
  BY <1>5, <1>12 DEF CommitReissue, TypeOK
<1>13. CASE ReadPhase(p) \/ BuildFails(p)
  BY <1>13 DEF ReadPhase, BuildFails, TypeOK, Retained
<1>14. CASE Put(p) \/ StampCheck(p)
  BY <1>5, <1>14 DEF Put, StampCheck, TypeOK
<1>15. CASE Stamp(p)
  <2>1. sub' \in SubRows /\ made' \subseteq Nat
    BY <1>5, <1>6, <1>15 DEF Stamp, SubRows, TypeOK
  <2> QED
    BY <1>15, <2>1 DEF Stamp, TypeOK
<1>16. CASE AnnounceCheck(p)
  BY <1>16 DEF AnnounceCheck, TypeOK
<1>17. CASE Announce(p)
  BY <1>5, <1>17 DEF Announce, TypeOK
<1>18. CASE Quiesce(p)
  <2>1. raced' \in BOOLEAN
    BY <1>18 DEF Quiesce
  <2> QED
    BY <1>18, <2>1 DEF Quiesce, TypeOK
<1>19. CASE Drain(p) \/ SweepPrefix(p)
  BY <1>19 DEF Drain, SweepPrefix, TypeOK
<1>20. CASE Delete(p)
  BY <1>6, <1>20 DEF Delete, TypeOK
<1>21. CASE Abandon(p)
  BY <1>21 DEF Abandon, TypeOK
<1> QED
  BY <1>7, <1>8, <1>9, <1>10, <1>11, <1>12, <1>13, <1>14, <1>15, <1>16, <1>17, <1>18,
     <1>19, <1>20, <1>21 DEF Step

\* ... and the rest.
LEMMA TypeInductive == TypeOK /\ [Next]_vars => TypeOK'
<1> SUFFICES ASSUME TypeOK, [Next]_vars PROVE TypeOK'
  OBVIOUS
<1> USE AccountAssumption
<1>1. CASE \E p \in Procs : Begin(p) \/ Step(p)
  BY <1>1, BeginTypes, StepTypes
<1>2. CASE \E p \in Procs : Crash(p)
  <2>1. PICK p \in Procs : Crash(p)
    BY <1>2
  <2>2. proc' \in [Procs -> ProcStates]
    BY <2>1, ProcTyped DEF Crash, Pcs
  <2>3. Orphaned(p) \subseteq Nat
    BY DEF Orphaned, TypeOK, ProcStates
  <2>4. jobs' \subseteq Jobs /\ failed' \subseteq Retained
    BY <2>1 DEF Crash, TypeOK, Retained
  <2>5. sub' = sub /\ alert' = alert /\ raced' = raced /\ shared' = shared
    BY <2>1 DEF Crash
  <2>6. sub' \in SubRows /\ alert' \in BOOLEAN /\ raced' \in BOOLEAN /\ shared' \in BOOLEAN
    BY <2>5 DEF TypeOK
  <2>7. /\ day' \in Nat /\ recent' \in BOOLEAN
        /\ state' \in {"active", "suspended", "purging", "gone"}
        /\ gens' \in Nat
    BY <2>1 DEF Crash, TypeOK
  <2>8. /\ objects' \subseteq Nat /\ made' \subseteq Nat
        /\ told' \subseteq Nat /\ days' \subseteq Nat
    BY <2>1 DEF Crash, TypeOK
  <2>9. lost' \subseteq Nat /\ crashes' \in Nat
    <3>1. lost' = lost \cup Orphaned(p) /\ crashes' = crashes + 1
      BY <2>1 DEF Crash
    <3> QED
      BY <2>3, <3>1, DaysAdd DEF TypeOK
  <2>10. unsaid' \subseteq Nat
    <3>1. unsaid \subseteq Nat /\ proc[p].gen \in Nat
      BY DEF TypeOK, ProcStates
    <3>2. unsaid' \in {unsaid, unsaid \cup {proc[p].gen}}
      BY <2>1 DEF Crash
    <3> QED
      BY <3>1, <3>2
  <2> QED
    BY <2>2, <2>4, <2>6, <2>7, <2>8, <2>9, <2>10, Zenon DEF TypeOK
<1>3. CASE (\E j \in Jobs : Sweep(j)) \/ Rebuild \/ Verify \/ DropJob \/ Forget
  BY <1>3 DEF Sweep, Rebuild, Verify, DropJob, Forget, TypeOK, Jobs
<1>6. CASE VerifyFails
  <2>1. crashes' \in Nat
    BY <1>6, DaysAdd DEF VerifyFails, TypeOK
  <2>2. jobs' \subseteq Jobs /\ failed' \subseteq Retained
    BY <1>6 DEF VerifyFails, TypeOK, Retained
  <2> QED
    BY <1>6, <2>1, <2>2 DEF VerifyFails, TypeOK
<1>4. CASE WindowCloses \/ NextDay
  <2>1. recent' \in BOOLEAN
    BY <1>4 DEF WindowCloses, NextDay
  <2>2. CASE WindowCloses
    BY <2>1, <2>2 DEF WindowCloses, TypeOK
  <2>3. CASE NextDay
    BY <2>1, <2>3 DEF NextDay, TypeOK
  <2> QED
    BY <1>4, <2>2, <2>3
<1>5. CASE UNCHANGED vars
  BY <1>5 DEF TypeOK, vars
<1> QED
  BY <1>1, <1>2, <1>3, <1>4, <1>5, <1>6 DEF Next

LEMMA InitTyped == Init => TypeOK
<1> SUFFICES ASSUME Init PROVE TypeOK
  OBVIOUS
<1>1. sub \in SubRows
  BY DaysAdd DEF Init, SubRows, NoRow
<1>2. Idle \in ProcStates
  BY DEF ProcStates, Idle, Pcs
<1>3. recent \in BOOLEAN /\ alert \in BOOLEAN /\ shared \in BOOLEAN /\ raced \in BOOLEAN
  BY DEF Init
<1> QED
  BY <1>1, <1>2, <1>3 DEF Init, TypeOK

\* The type invariant holds of every behaviour.
THEOREM TypeCorrect == Spec => []TypeOK
  BY InitTyped, TypeInductive, PTL DEF Spec

--------------------------------------------------------------------------------
(* The inductive invariant, part by part *)

\* A handler that starts was idle, and changes nothing but its own record.
LEMMA BeginFrame ==
  ASSUME TypeOK, NEW p \in Procs, Begin(p)
  PROVE  /\ UNCHANGED <<clock, row, gens, objects, faults, history>>
         /\ proc[p].pc = "idle"
         /\ proc'[p].pc \in {"suspend", "reactivate", "extend", "extendRetention", "reissue",
                             "read", "announceCheck", "quiesce"}
         /\ \A q \in Procs \ {p} : proc'[q] = proc[q]
<1>1. proc \in [Procs -> ProcStates]
  BY DEF TypeOK
<1>2. UNCHANGED <<clock, row, gens, objects, faults, history>>
  BY Zenon DEF Begin, BeginSuspend, BeginReactivate, BeginExtend, BeginExtendRetention,
               BeginReissue, BeginExport, BeginPurge
<1>3. proc[p] = Idle /\ \E r : proc' = [proc EXCEPT ![p] = r]
  BY Zenon DEF Begin, BeginSuspend, BeginReactivate, BeginExtend, BeginExtendRetention,
               BeginReissue, BeginExport, BeginPurge, ByRequest, ByJob
<1>4. proc[p].pc = "idle" /\ \A q \in Procs \ {p} : proc'[q] = proc[q]
  BY <1>1, <1>3 DEF Idle
<1>5. proc'[p].pc \in {"suspend", "reactivate", "extend", "extendRetention", "reissue",
                       "read", "announceCheck", "quiesce"}
  <2>1. CASE BeginSuspend(p) \/ BeginPurge(p)
    BY <1>1, <2>1 DEF BeginSuspend, BeginPurge, ByRequest, ByJob, Idle
  <2>2. CASE BeginReactivate(p) \/ BeginExtend(p)
    BY <1>1, <2>2 DEF BeginReactivate, BeginExtend, ByRequest, Idle
  <2>3. CASE BeginExtendRetention(p) \/ BeginReissue(p)
    BY <1>1, <2>3 DEF BeginExtendRetention, BeginReissue, ByRequest, Idle
  <2>4. CASE BeginExport(p)
    BY <1>1, <2>4 DEF BeginExport, ByJob, Idle
  <2> QED
    BY <2>1, <2>2, <2>3, <2>4 DEF Begin
<1> QED
  BY <1>2, <1>4, <1>5

\* A step touches its own handler only, and history only grows.
LEMMA StepFrame ==
  ASSUME TypeOK, NEW p \in Procs, Step(p)
  PROVE  /\ \A q \in Procs \ {p} : proc'[q] = proc[q]
         /\ made \subseteq made' /\ lost \subseteq lost' /\ (raced => raced')
<1>1. raced => raced'
  BY Zenon
  DEF Step, CommitSuspend, Schedule, CommitReactivate, Discard, CommitExtend,
      CommitExtendRetention, CommitReissue, ReadPhase, BuildFails, Put, StampCheck, Stamp,
      TakeBack, AnnounceCheck, Announce, Quiesce, Drain, SweepPrefix, Delete, Abandon
<1>2. made \subseteq made' /\ lost \subseteq lost'
  BY DEF Step, CommitSuspend, Schedule, CommitReactivate, Discard, CommitExtend,
      CommitExtendRetention, CommitReissue, ReadPhase, BuildFails, Put, StampCheck, Stamp,
      TakeBack, AnnounceCheck, Announce, Quiesce, Drain, SweepPrefix, Delete, Abandon, Remove
<1>3. Done(p) \/ (\E pc \in Pcs : Goto(p, pc))
  BY DEF Step, CommitSuspend, Schedule, CommitReactivate, Discard, CommitExtend,
      CommitExtendRetention, CommitReissue, ReadPhase, BuildFails, Put, StampCheck, Stamp,
      TakeBack, AnnounceCheck, Announce, Quiesce, Drain, SweepPrefix, Delete, Abandon,
      Pcs, Writing, Building
<1>4. proc \in [Procs -> ProcStates]
  BY DEF TypeOK
<1>5. \A q \in Procs \ {p} : proc'[q] = proc[q]
  BY <1>3, <1>4 DEF Goto, Done
<1> QED
  BY <1>1, <1>2, <1>5

\* The steps that write the subscription, the stamps or the clock are few.
RowWriters(p) ==
  \/ CommitSuspend(p) \/ CommitReactivate(p) \/ CommitExtend(p)
  \/ CommitExtendRetention(p) \/ Stamp(p) \/ Delete(p)

LEMMA RowFrame ==
  ASSUME [Next]_vars, ~NextDay, \A p \in Procs : ~RowWriters(p)
  PROVE  UNCHANGED <<day, sub, made>>
<1>1. CASE \E p \in Procs : Begin(p)
  BY <1>1 DEF Begin, BeginSuspend, BeginReactivate, BeginExtend, BeginExtendRetention,
              BeginReissue, BeginExport, BeginPurge
<1>2. CASE \E p \in Procs : Step(p)
  BY <1>2 DEF Step, RowWriters, Schedule, Discard, CommitReissue, ReadPhase, BuildFails, Put,
              StampCheck, TakeBack, AnnounceCheck, Announce, Quiesce, Drain, SweepPrefix, Abandon
<1>3. CASE \E p \in Procs : Crash(p)
  BY <1>3 DEF Crash
<1>4. CASE \/ \E j \in Jobs : Sweep(j)
           \/ Rebuild \/ Verify \/ VerifyFails \/ DropJob \/ Forget \/ WindowCloses
  BY <1>4 DEF Sweep, Rebuild, Verify, VerifyFails, DropJob, Forget, WindowCloses
<1>5. CASE UNCHANGED vars
  BY <1>5 DEF vars
<1> QED
  BY <1>1, <1>2, <1>3, <1>4, <1>5 DEF Next

\* A suspension stays numbered and dated, an archive is offered once stamped.
LEMMA RowInductive == Inductive /\ [Next]_vars => RowSound'
<1> SUFFICES ASSUME Inductive, [Next]_vars PROVE RowSound'
  OBVIOUS
<1>1. /\ RowSound /\ HandlersSound
      /\ day \in Nat /\ gens \in Nat /\ sub \in SubRows /\ proc \in [Procs -> ProcStates]
  BY DEF Inductive, TypeOK
<1>2. CASE \E p \in Procs : CommitSuspend(p)
  <2>1. gens + 1 # 0
    BY <1>1
  <2> QED
    BY <1>1, <1>2, <2>1 DEF CommitSuspend, RowSound, SubRows
<1>3. CASE \E p \in Procs : CommitReactivate(p)
  BY <1>1, <1>3 DEF CommitReactivate, RowSound, NoRow
<1>4. CASE \E p \in Procs : CommitExtend(p) \/ CommitExtendRetention(p)
  BY <1>1, <1>4 DEF CommitExtend, CommitExtendRetention, RowSound, SubRows
<1>5. CASE \E p \in Procs : Stamp(p)
  BY <1>1, <1>5 DEF Stamp, Stands, RowSound, HandlersSound, SubRows
<1>6. CASE \E p \in Procs : Delete(p)
  BY <1>1, <1>6 DEF Delete, RowSound, NoRow
<1>7. CASE NextDay
  <2>1. day + 1 # 0
    BY <1>1
  <2> QED
    BY <1>1, <1>7, <2>1 DEF NextDay, RowSound
<1>8. CASE UNCHANGED <<day, sub, made>>
  BY <1>1, <1>8 DEF RowSound
<1> QED
  BY <1>2, <1>3, <1>4, <1>5, <1>6, <1>7, <1>8, RowFrame DEF RowWriters

\* What HandlersSound asks of the record of one handler.
Sound(r, stamps) ==
  /\ r.pc \in {"read", "put", "stampCheck", "stamp"} => r.opened # 0
  /\ r.pc \in {"announceCheck", "announce"} => r.gen \in stamps
  /\ r.pc = "reissue" /\ r.key # 0 => r.gen \in stamps

\* It is enough to look at the handler that moves: stamps are never forgotten.
LEMMA OneHandler ==
  ASSUME Inductive, made \subseteq made', NEW p \in Procs,
         \A q \in Procs \ {p} : proc'[q] = proc[q], Sound(proc'[p], made')
  PROVE  HandlersSound'
  BY DEF Inductive, HandlersSound, Sound

LEMMA HandlersInductive == Inductive /\ [Next]_vars => HandlersSound'
<1> SUFFICES ASSUME Inductive, [Next]_vars PROVE HandlersSound'
  OBVIOUS
<1>1. /\ RowSound /\ HandlersSound
      /\ sub \in SubRows /\ proc \in [Procs -> ProcStates]
  BY DEF Inductive, TypeOK
<1>2. ASSUME NEW p \in Procs, Begin(p) PROVE HandlersSound'
  <2>1. made' = made /\ \A q \in Procs \ {p} : proc'[q] = proc[q]
    BY <1>2, BeginFrame DEF Inductive
  <2>2. CASE BeginExport(p)
    <3>1. /\ proc'[p].pc = IF sub.key = 0 THEN "read" ELSE "announceCheck"
          /\ proc'[p].gen = sub.gen /\ proc'[p].opened = sub.opened
          /\ sub.status = "suspended"
      BY <1>1, <2>2 DEF BeginExport, ByJob, Idle
    <3>2. Sound(proc'[p], made')
      BY <1>1, <2>1, <3>1 DEF Sound, RowSound
    <3> QED
      BY <2>1, <3>2, OneHandler
  <2>3. CASE BeginReissue(p)
    <3>1. /\ proc'[p].pc = "reissue"
          /\ proc'[p].gen = sub.gen /\ proc'[p].key = sub.key
      BY <1>1, <2>3 DEF BeginReissue, ByRequest, Idle
    <3>2. Sound(proc'[p], made')
      BY <1>1, <2>1, <3>1 DEF Sound, RowSound
    <3> QED
      BY <2>1, <3>2, OneHandler
  <2>4. CASE ~(BeginExport(p) \/ BeginReissue(p))
    <3>1. proc'[p].pc \in {"suspend", "reactivate", "extend", "extendRetention", "quiesce"}
      BY <1>1, <1>2, <2>4
      DEF Begin, BeginSuspend, BeginReactivate, BeginExtend, BeginExtendRetention, BeginPurge,
          ByRequest, ByJob, Idle
    <3> QED
      BY <2>1, <3>1, OneHandler DEF Sound
  <2> QED
    BY <2>2, <2>3, <2>4
<1>3. ASSUME NEW p \in Procs, Step(p) PROVE HandlersSound'
  <2>1. made \subseteq made' /\ \A q \in Procs \ {p} : proc'[q] = proc[q]
    BY <1>3, StepFrame DEF Inductive
  <2>2. Sound(proc'[p], made')
    <3>1. CASE Done(p)
      BY <1>1, <3>1 DEF Done, Idle, Sound
    <3>2. ASSUME NEW pc \in {"schedule", "discard", "takeBack", "drain", "sweepPrefix", "delete"},
                 Goto(p, pc)
          PROVE  Sound(proc'[p], made')
      BY <1>1, <3>2 DEF Goto, Sound, ProcStates
    <3>3. CASE ReadPhase(p) \/ Put(p) \/ StampCheck(p)
      BY <1>1, <3>1, <3>2, <3>3
      DEF ReadPhase, Put, StampCheck, Goto, HandlersSound, Sound, ProcStates
    <3>4. CASE Stamp(p)
      BY <1>1, <3>2, <3>4 DEF Stamp, Goto, Sound, ProcStates
    <3>5. CASE AnnounceCheck(p)
      BY <1>1, <3>1, <3>5 DEF AnnounceCheck, Goto, HandlersSound, Sound, ProcStates
    <3> QED
      BY <1>3, <3>1, <3>2, <3>3, <3>4, <3>5
      DEF Step, CommitSuspend, Schedule, CommitReactivate, Discard, CommitExtend,
          CommitExtendRetention, CommitReissue, BuildFails, TakeBack, Announce, Quiesce,
          Drain, SweepPrefix, Delete, Abandon
  <2> QED
    BY <2>1, <2>2, OneHandler
<1>4. ASSUME NEW p \in Procs, Crash(p) PROVE HandlersSound'
  <2>1. made' = made /\ proc' = [proc EXCEPT ![p] = Idle]
    BY <1>4 DEF Crash, Done
  <2> QED
    BY <1>1, <2>1, OneHandler DEF Idle, Sound
<1>5. CASE UNCHANGED <<proc, made>>
  BY <1>1, <1>5 DEF HandlersSound
<1>6. CASE \/ \E j \in Jobs : Sweep(j)
           \/ Rebuild \/ Verify \/ VerifyFails \/ DropJob \/ Forget \/ WindowCloses
           \/ NextDay \/ UNCHANGED vars
  BY <1>5, <1>6 DEF Sweep, Rebuild, Verify, VerifyFails, DropJob, Forget, WindowCloses,
           NextDay, vars
<1> QED
  BY <1>2, <1>3, <1>4, <1>6 DEF Next

\* Only a purge, a suspension and a reactivation move the state of the tenant.
LEMMA QuiescedInductive == Inductive /\ [Next]_vars => Quiesced'
<1> SUFFICES ASSUME Inductive, [Next]_vars PROVE Quiesced'
  OBVIOUS
<1>1. Quiesced /\ proc \in [Procs -> ProcStates]
  BY DEF Inductive, TypeOK
<1> DEFINE Purges(q) == proc[q].pc \in {"drain", "sweepPrefix", "delete"}
<1>2. ASSUME NEW p \in Procs,
             \A q \in Procs \ {p} : proc'[q] = proc[q],
             proc'[p].pc \in {"drain", "sweepPrefix", "delete"} => Purges(p) \/ ~Admits',
             raced => raced',
             ~Admits => ~Admits' \/ raced'
      PROVE  Quiesced'
  BY <1>1, <1>2 DEF Quiesced
<1>3. ASSUME NEW p \in Procs, Begin(p) PROVE Quiesced'
  <2>1. /\ UNCHANGED <<state, raced>>
        /\ \A q \in Procs \ {p} : proc'[q] = proc[q]
        /\ proc'[p].pc \notin {"drain", "sweepPrefix", "delete"}
    BY <1>3, BeginFrame DEF Inductive
  <2> QED
    BY <1>2, <2>1 DEF Admits
<1>4. ASSUME NEW p \in Procs, Step(p) PROVE Quiesced'
  <2>1. (raced => raced') /\ \A q \in Procs \ {p} : proc'[q] = proc[q]
    BY <1>4, StepFrame DEF Inductive
  <2>2. CASE CommitSuspend(p) \/ CommitReactivate(p)
    <3>1. /\ proc'[p].pc \in {"schedule", "discard", "idle"}
          /\ state = "purging" => raced'
          /\ state # "gone"
      <4>1. proc'[p].pc \in {"schedule", "discard", "idle"}
        BY <1>1, <2>2 DEF CommitSuspend, CommitReactivate, Goto, Done, Idle, ProcStates
      <4>2. state # "gone"
        BY <2>2 DEF CommitSuspend, CommitReactivate
      <4>3. state = "purging" => raced'
        BY <2>2, Zenon DEF CommitSuspend, CommitReactivate
      <4> QED
        BY <4>1, <4>2, <4>3
    <3> QED
      BY <1>2, <2>1, <3>1 DEF Admits
  <2>3. CASE Quiesce(p) \/ Delete(p)
    <3>1. state' \in {"purging", "gone"}
      BY <2>3 DEF Quiesce, Delete
    <3> QED
      BY <1>2, <2>1, <3>1 DEF Admits
  <2>4. CASE Drain(p) \/ SweepPrefix(p)
    <3>1. Purges(p) /\ state' = state
      BY <2>4 DEF Drain, SweepPrefix
    <3> QED
      BY <1>2, <2>1, <3>1 DEF Admits
  <2>5. CASE /\ ~(CommitSuspend(p) \/ CommitReactivate(p) \/ Quiesce(p) \/ Delete(p))
             /\ ~(Drain(p) \/ SweepPrefix(p))
    <3>1. state' = state
      BY <1>4, <2>5
      DEF Step, Schedule, Discard, CommitExtend, CommitExtendRetention, CommitReissue,
          ReadPhase, BuildFails, Put, StampCheck, Stamp, TakeBack, AnnounceCheck, Announce,
          Abandon
    <3>2. proc'[p].pc \notin {"drain", "sweepPrefix", "delete"}
      BY <1>1, <1>4, <2>5
      DEF Step, Schedule, Discard, CommitExtend, CommitExtendRetention, CommitReissue,
          ReadPhase, BuildFails, Put, StampCheck, Stamp, TakeBack, AnnounceCheck, Announce,
          Abandon, Goto, Done, Idle, ProcStates
    <3> QED
      BY <1>2, <2>1, <3>1, <3>2 DEF Admits
  <2> QED
    BY <2>2, <2>3, <2>4, <2>5
<1>5. ASSUME NEW p \in Procs, Crash(p) PROVE Quiesced'
  <2>1. UNCHANGED <<state, raced>> /\ proc' = [proc EXCEPT ![p] = Idle]
    BY <1>5 DEF Crash, Done
  <2> QED
    BY <1>1, <1>2, <2>1 DEF Admits, Idle
<1>6. CASE UNCHANGED <<proc, state, raced>>
  BY <1>1, <1>6 DEF Quiesced, Admits
<1>7. CASE \/ \E j \in Jobs : Sweep(j)
           \/ Rebuild \/ Verify \/ VerifyFails \/ DropJob \/ Forget \/ WindowCloses
           \/ NextDay \/ UNCHANGED vars
  BY <1>6, <1>7 DEF Sweep, Rebuild, Verify, VerifyFails, DropJob, Forget, WindowCloses,
           NextDay, vars
<1> QED
  BY <1>3, <1>4, <1>5, <1>7 DEF Next

\* A key in flight stays so, unless it is that of the handler that moves.
LEMMA InFlightOthers ==
  ASSUME NEW p \in Procs, \A q \in Procs \ {p} : proc'[q] = proc[q], NEW k \in InFlight,
         ~(proc[p].pc \in {"stampCheck", "takeBack"} /\ proc[p].opened = k)
  PROVE  k \in InFlight'
  BY DEF InFlight

\* After the prefix is swept, a key in storage is lost or in flight.
LEMMA SweptInductive == Inductive /\ [Next]_vars => SweptClean'
<1> DEFINE Purged == state = "gone" \/ \E p \in Procs : proc[p].pc = "delete"
<1> SUFFICES ASSUME Inductive, [Next]_vars, ~raced', Purged', NEW k \in objects'
             PROVE  k \in lost' \cup InFlight'
  BY DEF SweptClean
<1>1. SweptClean /\ Quiesced /\ TypeOK /\ proc \in [Procs -> ProcStates]
  BY DEF Inductive, TypeOK
<1>2. ASSUME ~raced, Purged, k \in objects PROVE k \in lost \cup InFlight
  BY <1>1, <1>2 DEF SweptClean
\* A move of p that keeps the key, and neither drops it nor ends a purge.
<1>3. ASSUME NEW p \in Procs, \A q \in Procs \ {p} : proc'[q] = proc[q],
             ~raced, Purged, k \in objects, lost \subseteq lost',
             ~(proc[p].pc \in {"stampCheck", "takeBack"} /\ proc[p].opened = k)
      PROVE  k \in lost' \cup InFlight'
  <2>1. k \in lost \cup InFlight
    BY <1>2, <1>3
  <2> QED
    BY <1>3, <2>1, InFlightOthers
<1>4. ASSUME NEW p \in Procs, Begin(p) PROVE k \in lost' \cup InFlight'
  <2>1. /\ UNCHANGED <<objects, state, raced, lost>>
        /\ proc[p].pc = "idle" /\ proc'[p].pc # "delete"
        /\ \A q \in Procs \ {p} : proc'[q] = proc[q]
    BY <1>1, <1>4, BeginFrame
  <2>2. Purged
    BY <2>1
  <2> QED
    BY <1>3, <2>1, <2>2
<1>5. ASSUME NEW p \in Procs, Step(p) PROVE k \in lost' \cup InFlight'
  <2>1. /\ ~raced /\ lost \subseteq lost'
        /\ \A q \in Procs \ {p} : proc'[q] = proc[q]
    BY <1>1, <1>5, StepFrame
  <2>2. CASE Put(p)
    <3>1. /\ state' = state /\ objects' = objects \cup {proc[p].opened}
          /\ proc[p].pc = "put"
          /\ proc'[p].pc = "stampCheck" /\ proc'[p].opened = proc[p].opened
      BY <1>1, <2>2 DEF Put, Goto, ProcStates
    <3>2. Purged
      BY <2>1, <3>1
    <3>3. CASE k = proc[p].opened
      BY <3>1, <3>3 DEF InFlight
    <3> QED
      BY <1>3, <2>1, <3>1, <3>2, <3>3
  <2>3. CASE StampCheck(p)
    <3>1. /\ state' = state /\ objects' = objects /\ lost' = lost
          /\ proc'[p].opened = proc[p].opened
          /\ proc[p].pc = "stampCheck"
          /\ proc'[p].pc = IF Admits THEN "stamp" ELSE "takeBack"
      BY <1>1, <2>3 DEF StampCheck, Goto, ProcStates
    <3>2. Purged
      BY <2>1, <3>1
    <3>3. ~Admits
      BY <1>1, <2>1, <3>2 DEF Quiesced, Admits
    <3>4. CASE k = proc[p].opened
      BY <3>1, <3>3, <3>4 DEF InFlight
    <3> QED
      BY <1>3, <2>1, <3>1, <3>2, <3>4
  <2>4. CASE TakeBack(p)
    <3>1. /\ state' = state /\ proc'[p].pc = "idle"
          /\ \/ objects' = objects \ {proc[p].opened}
             \/ objects' = objects /\ lost' = lost \cup {proc[p].opened}
      BY <1>1, <2>4 DEF TakeBack, Remove, Done, Idle
    <3>2. Purged
      BY <2>1, <3>1
    <3> QED
      BY <1>3, <2>1, <3>1, <3>2
  <2>5. CASE SweepPrefix(p)
    BY <2>5 DEF SweepPrefix
  <2>6. CASE Delete(p)
    <3>1. proc[p].pc = "delete" /\ objects' = objects
      BY <2>6 DEF Delete
    <3> QED
      BY <1>3, <2>1, <3>1
  <2>7. CASE ~(Put(p) \/ StampCheck(p) \/ TakeBack(p) \/ SweepPrefix(p) \/ Delete(p))
    <3>1. /\ objects' \subseteq objects
          /\ state' = "gone" => state = "gone"
          /\ proc[p].pc \notin {"stampCheck", "takeBack"}
      BY <1>5, <2>7
      DEF Step, CommitSuspend, Schedule, CommitReactivate, Discard, Remove, CommitExtend,
          CommitExtendRetention, CommitReissue, ReadPhase, BuildFails, Stamp,
          AnnounceCheck, Announce, Quiesce, Drain, Abandon, Writing
    <3>2. proc'[p].pc # "delete"
      BY <1>1, <1>5, <2>7
      DEF Step, CommitSuspend, Schedule, CommitReactivate, Discard, CommitExtend,
          CommitExtendRetention, CommitReissue, ReadPhase, BuildFails, Stamp,
          AnnounceCheck, Announce, Quiesce, Drain, Abandon, Goto, Done, Idle, ProcStates
    <3>3. Purged
      BY <2>1, <3>1, <3>2
    <3> QED
      BY <1>3, <2>1, <3>1, <3>3
  <2> QED
    BY <2>2, <2>3, <2>4, <2>5, <2>6, <2>7
<1>6. ASSUME NEW p \in Procs, Crash(p) PROVE k \in lost' \cup InFlight'
  <2>1. /\ UNCHANGED <<objects, state, raced>>
        /\ lost' = lost \cup Orphaned(p)
        /\ proc' = [proc EXCEPT ![p] = Idle]
    BY <1>6, Zenon DEF Crash, Done
  <2>2. Purged /\ ~raced
    BY <1>1, <2>1 DEF Idle
  <2>3. CASE proc[p].pc \in {"stampCheck", "takeBack"} /\ proc[p].opened = k
    BY <2>1, <2>3 DEF Orphaned
  <2> QED
    BY <1>1, <1>3, <2>1, <2>2, <2>3
<1>7. CASE UNCHANGED <<objects, state, proc, raced, lost>>
  BY <1>2, <1>7 DEF InFlight
<1>8. CASE \/ \E j \in Jobs : Sweep(j)
           \/ Rebuild \/ Verify \/ VerifyFails \/ DropJob \/ Forget \/ WindowCloses
           \/ NextDay \/ UNCHANGED vars
  <2>1. UNCHANGED <<objects, state, proc, raced, lost>>
    BY <1>8, Zenon DEF Sweep, Rebuild, Verify, VerifyFails, DropJob, Forget, WindowCloses,
           NextDay, vars
  <2> QED
    BY <1>7, <2>1
<1> QED
  BY <1>4, <1>5, <1>6, <1>8 DEF Next

\* A reactivation and a deletion end the suspension.
LEMMA SuspensionEnds ==
  ASSUME NEW p \in Procs, CommitReactivate(p) \/ Delete(p)
  PROVE  /\ sub'.status # "suspended" /\ sub'.gen = 0 /\ sub'.key = 0
         /\ UNCHANGED <<gens, days, shared>>
<1>1. CASE CommitReactivate(p)
  <2>1. sub' = [NoRow EXCEPT !.status = "active", !.periodEnd = day + Period]
    BY <1>1 DEF CommitReactivate
  <2>2. sub'.status = "active" /\ sub'.gen = 0 /\ sub'.key = 0
    BY <2>1 DEF NoRow
  <2> QED
    BY <1>1, <2>2 DEF CommitReactivate
<1>2. CASE Delete(p)
  <2>1. sub'.status = "none" /\ sub'.gen = 0 /\ sub'.key = 0
    BY <1>2 DEF Delete, NoRow
  <2> QED
    BY <1>2, <2>1 DEF Delete
<1> QED
  BY <1>1, <1>2

\* A step leaves the suspension as it is, makes a new one, or ends it.
SameSuspension ==
  /\ sub'.status = sub.status /\ sub'.gen = sub.gen /\ sub'.opened = sub.opened
  /\ UNCHANGED <<gens, days, shared>>

LEMMA SuspensionMoves ==
  ASSUME Inductive, [Next]_vars
  PROVE  \/ SameSuspension
         \/ \E p \in Procs : CommitSuspend(p)
         \/ /\ sub'.status # "suspended" /\ sub'.gen = 0 /\ sub'.key = 0
            /\ UNCHANGED <<gens, days, shared>>
<1>1. sub \in SubRows
  BY DEF Inductive, TypeOK
<1>2. CASE \E p \in Procs : Begin(p)
  <2>1. UNCHANGED <<row, gens, history>>
    BY <1>2, BeginFrame DEF Inductive
  <2> QED
    BY <2>1 DEF SameSuspension
<1>3. CASE \E p \in Procs : Step(p)
  <2> SUFFICES ASSUME NEW p \in Procs, Step(p), ~CommitSuspend(p)
               PROVE  \/ SameSuspension
                      \/ /\ sub'.status # "suspended" /\ sub'.gen = 0 /\ sub'.key = 0
                         /\ UNCHANGED <<gens, days, shared>>
    BY <1>3
  <2>1. CASE CommitReactivate(p) \/ Delete(p)
    BY <2>1, SuspensionEnds
  <2>2. CASE CommitExtend(p) \/ CommitExtendRetention(p) \/ Stamp(p)
    BY <1>1, <2>2 DEF CommitExtend, CommitExtendRetention, Stamp, SameSuspension, SubRows
  <2>3. CASE ~(CommitReactivate(p) \/ Delete(p) \/ CommitExtend(p) \/ CommitExtendRetention(p) \/ Stamp(p))
    <3>1. UNCHANGED <<sub, gens, days, shared>>
      BY <2>3, Zenon
      DEF Step, Schedule, Discard, CommitReissue, ReadPhase, BuildFails, Put, StampCheck,
          TakeBack, AnnounceCheck, Announce, Quiesce, Drain, SweepPrefix, Abandon
    <3> QED
      BY <3>1 DEF SameSuspension
  <2> QED
    BY <2>1, <2>2, <2>3
<1>4. CASE \/ \E p \in Procs : Crash(p)
           \/ \E j \in Jobs : Sweep(j)
           \/ Rebuild \/ Verify \/ VerifyFails \/ DropJob \/ Forget \/ WindowCloses
           \/ NextDay \/ UNCHANGED vars
  <2>1. UNCHANGED <<sub, gens, days, shared>>
    BY <1>4, Zenon
    DEF Crash, Sweep, Rebuild, Verify, VerifyFails, DropJob, Forget, WindowCloses,
           NextDay, vars
  <2> QED
    BY <2>1 DEF SameSuspension
<1> QED
  BY <1>2, <1>3, <1>4 DEF Next

\* A suspension that commits is new, and has the day's date.
LEMMA SuspensionMade ==
  ASSUME Inductive, NEW p \in Procs, CommitSuspend(p)
  PROVE  /\ gens \in Nat /\ gens' = gens + 1 /\ sub'.gen = gens' /\ sub'.opened = day /\ sub'.key = 0
         /\ days' = days \cup {day} /\ day # 0 /\ (shared' <=> shared \/ day \in days)
<1>1. sub \in SubRows /\ gens \in Nat /\ day # 0
  BY DEF Inductive, TypeOK, RowSound
<1>2. sub'.gen = gens' /\ sub'.opened = day /\ sub'.key = 0
  BY <1>1 DEF CommitSuspend, SubRows
<1>3. gens' = gens + 1 /\ days' = days \cup {day}
  BY DEF CommitSuspend
<1>4. shared' <=> shared \/ day \in days
  BY Zenon DEF CommitSuspend
<1> QED
  BY <1>1, <1>2, <1>3, <1>4

\* A handler starts, ends, or goes on with what it has.
LEMMA HandlerMoves ==
  ASSUME Inductive, [Next]_vars, NEW q \in Procs
  PROVE  \/ proc'[q] = proc[q] \/ proc'[q] = Idle \/ Begin(q)
         \/ Step(q) /\ \E pc \in Pcs : proc'[q] = [proc[q] EXCEPT !.pc = pc]
<1>1. proc \in [Procs -> ProcStates]
  BY DEF Inductive, TypeOK
<1>2. ASSUME NEW p \in Procs, Begin(p) PROVE proc'[q] = proc[q] \/ Begin(q)
  BY <1>2, BeginFrame DEF Inductive
<1>3. ASSUME NEW p \in Procs, Step(p)
      PROVE  \/ proc'[q] = proc[q] \/ proc'[q] = Idle
             \/ Step(q) /\ \E pc \in Pcs : proc'[q] = [proc[q] EXCEPT !.pc = pc]
  <2>1. Done(p) \/ (\E pc \in Pcs : Goto(p, pc))
    BY <1>3
    DEF Step, CommitSuspend, Schedule, CommitReactivate, Discard, CommitExtend,
        CommitExtendRetention, CommitReissue, ReadPhase, BuildFails, Put, StampCheck, Stamp,
        TakeBack, AnnounceCheck, Announce, Quiesce, Drain, SweepPrefix, Delete, Abandon,
        Pcs, Writing, Building
  <2> QED
    BY <1>1, <1>3, <2>1 DEF Done, Goto
<1>4. ASSUME NEW p \in Procs, Crash(p) PROVE proc'[q] = proc[q] \/ proc'[q] = Idle
  BY <1>1, <1>4 DEF Crash, Done
<1>5. CASE \/ \E j \in Jobs : Sweep(j)
           \/ Rebuild \/ Verify \/ VerifyFails \/ DropJob \/ Forget \/ WindowCloses
           \/ NextDay \/ UNCHANGED vars
  <2>1. proc' = proc
    BY <1>5, Zenon DEF Sweep, Rebuild, Verify, VerifyFails, DropJob, Forget, WindowCloses,
           NextDay, vars
  <2> QED
    BY <2>1
<1> QED
  BY <1>2, <1>3, <1>4, <1>5 DEF Next

\* A handler that goes on with what it has keeps the day of its suspension.
Keeping == {"read", "put", "stampCheck", "stamp", "takeBack"}

LEMMA StaysDated ==
  ASSUME Inductive, [Next]_vars, NEW q \in Procs,
         proc'[q].gen = proc[q].gen, proc'[q].opened = proc[q].opened, proc'[q].key = proc[q].key,
         proc'[q].pc \in Keeping => proc[q].pc \in Keeping,
         proc'[q].pc = "reactivate" => proc[q].pc = "reactivate",
         proc'[q].pc = "discard" =>
           proc[q].pc = "discard" \/ (proc[q].pc = "reactivate" /\ sub'.status # "suspended")
  PROVE  Dated(q)'
<1>1. Dated(q) /\ proc[q].gen \in Nat /\ gens \in Nat
  BY DEF Inductive, DatesSound, TypeOK, ProcStates
<1> DEFINE pc == proc[q].pc
           pcn == proc'[q].pc
           suspended == sub.status = "suspended"
           later == sub'.status = "suspended"
<1>2. CASE SameSuspension
  BY <1>1, <1>2 DEF SameSuspension, Dated, Keeping
<1>3. CASE \E p \in Procs : CommitSuspend(p)
  <2>1. /\ gens' = gens + 1 /\ sub'.gen = gens' /\ sub'.opened = day
        /\ days' = days \cup {day} /\ day # 0 /\ (shared' <=> shared \/ day \in days)
    BY <1>3, SuspensionMade
  <2>2. proc[q].gen <= gens' /\ proc[q].gen # sub'.gen
    BY <1>1, <2>1 DEF Dated
  <2>3. proc'[q].pc \in Keeping =>
          proc[q].opened \in days' /\ (proc[q].opened = sub'.opened => shared')
    BY <1>1, <2>1 DEF Dated, Keeping
  <2>4. proc'[q].pc \in {"reactivate", "discard"} => proc[q].key \in days' \cup {0}
    BY <1>1, <2>1 DEF Dated
  <2>5. proc'[q].pc = "discard" => shared' \/ proc[q].key # sub'.opened
    BY <1>1, <2>1 DEF Dated
  <2> QED
    BY <2>2, <2>3, <2>4, <2>5 DEF Dated, Keeping
<1>4. CASE sub'.status # "suspended" /\ UNCHANGED <<gens, days, shared>>
  BY <1>1, <1>4 DEF Dated, Keeping
<1> QED
  BY <1>2, <1>3, <1>4, SuspensionMoves

\* One that starts reads the day of the suspension that stands.
LEMMA StartsDated ==
  ASSUME Inductive, NEW p \in Procs, Begin(p)
  PROVE  Dated(p)'
<1>1. proc \in [Procs -> ProcStates]
  BY DEF Inductive, TypeOK
<1>2. /\ sub \in SubRows /\ gens \in Nat
      /\ sub.gen <= gens /\ (sub.status = "suspended" => sub.opened \in days /\ sub.key \in {0, sub.opened})
  BY DEF Inductive, TypeOK, DatesSound
<1>3. UNCHANGED <<row, gens, history>>
  BY BeginFrame DEF Inductive
<1>4. CASE BeginExport(p)
  <2>1. /\ proc'[p].pc = IF sub.key = 0 THEN "read" ELSE "announceCheck"
        /\ proc'[p].gen = sub.gen /\ proc'[p].opened = sub.opened
        /\ sub.status = "suspended"
    BY <1>1, <1>4 DEF BeginExport, ByJob, Idle
  <2> QED
    BY <1>2, <1>3, <2>1 DEF Dated
<1>5. CASE BeginReactivate(p)
  <2>1. /\ proc'[p].pc = "reactivate" /\ sub.status = "suspended"
        /\ proc'[p].gen = 0 /\ proc'[p].key = sub.key
    BY <1>1, <1>5 DEF BeginReactivate, ByRequest, Idle
  <2> QED
    BY <1>2, <1>3, <2>1 DEF Dated
<1>6. CASE BeginReissue(p)
  <2>1. proc'[p].pc = "reissue" /\ proc'[p].gen = sub.gen
    BY <1>1, <1>6 DEF BeginReissue, ByRequest, Idle
  <2> QED
    BY <1>2, <1>3, <2>1 DEF Dated
<1>7. CASE BeginSuspend(p) \/ BeginExtend(p) \/ BeginExtendRetention(p) \/ BeginPurge(p)
  <2>1. /\ proc'[p].pc \in {"suspend", "extend", "extendRetention", "quiesce"}
        /\ proc'[p].gen = 0
    BY <1>1, <1>7
    DEF BeginSuspend, BeginExtend, BeginExtendRetention, BeginPurge, ByRequest, ByJob, Idle
  <2> QED
    BY <1>2, <1>3, <2>1 DEF Dated
<1> QED
  BY <1>4, <1>5, <1>6, <1>7 DEF Begin

\* Where a step of a handler takes it.
LEMMA StepGoes ==
  ASSUME TypeOK, NEW p \in Procs, Step(p), NEW pc \in Pcs,
         proc'[p] = [proc[p] EXCEPT !.pc = pc], pc # proc[p].pc, pc # "idle"
  PROVE  /\ pc # "reactivate"
         /\ pc = "discard" => CommitReactivate(p)
         /\ pc = "stampCheck" => Put(p)
         /\ pc = "stamp" => StampCheck(p) /\ Admits
         /\ pc = "takeBack" => (StampCheck(p) /\ ~Admits) \/ (Stamp(p) /\ ~Stands(p))
         /\ pc \in Keeping => ReadPhase(p) \/ Put(p) \/ StampCheck(p) \/ Stamp(p)
<1>1. proc \in [Procs -> ProcStates] /\ proc'[p].pc = pc
  BY DEF TypeOK, ProcStates
<1>2. CASE Put(p) \/ ReadPhase(p)
  BY <1>1, <1>2 DEF Put, ReadPhase, Goto, Done, Idle, ProcStates, Keeping
<1>3. CASE StampCheck(p)
  BY <1>1, <1>3 DEF StampCheck, Goto, ProcStates, Keeping
<1>4. CASE Stamp(p)
  BY <1>1, <1>4 DEF Stamp, Goto, ProcStates, Keeping
<1>5. CASE CommitReactivate(p)
  BY <1>1, <1>5 DEF CommitReactivate, Goto, Done, Idle, ProcStates, Keeping
<1>6. CASE ~(Put(p) \/ ReadPhase(p) \/ StampCheck(p) \/ Stamp(p) \/ CommitReactivate(p))
  <2>1. pc \in {"idle", "schedule", "announce", "drain", "sweepPrefix", "delete"}
    BY <1>1, <1>6
    DEF Step, CommitSuspend, Schedule, Discard, CommitExtend, CommitExtendRetention,
        CommitReissue, BuildFails, TakeBack, AnnounceCheck, Announce, Quiesce, Drain,
        SweepPrefix, Delete, Abandon, Goto, Done, Idle, ProcStates
  <2> QED
    BY <2>1 DEF Keeping
<1> QED
  BY <1>2, <1>3, <1>4, <1>5, <1>6

\* What handlers hold keeps its day.
LEMMA DatesInductive == Inductive /\ [Next]_vars => DatesSound'
<1> SUFFICES ASSUME Inductive, [Next]_vars PROVE DatesSound'
  OBVIOUS
<1>1. /\ TypeOK /\ proc \in [Procs -> ProcStates] /\ sub \in SubRows /\ gens \in Nat
      /\ DatesSound /\ HandlersSound
  BY DEF Inductive, TypeOK
<1>2. ASSUME NEW q \in Procs PROVE Dated(q)'
  <2>1. CASE proc'[q] = proc[q]
    BY <2>1, StaysDated
  <2>2. CASE proc'[q] = Idle
    <3>1. gens' \in Nat
      BY <1>1, SuspensionMoves, SuspensionMade DEF SameSuspension
    <3> QED
      BY <2>2, <3>1 DEF Idle, Dated
  <2>3. CASE Begin(q)
    BY <2>3, StartsDated
  <2>4. CASE Step(q) /\ \E pc \in Pcs : proc'[q] = [proc[q] EXCEPT !.pc = pc]
    <3>1. PICK pc \in Pcs : proc'[q] = [proc[q] EXCEPT !.pc = pc]
      BY <2>4
    <3>2. /\ proc'[q].pc = pc /\ proc'[q].gen = proc[q].gen
          /\ proc'[q].opened = proc[q].opened /\ proc'[q].key = proc[q].key
      BY <1>1, <3>1 DEF ProcStates
    <3>3. CASE pc = proc[q].pc
      BY <3>2, <3>3, StaysDated
    <3>4. CASE pc = "idle"
      BY <3>2, <3>4, StaysDated DEF Keeping
    <3>5. CASE pc # proc[q].pc /\ pc # "idle"
      <4>1. pc \in Keeping => proc[q].pc \in Keeping
        BY <1>1, <2>4, <3>1, <3>5, StepGoes DEF Keeping, ReadPhase, Put, StampCheck, Stamp
      <4>2. pc # "reactivate"
        BY <1>1, <2>4, <3>1, <3>5, StepGoes
      <4>3. pc = "discard" => proc[q].pc = "reactivate" /\ sub'.status # "suspended"
        BY <1>1, <2>4, <3>1, <3>5, StepGoes DEF CommitReactivate, NoRow
      <4> QED
        BY <3>2, <4>1, <4>2, <4>3, StaysDated
    <3> QED
      BY <3>3, <3>4, <3>5
  <2> QED
    BY <2>1, <2>2, <2>3, <2>4, HandlerMoves
<1>3. sub'.gen <= gens' /\ (sub'.status = "suspended" => sub'.opened \in days')
  <2>1. CASE SameSuspension
    BY <1>1, <2>1 DEF SameSuspension, DatesSound
  <2>2. CASE \E p \in Procs : CommitSuspend(p)
    BY <2>2, SuspensionMade
  <2> QED
    BY <1>1, <2>1, <2>2, SuspensionMoves
<1>4. sub'.status = "suspended" => sub'.key \in {0, sub'.opened}
  <2>1. CASE \E p \in Procs : RowWriters(p)
    <3>1. PICK p \in Procs : RowWriters(p)
      BY <2>1
    <3>2. CASE CommitSuspend(p)
      BY <3>2, SuspensionMade
    <3>3. CASE CommitReactivate(p) \/ Delete(p)
      BY <3>3, SuspensionEnds
    <3>4. CASE CommitExtend(p) \/ CommitExtendRetention(p)
      BY <1>1, <3>4 DEF CommitExtend, CommitExtendRetention, DatesSound, SubRows
    <3>5. CASE Stamp(p)
      <4>1. Dated(p)
        BY <1>1 DEF DatesSound
      <4> QED
        BY <1>1, <3>5, <4>1 DEF Stamp, Stands, Dated, DatesSound, SubRows
    <3> QED
      BY <3>1, <3>2, <3>3, <3>4, <3>5 DEF RowWriters
  <2>2. CASE NextDay
    BY <1>1, <2>2 DEF NextDay, DatesSound
  <2>3. CASE ~NextDay /\ \A p \in Procs : ~RowWriters(p)
    BY <1>1, <2>3, RowFrame DEF DatesSound
  <2> QED
    BY <2>1, <2>2, <2>3
<1>5. state' = "gone" => sub'.status = "none"
  <2>1. CASE \E p \in Procs : Begin(p)
    BY <1>1, <2>1, BeginFrame DEF DatesSound
  <2>2. CASE \E p \in Procs : Step(p)
    <3>1. PICK p \in Procs : Step(p)
      BY <2>2
    <3>2. CASE CommitSuspend(p) \/ CommitReactivate(p) \/ Quiesce(p)
      BY <3>2 DEF CommitSuspend, CommitReactivate, Quiesce
    <3>3. CASE Delete(p)
      BY <3>3 DEF Delete, NoRow
    <3>4. CASE CommitExtend(p) \/ CommitExtendRetention(p)
      BY <3>4 DEF CommitExtend, CommitExtendRetention
    <3>5. CASE Stamp(p)
      BY <1>1, <3>5 DEF Stamp, Stands, DatesSound, SubRows
    <3>6. CASE /\ ~(CommitSuspend(p) \/ CommitReactivate(p) \/ Quiesce(p) \/ Delete(p))
               /\ ~(CommitExtend(p) \/ CommitExtendRetention(p) \/ Stamp(p))
      <4>1. UNCHANGED <<state, sub>>
        BY <3>1, <3>6, Zenon
        DEF Step, Schedule, Discard, CommitReissue, ReadPhase, BuildFails, Put, StampCheck,
            TakeBack, AnnounceCheck, Announce, Drain, SweepPrefix, Abandon
      <4> QED
        BY <1>1, <4>1 DEF DatesSound
    <3> QED
      BY <3>2, <3>3, <3>4, <3>5, <3>6
  <2>3. CASE \/ \E p \in Procs : Crash(p)
             \/ \E j \in Jobs : Sweep(j)
             \/ Rebuild \/ Verify \/ VerifyFails \/ DropJob \/ Forget \/ WindowCloses
             \/ NextDay \/ UNCHANGED vars
    <3>1. UNCHANGED <<state, sub>>
      BY <2>3, Zenon
      DEF Crash, Sweep, Rebuild, Verify, VerifyFails, DropJob, Forget, WindowCloses,
           NextDay, vars
    <3> QED
      BY <1>1, <3>1 DEF DatesSound
  <2> QED
    BY <2>1, <2>2, <2>3 DEF Next
<1> QED
  BY <1>2, <1>3, <1>4, <1>5 DEF DatesSound

\* A purge that has begun leaves its mark: what is undisturbed has always been.
LEMMA WasUndisturbed ==
  ASSUME Inductive, [Next]_vars, Undisturbed'
  PROVE  Undisturbed
<1>1. CASE \E p \in Procs : Begin(p)
  BY <1>1, BeginFrame DEF Inductive, Undisturbed, Admits
<1>2. CASE \E p \in Procs : Step(p)
  <2>1. PICK p \in Procs : Step(p)
    BY <1>2
  <2>2. ~raced
    BY <2>1, StepFrame DEF Inductive, Undisturbed
  <2>3. ~shared
    BY SuspensionMoves, SuspensionMade DEF SameSuspension, Undisturbed
  <2>4. CASE CommitSuspend(p) \/ CommitReactivate(p)
    <3>1. state # "gone" /\ raced' = (raced \/ state = "purging")
      BY <2>4 DEF CommitSuspend, CommitReactivate
    <3> QED
      BY <2>2, <2>3, <3>1, Zenon DEF Undisturbed, Admits
  <2>5. CASE Quiesce(p) \/ Delete(p)
    BY <2>5 DEF Quiesce, Delete, Undisturbed, Admits
  <2>6. CASE ~(CommitSuspend(p) \/ CommitReactivate(p) \/ Quiesce(p) \/ Delete(p))
    <3>1. state' = state
      BY <2>1, <2>6, Zenon
      DEF Step, Schedule, Discard, CommitExtend, CommitExtendRetention, CommitReissue,
          ReadPhase, BuildFails, Put, StampCheck, Stamp, TakeBack, AnnounceCheck, Announce,
          Drain, SweepPrefix, Abandon
    <3> QED
      BY <2>2, <2>3, <3>1 DEF Undisturbed, Admits
  <2> QED
    BY <2>4, <2>5, <2>6
<1>3. CASE \/ \E p \in Procs : Crash(p)
           \/ \E j \in Jobs : Sweep(j)
           \/ Rebuild \/ Verify \/ VerifyFails \/ DropJob \/ Forget \/ WindowCloses
           \/ NextDay \/ UNCHANGED vars
  <2>1. UNCHANGED <<state, shared, raced>>
    BY <1>3, Zenon
    DEF Crash, Sweep, Rebuild, Verify, VerifyFails, DropJob, Forget, WindowCloses,
           NextDay, vars
  <2> QED
    BY <2>1 DEF Undisturbed, Admits
<1> QED
  BY <1>1, <1>2, <1>3 DEF Next

\* The archive of the suspension that stands is not taken away.
LEMMA NotTaken ==
  ASSUME Inductive, [Next]_vars, Undisturbed, sub.status = "suspended",
         sub.opened \in objects \cup lost
  PROVE  sub.opened \in objects' \cup lost'
<1>1. DatesSound /\ ArchivesKept /\ Quiesced
  BY DEF Inductive
<1>2. CASE \E p \in Procs : Begin(p)
  BY <1>2, BeginFrame DEF Inductive
<1>3. CASE \E p \in Procs : Step(p)
  <2>1. PICK p \in Procs : Step(p)
    BY <1>3
  <2>2. lost \subseteq lost'
    BY <2>1, StepFrame DEF Inductive
  <2>3. CASE Discard(p)
    <3>1. proc[p].key # sub.opened
      BY <1>1, <2>3 DEF Discard, DatesSound, Dated, Undisturbed
    <3> QED
      BY <2>2, <2>3, <3>1 DEF Discard, Remove
  <2>4. CASE TakeBack(p)
    <3>1. proc[p].opened # sub.opened
      BY <1>1, <2>4 DEF TakeBack, ArchivesKept, Kept
    <3> QED
      BY <2>2, <2>4, <3>1 DEF TakeBack, Remove
  <2>5. CASE SweepPrefix(p)
    BY <1>1, <2>5 DEF SweepPrefix, Quiesced, Undisturbed
  <2>6. CASE ~(Discard(p) \/ TakeBack(p) \/ SweepPrefix(p))
    <3>1. objects \subseteq objects'
      BY <2>1, <2>6
      DEF Step, CommitSuspend, Schedule, CommitReactivate, CommitExtend,
          CommitExtendRetention, CommitReissue, ReadPhase, BuildFails, Put, StampCheck,
          Stamp, AnnounceCheck, Announce, Quiesce, Drain, Delete, Abandon
    <3> QED
      BY <2>2, <3>1
  <2> QED
    BY <2>3, <2>4, <2>5, <2>6
<1>4. CASE \/ \E p \in Procs : Crash(p)
           \/ \E j \in Jobs : Sweep(j)
           \/ Rebuild \/ Verify \/ VerifyFails \/ DropJob \/ Forget \/ WindowCloses
           \/ NextDay \/ UNCHANGED vars
  <2>1. objects' = objects /\ lost \subseteq lost'
    BY <1>4
    DEF Crash, Sweep, Rebuild, Verify, VerifyFails, DropJob, Forget, WindowCloses,
           NextDay, vars
  <2> QED
    BY <2>1
<1> QED
  BY <1>2, <1>3, <1>4 DEF Next

\* A builder's archive waits for its stamp, and what is taken back is not offered.
LEMMA HandlerKeeps ==
  ASSUME Inductive, [Next]_vars, Undisturbed', sub'.status = "suspended", NEW q \in Procs
  PROVE  /\ proc'[q].pc \in {"stampCheck", "stamp"} /\ sub'.gen = proc'[q].gen
              => proc'[q].opened \in objects' \cup lost'
         /\ proc'[q].pc = "takeBack" => proc'[q].opened # sub'.opened
<1>1. /\ TypeOK /\ proc \in [Procs -> ProcStates] /\ Undisturbed
      /\ Dated(q) /\ Kept(q) /\ proc[q].gen \in Nat /\ gens \in Nat
  BY WasUndisturbed DEF Inductive, TypeOK, DatesSound, ArchivesKept, ProcStates
\* What it holds when it has held it before.
<1>2. ASSUME proc'[q].gen = proc[q].gen, proc'[q].opened = proc[q].opened,
             proc[q].pc \in {"stampCheck", "stamp"}, sub'.gen = proc[q].gen
      PROVE  proc'[q].opened \in objects' \cup lost'
  <2>1. CASE SameSuspension
    <3>1. Stands(q) /\ proc[q].opened = sub.opened /\ sub.status = "suspended"
      BY <1>1, <1>2, <2>1 DEF SameSuspension, Stands, Dated
    <3>2. sub.opened \in objects \cup lost
      BY <1>1, <1>2, <3>1 DEF Kept
    <3> QED
      BY <1>1, <1>2, <3>1, <3>2, NotTaken
  <2>2. CASE \E p \in Procs : CommitSuspend(p)
    BY <1>1, <1>2, <2>2, SuspensionMade DEF Dated
  <2> QED
    BY <2>1, <2>2, SuspensionMoves
<1>3. ASSUME proc'[q].opened = proc[q].opened, proc[q].pc \in Keeping,
             \/ proc[q].pc = "takeBack"
             \/ Stamp(q) /\ ~Stands(q)
      PROVE  proc'[q].opened # sub'.opened
  <2>1. CASE SameSuspension
    <3>1. sub.status = "suspended"
      BY <2>1 DEF SameSuspension
    <3>2. CASE proc[q].pc = "takeBack"
      BY <1>1, <1>3, <2>1, <3>1, <3>2 DEF SameSuspension, Kept
    <3>3. CASE Stamp(q) /\ ~Stands(q)
      BY <1>1, <1>3, <2>1, <3>1, <3>3 DEF SameSuspension, Stands, Dated, Keeping, Undisturbed
    <3> QED
      BY <1>3, <3>2, <3>3
  <2>2. CASE \E p \in Procs : CommitSuspend(p)
    <3>1. sub'.opened = day /\ (shared' <=> shared \/ day \in days)
      BY <2>2, SuspensionMade
    <3> QED
      BY <1>1, <1>3, <3>1 DEF Dated, Keeping, Undisturbed
  <2> QED
    BY <2>1, <2>2, SuspensionMoves
<1>4. CASE proc'[q] = proc[q]
  BY <1>2, <1>3, <1>4 DEF Keeping
<1>5. CASE proc'[q] = Idle
  BY <1>5 DEF Idle
<1>6. CASE Begin(q)
  BY <1>1, <1>6, BeginFrame
<1>7. CASE Step(q) /\ \E pc \in Pcs : proc'[q] = [proc[q] EXCEPT !.pc = pc]
  <2>1. PICK pc \in Pcs : proc'[q] = [proc[q] EXCEPT !.pc = pc]
    BY <1>7
  <2>2. proc'[q].pc = pc /\ proc'[q].gen = proc[q].gen /\ proc'[q].opened = proc[q].opened
    BY <1>1, <2>1 DEF ProcStates
  <2>3. CASE pc = proc[q].pc
    BY <1>2, <1>3, <2>2, <2>3 DEF Keeping
  <2>4. CASE pc # proc[q].pc /\ pc = "stampCheck"
    <3>1. Put(q)
      BY <1>1, <1>7, <2>1, <2>4, StepGoes
    <3> QED
      BY <2>2, <2>4, <3>1 DEF Put
  <2>5. CASE pc # proc[q].pc /\ pc = "stamp"
    <3>1. proc[q].pc = "stampCheck"
      BY <1>1, <1>7, <2>1, <2>5, StepGoes DEF StampCheck
    <3> QED
      BY <1>2, <2>2, <2>5, <3>1
  <2>6. CASE pc # proc[q].pc /\ pc = "takeBack"
    <3>1. (StampCheck(q) /\ ~Admits) \/ (Stamp(q) /\ ~Stands(q))
      BY <1>1, <1>7, <2>1, <2>6, StepGoes
    <3>2. Stamp(q) /\ ~Stands(q) /\ proc[q].pc \in Keeping
      BY <1>1, <3>1 DEF Undisturbed, Stamp, Keeping
    <3> QED
      BY <1>3, <2>2, <2>6, <3>2
  <2> QED
    BY <2>2, <2>3, <2>4, <2>5, <2>6
<1> QED
  BY <1>4, <1>5, <1>6, <1>7, HandlerMoves

\* What the account offers stays in storage.
LEMMA KeptInductive == Inductive /\ [Next]_vars => ArchivesKept'
<1> SUFFICES ASSUME Inductive, [Next]_vars PROVE ArchivesKept'
  OBVIOUS
<1>1. /\ TypeOK /\ TypeOK' /\ proc \in [Procs -> ProcStates] /\ sub \in SubRows
      /\ DatesSound /\ ArchivesKept
      /\ RowSound' /\ DatesSound'
  BY TypeInductive, RowInductive, DatesInductive DEF Inductive, TypeOK
<1>2. \A q \in Procs : Kept(q)'
  BY HandlerKeeps DEF Kept, Stands
<1>3. ASSUME sub'.key # 0, ~shared', ~raced', state' # "purging"
      PROVE  sub'.key \in objects' \cup lost'
  <2>1. sub'.status = "suspended" /\ Undisturbed' /\ sub'.key = sub'.opened
    <3>1. sub'.status = "suspended"
      BY <1>1, <1>3 DEF RowSound
    <3>2. state' # "gone" /\ sub'.key = sub'.opened
      BY <1>1, <1>3, <3>1 DEF DatesSound
    <3> QED
      BY <1>3, <3>1, <3>2 DEF Undisturbed, Admits
  <2>2. Undisturbed
    BY <2>1, WasUndisturbed
  <2>3. CASE \E p \in Procs : Stamp(p)
    <3>1. PICK p \in Procs : Stamp(p)
      BY <2>3
    <3>2. UNCHANGED <<objects, lost>>
      BY <3>1 DEF Stamp
    <3>3. CASE Stands(p)
      <4>1. proc[p].opened \in objects \cup lost
        BY <1>1, <2>2, <3>1, <3>3 DEF Stamp, ArchivesKept, Kept
      <4>2. sub'.key = proc[p].opened
        BY <1>1, <3>1, <3>3 DEF Stamp, SubRows
      <4> QED
        BY <3>2, <4>1, <4>2
    <3>4. CASE ~Stands(p)
      <4>1. sub' = sub
        BY <3>1, <3>4 DEF Stamp
      <4> QED
        BY <1>1, <1>3, <2>2, <3>2, <4>1 DEF ArchivesKept, StampedIsStored, Undisturbed, Admits
    <3> QED
      BY <3>3, <3>4
  <2>4. CASE sub'.key = sub.key /\ sub'.status = sub.status /\ sub'.opened = sub.opened
    <3>1. sub.opened \in objects \cup lost
      BY <1>1, <1>3, <2>1, <2>2, <2>4 DEF ArchivesKept, StampedIsStored, Undisturbed, Admits
    <3> QED
      BY <2>1, <2>2, <2>4, <3>1, NotTaken
  <2>5. CASE \E p \in Procs : RowWriters(p) /\ ~Stamp(p)
    <3>1. PICK p \in Procs : RowWriters(p) /\ ~Stamp(p)
      BY <2>5
    <3>2. CASE CommitSuspend(p)
      BY <1>3, <3>2, SuspensionMade
    <3>3. CASE CommitReactivate(p) \/ Delete(p)
      BY <1>3, <3>3, SuspensionEnds
    <3>4. CASE CommitExtend(p) \/ CommitExtendRetention(p)
      <4>1. sub'.key = sub.key /\ sub'.status = sub.status /\ sub'.opened = sub.opened
        BY <1>1, <3>4 DEF CommitExtend, CommitExtendRetention, SubRows
      <4> QED
        BY <2>4, <4>1
    <3> QED
      BY <3>1, <3>2, <3>3, <3>4 DEF RowWriters
  <2>6. CASE NextDay
    BY <2>4, <2>6 DEF NextDay
  <2>7. CASE ~NextDay /\ \A p \in Procs : ~RowWriters(p)
    BY <2>4, <2>7, RowFrame
  <2> QED
    BY <2>3, <2>5, <2>6, <2>7
<1> QED
  BY <1>2, <1>3 DEF ArchivesKept, StampedIsStored

\* The parts together.
THEOREM InductiveHolds == Spec => []Inductive
<1>1. Init => Inductive
  <2>1. ASSUME Init PROVE TypeOK
    BY <2>1, InitTyped
  <2>2. ASSUME Init PROVE RowSound /\ HandlersSound /\ Quiesced /\ SweptClean
    BY <2>2 DEF Init, RowSound, HandlersSound, Quiesced, SweptClean, NoRow, Idle
  <2>3. ASSUME Init PROVE DatesSound /\ ArchivesKept
    BY <2>3 DEF Init, DatesSound, Dated, ArchivesKept, Kept, StampedIsStored, NoRow, Idle
  <2> QED
    BY <2>1, <2>2, <2>3 DEF Inductive
<1>2. Inductive /\ [Next]_vars => Inductive'
  BY TypeInductive, RowInductive, HandlersInductive, QuiescedInductive, SweptInductive,
     DatesInductive, KeptInductive
  DEF Inductive
<1> QED
  BY <1>1, <1>2, PTL DEF Spec

--------------------------------------------------------------------------------
(* Theorems *)

\* A live account never carries an archive of itself: the conditional stamp of
\* stampSuspensionExport and the clearing in reactivate and suspend keep it so.
THEOREM ArchiveTheorem == Spec => []ArchiveOnlyWhileSuspended
<1>1. Inductive => ArchiveOnlyWhileSuspended
  BY DEF Inductive, RowSound, ArchiveOnlyWhileSuspended
<1> QED
  BY <1>1, InductiveHolds, PTL

\* The archive that is offered is in storage, unless a removal was refused or its
\* handler died, two suspensions share a day or a purge was raced: the order of
\* reactivate, row first and object after it, and the conditional stamp are enough.
THEOREM StampedTheorem == Spec => []StampedIsStored
<1>1. Inductive => StampedIsStored
  BY DEF Inductive, ArchivesKept
<1> QED
  BY <1>1, InductiveHolds, PTL

\* A purge that nothing raced leaves no archive, except one a handler still has
\* to take back or could not: purgeTenant's order and exportTenantData's
\* compensation are enough, however many purges and builds overlap.
THEOREM PurgeTheorem == Spec => []PurgedLeavesNothing
<1>1. Inductive => PurgedLeavesNothing
  BY DEF Inductive, SweptClean, PurgedLeavesNothing
<1> QED
  BY <1>1, InductiveHolds, PTL

\* Every step of the account is a step of the promise, or none at all.
LEMMA PromiseStep == Inductive /\ [Next]_vars => [Promise!Next]_(Promise!vars)
<1> DEFINE Current == IF sub.status = "suspended" THEN sub.gen ELSE 0
           Archive == IF sub.key # 0 THEN sub.gen ELSE 0
<1> SUFFICES ASSUME Inductive, [Next]_vars
             PROVE  \/ Promise!Suspend \/ Promise!Store \/ Promise!Tell \/ Promise!Close
                    \/ UNCHANGED <<gens, Current, Archive, made, told>>
  BY DEF Promise!Next, Promise!vars
<1>1. RowSound /\ HandlersSound /\ sub \in SubRows /\ proc \in [Procs -> ProcStates]
  BY DEF Inductive, TypeOK
<1>2. CASE \E p \in Procs : CommitSuspend(p)
  <2>1. /\ gens' = gens + 1 /\ UNCHANGED <<made, told>>
        /\ sub'.status = "suspended" /\ sub'.gen = gens + 1 /\ sub'.key = 0
    BY <1>1, <1>2 DEF CommitSuspend, SubRows
  <2> QED
    BY <2>1 DEF Promise!Suspend
<1>3. CASE \E p \in Procs : CommitReactivate(p) \/ Delete(p)
  <2>1. /\ UNCHANGED <<gens, made, told>>
        /\ sub'.status # "suspended" /\ sub'.key = 0
    <3>1. CASE \E p \in Procs : CommitReactivate(p)
      BY <3>1 DEF CommitReactivate, NoRow
    <3>2. CASE \E p \in Procs : Delete(p)
      BY <3>2 DEF Delete, NoRow
    <3> QED
      BY <1>3, <3>1, <3>2
  <2> QED
    BY <2>1 DEF Promise!Close
<1>4. CASE \E p \in Procs : Stamp(p)
  <2>1. PICK p \in Procs : Stamp(p)
    BY <1>4
  <2>2. CASE Stands(p)
    <3>1. /\ UNCHANGED <<gens, told>> /\ made' = made \cup {sub.gen}
          /\ sub.status = "suspended" /\ sub.gen # 0 /\ proc[p].opened # 0
          /\ sub' = [sub EXCEPT !.key = proc[p].opened]
      BY <1>1, <2>1, <2>2 DEF Stamp, Stands, RowSound, HandlersSound
    <3>2. sub'.status = "suspended" /\ sub'.gen = sub.gen /\ sub'.key # 0
      BY <1>1, <3>1 DEF SubRows
    <3> QED
      BY <3>1, <3>2 DEF Promise!Store
  <2>3. CASE ~Stands(p)
    BY <2>1, <2>3 DEF Stamp
  <2> QED
    BY <2>2, <2>3
<1>5. CASE \E p \in Procs : Announce(p) \/ CommitReissue(p)
  <2>1. UNCHANGED <<gens, sub, made>>
    BY <1>5 DEF Announce, CommitReissue
  <2>2. told' = told \/ \E g \in made : told' = told \cup {g}
    BY <1>1, <1>5 DEF Announce, CommitReissue, HandlersSound
  <2> QED
    BY <2>1, <2>2 DEF Promise!Tell
<1>6. CASE \E p \in Procs : CommitExtend(p) \/ CommitExtendRetention(p)
  <2>1. /\ UNCHANGED <<gens, made, told>>
        /\ sub'.status = sub.status /\ sub'.gen = sub.gen /\ sub'.key = sub.key
    BY <1>1, <1>6 DEF CommitExtend, CommitExtendRetention, SubRows
  <2> QED
    BY <2>1
<1>7. CASE UNCHANGED <<gens, sub, made, told>>
  BY <1>7
<1>8. CASE /\ ~\E p \in Procs : CommitSuspend(p) \/ CommitReactivate(p) \/ Delete(p)
           /\ ~\E p \in Procs : Stamp(p) \/ Announce(p) \/ CommitReissue(p)
           /\ ~\E p \in Procs : CommitExtend(p) \/ CommitExtendRetention(p)
  <2>1. ASSUME NEW p \in Procs, Begin(p) PROVE UNCHANGED <<gens, sub, made, told>>
    BY <2>1, BeginFrame DEF Inductive
  <2>2. ASSUME NEW p \in Procs, Step(p) PROVE UNCHANGED <<gens, sub, made, told>>
    BY <1>8, <2>2
    DEF Step, Schedule, Discard, ReadPhase, BuildFails, Put, StampCheck, TakeBack,
        AnnounceCheck, Quiesce, Drain, SweepPrefix, Abandon
  <2>3. ASSUME NEW p \in Procs, Crash(p) PROVE UNCHANGED <<gens, sub, made, told>>
    BY <2>3 DEF Crash
  <2>4. CASE \/ \E j \in Jobs : Sweep(j)
             \/ Rebuild \/ Verify \/ VerifyFails \/ DropJob \/ Forget \/ WindowCloses \/ NextDay
             \/ UNCHANGED vars
    BY <2>4 DEF Sweep, Rebuild, Verify, VerifyFails, DropJob, Forget, WindowCloses,
           NextDay, vars
  <2> QED
    BY <1>7, <2>1, <2>2, <2>3, <2>4 DEF Next
<1> QED
  BY <1>2, <1>3, <1>4, <1>5, <1>6, <1>8

\* The account keeps the promise of ArchivePromise: one archive per suspension,
\* offered while it lasts, and no message about an archive that was never made.
THEOREM PromiseTheorem == Spec => PromiseKept
<1>1. Init => Promise!Init
  BY DEF Init, NoRow, Promise!Init
<1> QED
  BY <1>1, PromiseStep, InductiveHolds, PTL DEF Spec, PromiseKept, Promise!Spec
===============================================================================
