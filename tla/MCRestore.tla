------------------------------- MODULE MCRestore ------------------------------
(***************************************************************************)
(* Restore for TLC, in two instances that one run explores side by side:   *)
(* one backup, two checkouts and a fault; and two backups, which may be    *)
(* built while the other is restored, and one checkout.                    *)
(***************************************************************************)
EXTENDS Restore

CONSTANTS c1, c2, b1, b2, r1, r2

VARIABLE world  \* the instance, chosen at the start: the backups taken

MCInit == Init /\ world \in {{b1}, {b1, b2}}

Inside ==
  /\ \A b \in Backups \ world : row'[b] = NoRow
  /\ world = {b1, b2} => /\ cart'[c2].phase = "idle" /\ faults' = 0
                         /\ \A b \in Backups : del'[b] = "idle"
  /\ UNCHANGED world

MCNext == Next /\ Inside

mcvars == <<vars, world>>

\* A request goes on, a waiting job is taken, a run and a checkout go on.
MCSpec ==
  /\ MCInit /\ [][MCNext]_mcvars
  /\ \A c \in Carts : WF_mcvars((Place(c) \/ PlaceFails(c)) /\ Inside)
  /\ \A b \in Backups : /\ WF_mcvars(Build(b) /\ Inside)
                        /\ WF_mcvars((DeleteRow(b) \/ DeleteCrash(b)) /\ Inside)
  /\ \A r \in Clicks : WF_mcvars(Request(r) /\ Inside) /\ WF_mcvars(Run(r) /\ Inside)
===============================================================================
