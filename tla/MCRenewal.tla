------------------------------ MODULE MCRenewal ------------------------------
(***************************************************************************)
(* Renewal for TLC, in two instances that one run explores side by side:   *)
(* one request and a fault, and two requests that may overlap.             *)
(***************************************************************************)
EXTENDS Renewal

CONSTANTS o1, o2, j1, j2

VARIABLE world  \* the instance, chosen at the start

MCInit == Init /\ world \in {"fault", "overlap"}

Inside ==
  /\ world = "fault" => begun' <= 1 /\ request'[o2] = Idle
  /\ world = "overlap" => faults' = 0
  /\ UNCHANGED world

mcvars == <<vars, world>>

\* Nights come, a waiting job is taken, a request that began is answered.
MCSpec ==
  /\ MCInit /\ [][Next /\ Inside]_mcvars
  /\ WF_mcvars(Night /\ Inside)
  /\ \A j \in Slots : WF_mcvars(Run(j) /\ Inside)
  /\ \A o \in Operators : WF_mcvars((CommitExtend(o) \/ CommitExtendRetention(o)
                                      \/ CommitReactivate(o) \/ Abandon(o)) /\ Inside)
==============================================================================
