-------------------------------- MODULE MCMedia --------------------------------
(***************************************************************************)
(* Media for TLC, in three instances that one run explores side by side, in *)
(* a plan that has room for one upload and the files of another: two photos *)
(* that are processed while nothing ages, one of which does not decode; two *)
(* that are never processed and left to the sweep; and one that two runs of *)
(* its job process under two faults, with the sweep.                        *)
(***************************************************************************)
EXTENDS Media

CONSTANTS cat, dog, w1, w2

MCSize == [p \in Photos |-> IF p = cat THEN 3 ELSE 2]

MCStored == [p \in Photos |-> 1]

VARIABLE world  \* the instance, chosen at the start

MCInit == Init /\ world \in {"pair", "left", "alone"}

Inside ==
  /\ world = "pair" => work'[w2] = Idle /\ aged' = {} /\ sweep' = Idle /\ fresh' = objects'
  /\ world = "left" => faults' <= 1 /\ \A w \in Workers : work'[w] = Idle
  /\ world = "alone" => up'[dog] = "idle"
  /\ UNCHANGED world

mcvars == <<vars, world>>

\* For the photo that is alone: a request and a run go on once they have
\* started, a waiting job is taken, the sweep comes round and time passes.
MCSpec ==
  /\ MCInit /\ [][Next /\ Inside]_mcvars
  /\ WF_mcvars(Upload(cat) /\ Inside) /\ WF_mcvars(LateEnqueue(cat) /\ Inside)
  /\ \A w \in Workers : WF_mcvars(Run(w) /\ Inside)
  /\ WF_mcvars(Sweep /\ Inside)
  /\ WF_mcvars((Day(cat) \/ \E k \in Kinds : Hour(<<cat, k>>)) /\ Inside)

\* No tile spins for ever, though runs overlap and transactions are lost.
TilesSettle == world = "alone" => Settles(cat)

\* The sweep collects everything that was left behind.
OrphansSwept == world = "alone" => Collected(cat)
================================================================================
