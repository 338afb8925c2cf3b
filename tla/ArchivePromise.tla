---------------------------- MODULE ArchivePromise ----------------------------
(***************************************************************************)
(* What a suspended merchant is promised about the copy of their data      *)
(* (docs/PHASES.md, Q18): every suspension gets at most one archive of its *)
(* own, the account offers it only while that suspension lasts, and nobody *)
(* is told of an archive that was never made.  Nothing here says how the   *)
(* archive is built, stored or taken back.                                 *)
(***************************************************************************)
EXTENDS Naturals

VARIABLES
  issued,   \* how many suspensions there have been; they are numbered from 1
  current,  \* the suspension the account is in, 0 while it is not suspended
  archive,  \* the suspension whose archive the account offers, 0 for none
  made,     \* the suspensions whose archive was made
  told      \* the suspensions whose merchant was told where the archive is

vars == <<issued, current, archive, made, told>>

Init ==
  /\ issued = 0
  /\ current = 0
  /\ archive = 0
  /\ made = {}
  /\ told = {}

\* A new suspension starts with no archive, whatever an earlier one offered.
Suspend ==
  /\ issued' = issued + 1
  /\ current' = issued + 1
  /\ archive' = 0
  /\ UNCHANGED <<made, told>>

\* Only the current suspension can be given an archive, and only its own.
Store ==
  /\ current # 0
  /\ archive' = current
  /\ made' = made \cup {current}
  /\ UNCHANGED <<issued, current, told>>

\* The message goes out through an outbox, so it may arrive late, never early.
Tell ==
  /\ \E g \in made : told' = told \cup {g}
  /\ UNCHANGED <<issued, current, archive, made>>

\* Reactivation, or the deletion of the account.
Close ==
  /\ current' = 0
  /\ archive' = 0
  /\ UNCHANGED <<issued, made, told>>

Next == Suspend \/ Store \/ Tell \/ Close

Spec == Init /\ [][Next]_vars
===============================================================================
