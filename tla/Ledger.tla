--------------------------------- MODULE Ledger ---------------------------------
(***************************************************************************)
(* What an order's money promises, whoever reports it and however often:   *)
(* it is recorded once, it can be given back only after that, and nobody   *)
(* outside hears that an order was paid before it was.                     *)
(***************************************************************************)
EXTENDS Integers

CONSTANT Orders

VARIABLES
  rows,   \* payments recorded for each order
  back,   \* orders whose money was returned
  heard   \* orders the outside world was told are paid

vars == <<rows, back, heard>>

Init ==
  /\ rows = [o \in Orders |-> 0]
  /\ back = {}
  /\ heard = {}

Pay(o) ==
  /\ rows[o] = 0
  /\ rows' = [rows EXCEPT ![o] = 1]
  /\ UNCHANGED <<back, heard>>

Return(o) ==
  /\ rows[o] = 1 /\ o \notin back
  /\ back' = back \cup {o}
  /\ UNCHANGED <<rows, heard>>

Hear(o) ==
  /\ rows[o] = 1
  /\ heard' = heard \cup {o}
  /\ UNCHANGED <<rows, back>>

Next == \E o \in Orders : Pay(o) \/ Return(o) \/ Hear(o)

Spec == Init /\ [][Next]_vars
================================================================================
