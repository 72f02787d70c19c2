-------------------------------- MODULE Outbox --------------------------------
(***************************************************************************)
(* What the accumulator promises to the jobs that report changes: for each *)
(* recipient a queue that is now and then delivered as a whole.  Nothing is*)
(* lost, repeated or reordered on the way to one recipient, and once the   *)
(* outbox is closed nothing is left in it.                                 *)
(***************************************************************************)
EXTENDS Sequences

CONSTANTS
  Recipients,
  Reports

VARIABLES
  pending,    (* recipient -> reports still held back                      *)
  delivered,  (* recipient -> reports sent, in that order                  *)
  closed      (* nothing will be delivered any more                        *)

vars == <<pending, delivered, closed>>

Init ==
  /\ pending = [r \in Recipients |-> << >>]
  /\ delivered = [r \in Recipients |-> << >>]
  /\ closed = FALSE

Add(r, m) ==
  /\ ~closed
  /\ pending' = [pending EXCEPT ![r] = Append(@, m)]
  /\ UNCHANGED <<delivered, closed>>

Deliver(r) ==
  /\ pending[r] # << >>
  /\ delivered' = [delivered EXCEPT ![r] = @ \o pending[r]]
  /\ pending' = [pending EXCEPT ![r] = << >>]
  /\ UNCHANGED closed

Close ==
  /\ \A r \in Recipients : pending[r] = << >>
  /\ closed' = TRUE
  /\ UNCHANGED <<pending, delivered>>

Next ==
  \/ \E r \in Recipients : Deliver(r) \/ \E m \in Reports : Add(r, m)
  \/ Close

Spec == Init /\ [][Next]_vars
===============================================================================
