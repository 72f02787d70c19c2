------------------------------ MODULE SpoolQueue ------------------------------
(***************************************************************************)
(* What the spool promises to the threads that use it: a lossy FIFO queue. *)
(* Events are numbered in the order they are pushed.  A pop returns the    *)
(* oldest event of the queue, so events come out in the order they went in *)
(* and none comes out twice, however often the process is restarted.       *)
(* Events may be dropped, but only as a run of consecutive ones: a culled  *)
(* file, or the one a crash took with it.                                  *)
(***************************************************************************)
EXTENDS Naturals, Sequences

VARIABLES
  queue,   (* the events that can still be popped *)
  pushed,  (* number of the last event pushed     *)
  popped   (* the events popped, in that order    *)

vars == <<queue, pushed, popped>>

Init == queue = {} /\ pushed = 0 /\ popped = << >>

(* The event joins the queue, or is lost on its way to the disk.           *)
Push ==
  /\ pushed' = pushed + 1
  /\ queue' \in {queue, queue \union {pushed + 1}}
  /\ UNCHANGED popped

Pop ==
  \E e \in queue :
    /\ \A f \in queue : e <= f
    /\ queue' = queue \ {e}
    /\ popped' = Append(popped, e)
    /\ UNCHANGED pushed

Drop ==
  /\ queue' \in SUBSET queue
  /\ \A a, b \in queue \ queue' : \A c \in queue : a < c /\ c < b => c \notin queue'
  /\ UNCHANGED <<pushed, popped>>

Next == Push \/ Pop \/ Drop

Spec == Init /\ [][Next]_vars
==============================================================================
