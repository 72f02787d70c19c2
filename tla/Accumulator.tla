------------------------------ MODULE Accumulator ------------------------------
(***************************************************************************)
(* The file plugin's accumulator (plugin/file/accumulator.c): it collects  *)
(* the reports of the jobs in one buffer per recipient, and its worker     *)
(* thread sends a buffer when the time limit is reached or when it has     *)
(* grown to the size of a message.  The worker holds the mutex from the    *)
(* first buffer it looks at to the last, sends included.                   *)
(*                                                                         *)
(* A report is its number in the order of the calls of                     *)
(* add_accumulator_message.                                                *)
(***************************************************************************)
EXTENDS Naturals, Sequences, FiniteSets, SequencesExt

CONSTANTS
  Recipients,
  ReportSizes,     (* bytes a report may take in a buffer                  *)
  MaxMessageSize,  (* agent/max-message-size                               *)
  MaxReports       (* bound on the reports of a behaviour                  *)

VARIABLES
  nodes,    (* the recipients that have a node in acc->recipients          *)
  buffer,   (* recipient -> reports in its flatbuffer                      *)
  bytes,    (* recipient -> flatcc_builder_get_buffer_size                 *)
  sent,     (* the parcels given to send_message                           *)
  minor,    (* minor_seq                                                   *)
  worker,   (* where worker_main is                                        *)
  toVisit,  (* the nodes its iterator has not come to                      *)
  timeUp,   (* time_limit_reached                                          *)
  stop,     (* acc->should_stop                                            *)
  added     (* how many reports were added                                 *)

vars == <<nodes, buffer, bytes, sent, minor, worker, toVisit, timeUp, stop, added>>

(* wait   in the loop around the condition, without the mutex              *)
(* pass   going over the nodes, with the mutex                             *)
(* last   the same once more, after should_stop                            *)
(* done   the thread has ended                                             *)
WorkerStates == {"wait", "pass", "last", "done"}

Init ==
  /\ nodes = {}
  /\ buffer = [r \in Recipients |-> << >>]
  /\ bytes = [r \in Recipients |-> 0]
  /\ sent = << >> /\ minor = 0
  /\ worker = "wait" /\ toVisit = {} /\ timeUp = FALSE
  /\ stop = FALSE
  /\ added = 0

(* The mutex is free.                                                      *)
Unlocked == worker \in {"wait", "done"}

(* add_accumulator_message.  The file plugin destroys its job queue, which *)
(* adds, before it destroys the accumulator.                               *)
AddMessage(r, sz) ==
  /\ Unlocked /\ ~stop /\ added < MaxReports
  /\ nodes' = nodes \union {r}
  /\ added' = added + 1
  /\ buffer' = [buffer EXCEPT ![r] = Append(@, added + 1)]
  /\ bytes' = [bytes EXCEPT ![r] = @ + sz]
  /\ UNCHANGED <<sent, minor, worker, toVisit, timeUp, stop>>

-----------------------------------------------------------------------------
(* worker_main                                                             *)

SizeExcess == \E r \in nodes : bytes[r] >= MaxMessageSize

(* The time limit is reached, or a buffer is as large as a message; the    *)
(* clock is read once more to tell which.                                  *)
StartPass(late) ==
  /\ worker = "wait" /\ ~stop
  /\ late \/ SizeExcess
  /\ timeUp' = late
  /\ toVisit' = nodes
  /\ worker' = "pass"
  /\ UNCHANGED <<nodes, buffer, bytes, sent, minor, stop, added>>

(* Slip: a buffer is due by its size only.                                 *)
DueBySize(r) == buffer[r] # << >> /\ (bytes[r] >= MaxMessageSize \/ worker = "last")

Due(r) ==
  /\ buffer[r] # << >>
  /\ \/ timeUp \/ bytes[r] >= MaxMessageSize
     \/ worker = "last"

(* The buffer becomes the payload of a parcel and starts again.            *)
Send(r) ==
  /\ sent' = Append(sent, [recipient |-> r, minor |-> minor, reports |-> buffer[r]])
  /\ minor' = minor + 1
  /\ buffer' = [buffer EXCEPT ![r] = << >>]
  /\ bytes' = [bytes EXCEPT ![r] = 0]

(* Slip: the iterator stops at the first buffer that is sent.              *)
RestIfNothingSent(r) == IF Due(r) THEN {} ELSE toVisit \ {r}

Rest(r) == toVisit \ {r}

Visit(r) ==
  /\ worker \in {"pass", "last"}
  /\ toVisit' = Rest(r)
  /\ IF Due(r) THEN Send(r) ELSE UNCHANGED <<buffer, bytes, sent, minor>>
  /\ UNCHANGED <<nodes, worker, timeUp, stop, added>>

EndPass ==
  /\ worker = "pass" /\ toVisit = {}
  /\ worker' = "wait" /\ timeUp' = FALSE
  /\ UNCHANGED <<nodes, buffer, bytes, sent, minor, toVisit, stop, added>>

StartLastPass ==
  /\ worker = "wait" /\ stop
  /\ toVisit' = nodes
  /\ worker' = "last"
  /\ UNCHANGED <<nodes, buffer, bytes, sent, minor, timeUp, stop, added>>

EndLastPass ==
  /\ worker = "last" /\ toVisit = {}
  /\ worker' = "done"
  /\ UNCHANGED <<nodes, buffer, bytes, sent, minor, toVisit, timeUp, stop, added>>

Worker ==
  \/ \E late \in BOOLEAN : StartPass(late)
  \/ \E r \in toVisit : Visit(r)
  \/ EndPass \/ StartLastPass \/ EndLastPass

-----------------------------------------------------------------------------

(* destroy_accumulator sets should_stop under the mutex and joins.         *)
Stop ==
  /\ Unlocked /\ ~stop
  /\ stop' = TRUE
  /\ UNCHANGED <<nodes, buffer, bytes, sent, minor, worker, toVisit, timeUp, added>>

Destroyed == worker = "done" /\ UNCHANGED vars

Next ==
  \/ \E r \in Recipients, sz \in ReportSizes : AddMessage(r, sz)
  \/ Worker
  \/ Stop \/ Destroyed

Spec == Init /\ [][Next]_vars

(* The worker runs, and time passes for it.                                *)
Fairness == WF_vars(Worker)

FairSpec == Spec /\ Fairness

-----------------------------------------------------------------------------
(* Properties                                                              *)

TypeOK ==
  /\ nodes \subseteq Recipients /\ toVisit \subseteq nodes
  /\ buffer \in [Recipients -> Seq(1 .. added)]
  /\ \A r \in Recipients \ nodes : buffer[r] = << >>
  /\ bytes \in [Recipients -> Nat]
  /\ sent \in Seq([recipient : Recipients, minor : Nat, reports : Seq(1 .. added)])
  /\ worker \in WorkerStates
  /\ timeUp \in BOOLEAN /\ stop \in BOOLEAN
  /\ added \in 0 .. MaxReports

(* The reports that were sent to a recipient, in that order.               *)
SentTo(r) ==
  FlattenSeq([i \in DOMAIN sent |->
                IF sent[i].recipient = r THEN sent[i].reports ELSE << >>])

(* The accumulator implements the outbox: a recipient gets every report    *)
(* that was added for it once and in that order, and when the worker has   *)
(* ended nothing is left behind.                                           *)
Box == INSTANCE Outbox WITH
         Reports   <- 1 .. MaxReports,
         pending   <- buffer,
         delivered <- [r \in Recipients |-> SentTo(r)],
         closed    <- worker = "done"

ImplementsOutbox == Box!Spec

(* Every report is sent, though the worker may be at any point of a pass   *)
(* when it is added and the plugin may be stopped at any time.             *)
EveryReportIsSent ==
  \A n \in 1 .. MaxReports :
    added >= n ~> \E i \in DOMAIN sent : n \in Range(sent[i].reports)

=============================================================================
