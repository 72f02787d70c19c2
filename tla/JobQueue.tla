------------------------------- MODULE JobQueue -------------------------------
(***************************************************************************)
(* The file plugin's queue of jobs (plugin/file/job_queue.c) and the two   *)
(* threads that fill it: the event source, which asks to be called back    *)
(* when the queue has emptied after it found it full (event_received of    *)
(* file_plugin.c), and the agent's socket worker, which installs           *)
(* configurations.  One runner thread takes the jobs.                      *)
(*                                                                         *)
(* A job is its number in the order of the pushes.                         *)
(***************************************************************************)
EXTENDS Naturals, Sequences

CONSTANTS
  MaxQueued,   (* file/max-queued-jobs                                     *)
  MaxJobs      (* bound on the jobs of a behaviour                         *)

ASSUME JobQueueAssumption ==
  MaxQueued \in Nat \ {0} /\ MaxJobs \in Nat

VARIABLES
  queue,        (* jq->q                                                   *)
  running,      (* the job run_job is working on, in a sequence of its own *)
  ran,          (* the jobs that were run, in that order                   *)
  runner,       (* where job_queue_main is                                 *)
  cb,           (* a callback is set                                       *)
  called,       (* how often a callback was called                         *)
  stop,         (* jq->should_stop                                         *)
  events,       (* how many jobs the event source has pushed               *)
  found,        (* what the event source found: "room" or a "full" queue   *)
  jobsPushed,   (* stats.jobs_pushed                                       *)
  jobsRun,      (* stats.jobs_run                                          *)
  maxSize       (* stats.max_size                                          *)

stats == <<jobsPushed, jobsRun, maxSize>>
vars  == <<queue, running, ran, runner, cb, called, stop, events, found, stats>>

(* idle     at the head of the loop, perhaps waiting for the condition     *)
(* run      in run_job, without the mutex                                  *)
(* measured the job has ended, and is not counted yet                      *)
(* done     the thread has ended                                           *)
RunnerStates == {"idle", "run", "measured", "done"}

Init ==
  /\ queue = << >> /\ running = << >> /\ ran = << >>
  /\ runner = "idle"
  /\ cb = FALSE /\ called = 0 /\ stop = FALSE
  /\ events = 0 /\ found = "room"
  /\ jobsPushed = 0 /\ jobsRun = 0 /\ maxSize = 0

-----------------------------------------------------------------------------

(* push_job_queue                                                          *)
Push ==
  /\ jobsPushed < MaxJobs
  /\ queue' = Append(queue, jobsPushed + 1)
  /\ jobsPushed' = jobsPushed + 1
  /\ maxSize' = IF Len(queue) + 1 > maxSize THEN Len(queue) + 1 ELSE maxSize

(* event_received: pausing the event source is commented out.              *)
EventReceived ==
  /\ ~stop /\ found = "room"
  /\ Push
  /\ events' = events + 1
  /\ found' = IF Len(queue) + 1 >= MaxQueued THEN "full" ELSE "room"
  /\ UNCHANGED <<running, ran, runner, cb, called, stop, jobsRun>>

(* set_job_queue_empty_callback, after the mutex was free for a moment.    *)
SetCallback ==
  /\ found = "full"
  /\ cb' = TRUE
  /\ found' = "room"
  /\ UNCHANGED <<queue, running, ran, runner, called, stop, events, stats>>

(* install_config_node pushes, however long the queue is.                  *)
ConfigInstalled ==
  /\ ~stop
  /\ Push
  /\ UNCHANGED <<running, ran, runner, cb, called, stop, events, found, jobsRun>>

-----------------------------------------------------------------------------
(* job_queue_main                                                          *)

(* Slip: a callback does not end the wait.                                 *)
WokenByJob == stop \/ queue # << >>

Woken == stop \/ queue # << >> \/ cb

(* Slip: the last job is about to run.                                     *)
NearlyEmpty == Len(queue) <= 1

Empty == queue = << >>

CallBack ==
  /\ runner = "idle" /\ Woken /\ ~stop
  /\ Empty
  /\ cb
  /\ called' = called + 1
  /\ cb' = FALSE
  /\ UNCHANGED <<queue, running, ran, runner, stop, events, found, stats>>

(* Slip: the job that came last.                                           *)
LastFirst(n) == n = Len(queue)

FirstFirst(n) == n = 1

TakeJob ==
  /\ runner = "idle" /\ Woken /\ ~stop
  /\ \E n \in DOMAIN queue :
       /\ FirstFirst(n)
       /\ running' = <<queue[n]>>
       /\ queue' = SubSeq(queue, 1, n - 1) \o SubSeq(queue, n + 1, Len(queue))
  /\ runner' = "run"
  /\ UNCHANGED <<ran, cb, called, stop, events, found, stats>>

(* run_job returns; the mutex is not taken yet.                            *)
FinishJob ==
  /\ runner = "run"
  /\ ran' = ran \o running
  /\ running' = << >>
  /\ runner' = "measured"
  /\ UNCHANGED <<queue, cb, called, stop, events, found, stats>>

CountJob ==
  /\ runner = "measured"
  /\ jobsRun' = jobsRun + 1
  /\ runner' = "idle"
  /\ UNCHANGED <<queue, running, ran, cb, called, stop, events, found, jobsPushed, maxSize>>

RunnerEnds ==
  /\ runner = "idle" /\ Woken /\ stop
  /\ runner' = "done"
  /\ UNCHANGED <<queue, running, ran, cb, called, stop, events, found, stats>>

Runner ==
  \/ CallBack \/ TakeJob \/ FinishJob \/ CountJob \/ RunnerEnds

-----------------------------------------------------------------------------

(* destroy_job_queue, when the event source is gone.                       *)
Stop ==
  /\ ~stop /\ found = "room"
  /\ stop' = TRUE
  /\ UNCHANGED <<queue, running, ran, runner, cb, called, events, found, stats>>

(* The runner was joined: the jobs that are left are destroyed.            *)
Destroyed == runner = "done" /\ UNCHANGED vars

Next ==
  \/ EventReceived \/ SetCallback \/ ConfigInstalled
  \/ Runner
  \/ Stop \/ Destroyed

Spec == Init /\ [][Next]_vars

(* The runner thread runs, and the event source leaves event_received.     *)
Fairness == WF_vars(Runner) /\ WF_vars(SetCallback)

FairSpec == Spec /\ Fairness

-----------------------------------------------------------------------------
(* Properties                                                              *)

TypeOK ==
  /\ queue \in Seq(Nat) /\ running \in Seq(Nat) /\ ran \in Seq(Nat)
  /\ runner \in RunnerStates
  /\ cb \in BOOLEAN /\ called \in Nat /\ stop \in BOOLEAN
  /\ events \in Nat /\ found \in {"room", "full"}
  /\ jobsPushed \in 0 .. MaxJobs /\ jobsRun \in Nat
  /\ maxSize \in Len(queue) .. jobsPushed

(* The jobs are run one at a time, in the order they were pushed, each     *)
(* once, and until the queue is destroyed none is lost.                    *)
RunInOrder == ran \o running \o queue = [i \in 1 .. jobsPushed |-> i]

(* When the callback is called every job was run and counted: what         *)
(* job_queue_test.c:86 asserts of the statistics.                          *)
CalledBackWhenDrained ==
  [][called' # called => jobsRun = jobsPushed /\ running = << >>]_vars

(* Every job is run, and an event source that found the queue full is      *)
(* called back even if the queue emptied before the callback was set,      *)
(* unless the plugin is stopped; then destroy_job_queue returns.           *)
NobodyWaits ==
  /\ \A n \in 1 .. MaxJobs : jobsPushed >= n ~> jobsRun >= n \/ stop
  /\ (found = "full" \/ cb) ~> (found = "room" /\ ~cb) \/ stop
  /\ stop ~> runner = "done"

=============================================================================
