------------------------------ MODULE JobReports ------------------------------
(***************************************************************************)
(* The jobs and what comes of them: the queue and its runner (JobQueue),   *)
(* whose jobs report to the accumulator (Accumulator), from the file       *)
(* plugin's start to the end of plugin_stop, which destroys the event      *)
(* source, the queue and the accumulator (plugin/file/file_plugin.c).      *)
(*                                                                         *)
(* A job reports what it has found to one recipient, that of the           *)
(* configuration it was made for, as often as there are differences.  The  *)
(* runner waits for the accumulator while a buffer is sent.                *)
(***************************************************************************)
EXTENDS JobQueue, FiniteSets, SequencesExt

CONSTANTS Recipients, ReportSizes, MaxMessageSize, MaxReports  (* of Accumulator *)

ASSUME ReportsAssumption ==
  /\ IsFiniteSet(Recipients)
  /\ ReportSizes \subseteq Nat \ {0}
  /\ MaxMessageSize \in Nat \ {0} /\ MaxReports \in Nat

VARIABLES
  nodes, buffer, bytes, sent, minor, worker, toVisit, timeUp, added,
  closing,    (* acc->should_stop                                          *)
  recipient,  (* of each job, in the order of the pushes                   *)
  author,     (* history: the job each report is of                        *)
  plugin      (* where plugin_stop is, see PluginSteps                     *)

Acc == INSTANCE Accumulator WITH stop <- closing

accumulator == <<nodes, buffer, bytes, sent, minor, worker, toVisit, timeUp, added, closing>>
all         == <<vars, accumulator, recipient, author, plugin>>

(* up           plugin_stop was not called                                 *)
(* source       in destroy_event_source                                    *)
(* queue        in destroy_job_queue                                       *)
(* pool         in destroy_state_db_pool                                   *)
(* accumulator  in destroy_accumulator                                     *)
(* stopped      it has returned                                            *)
PluginSteps == {"up", "source", "queue", "pool", "accumulator", "stopped"}

AllInit ==
  /\ Init /\ Acc!Init
  /\ recipient = << >> /\ author = << >>
  /\ plugin = "up"

-----------------------------------------------------------------------------
(* While the plugin is up                                                  *)

(* create_job with the recipient of the configuration, from either thread  *)
JobFor(r) ==
  /\ plugin = "up"
  /\ EventReceived \/ ConfigInstalled
  /\ recipient' = Append(recipient, r)
  /\ UNCHANGED <<accumulator, author, plugin>>

CallbackIsSet ==
  /\ SetCallback
  /\ UNCHANGED <<accumulator, recipient, author, plugin>>

(* process_element: the job that runs adds a report.                       *)
Report(sz) ==
  /\ runner = "run"
  /\ Acc!AddMessage(recipient[running[1]], sz)
  /\ author' = Append(author, running[1])
  /\ UNCHANGED <<vars, recipient, plugin>>

RunnerStep ==
  /\ Runner
  /\ UNCHANGED <<accumulator, recipient, author, plugin>>

WorkerStep ==
  /\ Acc!Worker
  /\ UNCHANGED <<vars, recipient, author, plugin>>

-----------------------------------------------------------------------------
(* plugin_stop; the socket worker, which installs configurations, has      *)
(* ended.                                                                  *)

(* Slip: the accumulator is destroyed before the queue.                    *)
AccumulatorFirst ==
  [source |-> "accumulator", accumulator |-> "queue", queue |-> "pool", pool |-> "stopped"]

Following ==
  [source |-> "queue", queue |-> "pool", pool |-> "accumulator", accumulator |-> "stopped"]

GoOn(step) ==
  /\ plugin = step
  /\ plugin' = Following[step]
  /\ UNCHANGED <<recipient, author>>

StopPlugin ==
  /\ plugin = "up"
  /\ plugin' = "source"
  /\ UNCHANGED <<vars, accumulator, recipient, author>>

(* The event source's thread has left event_received.                      *)
SourceDestroyed ==
  /\ found = "room"
  /\ GoOn("source")
  /\ UNCHANGED <<vars, accumulator>>

TellQueue ==
  /\ plugin = "queue" /\ Stop
  /\ UNCHANGED <<accumulator, recipient, author, plugin>>

RunnerJoined == stop /\ runner = "done"

(* The jobs that are left are destroyed with the queue.                    *)
QueueDestroyed ==
  /\ RunnerJoined
  /\ GoOn("queue")
  /\ UNCHANGED <<vars, accumulator>>

PoolDestroyed ==
  /\ GoOn("pool")
  /\ UNCHANGED <<vars, accumulator>>

TellAccumulator ==
  /\ plugin = "accumulator" /\ Acc!Stop
  /\ UNCHANGED <<vars, recipient, author, plugin>>

AccumulatorDestroyed ==
  /\ closing /\ worker = "done"
  /\ GoOn("accumulator")
  /\ UNCHANGED <<vars, accumulator>>

PluginStop ==
  \/ SourceDestroyed \/ TellQueue \/ QueueDestroyed \/ PoolDestroyed
  \/ TellAccumulator \/ AccumulatorDestroyed

Stopped == plugin = "stopped" /\ UNCHANGED all

AllNext ==
  \/ \E r \in Recipients : JobFor(r)
  \/ CallbackIsSet
  \/ \E sz \in ReportSizes : Report(sz)
  \/ RunnerStep \/ WorkerStep
  \/ StopPlugin \/ PluginStop \/ Stopped

AllSpec == AllInit /\ [][AllNext]_all

(* The threads run, time passes, a job ends, and plugin_stop goes on.  The *)
(* accumulator's mutex, which destroy_accumulator takes, is free for whole *)
(* waits between two passes.                                               *)
FairAllSpec ==
  /\ AllSpec
  /\ WF_all(CallbackIsSet) /\ WF_all(RunnerStep) /\ WF_all(WorkerStep) /\ WF_all(PluginStop)
  /\ SF_all(TellAccumulator)

-----------------------------------------------------------------------------
(* Properties                                                              *)

(* The reports of the jobs for a recipient.                                *)
ReportsFor(r) ==
  FlattenSeq([n \in DOMAIN author |->
                IF recipient[author[n]] = r THEN <<n>> ELSE << >>])

(* What jobs have found reaches its recipient in the order in which the    *)
(* jobs were pushed, each report once, and all of it before plugin_stop    *)
(* returns, however the queue, the worker's passes and the destruction     *)
(* interleave; and a job never meets an accumulator that is being          *)
(* destroyed.  (file_plugin.c:613, job_queue.c:84, accumulator.c:123)      *)
JobsReported ==
  /\ runner = "run" => ~ closing
  /\ \A m, n \in DOMAIN author : m < n => author[m] <= author[n]
  /\ \A r \in Recipients : Acc!SentTo(r) \o buffer[r] = ReportsFor(r)
  /\ plugin = "stopped" => \A r \in Recipients : buffer[r] = << >>

(* The accumulator between the job queue and the agent is still an Outbox: *)
(* nothing is lost, repeated or reordered on the way to one recipient, and *)
(* nothing is left behind.  (accumulator.c:107, 123)                       *)
ImplementsOutbox == Acc!ImplementsOutbox

(* Every report is sent, though the worker may be at any point of a pass   *)
(* when it is added, and plugin_stop, once called, returns.                *)
(* (accumulator.c:80, file_plugin.c:598)                                   *)
ReportsAreSent ==
  /\ Acc!EveryReportIsSent
  /\ plugin = "source" ~> plugin = "stopped"

===============================================================================
