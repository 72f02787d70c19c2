# Yella in TLA+

Yella is an agent that watches files and reports their changes through a
router process to whoever asked for them. This directory models the agent's
concurrent and persistent parts in TLA+, checks them on small instances with
TLC, and proves some of the results for every size with TLAPS. Source paths
below are relative to `src/`.

## 1. The system

| Component | Source | State it keeps | Operations | What makes it correct |
|---|---|---|---|---|
| Spool | `agent/agent/spool.c` | partition files, write and read positions, size counter | create, push, pop (with timeout), cull, empty, destroy | first in first out and at most once across restarts; only whole old files are dropped; the size limit |
| Agent router link | `agent/agent/router.c` | connection state, one ZeroMQ pipe per sender, the spool | send, spool thread, socket worker, monitor events, destroy | a message is forwarded, spooled or dropped for a known reason; spooled messages are not overtaken; shutdown ends |
| Agent core | `agent/agent/agent.c`, `main.c`, `signal_handler_posix.c` | plugins, handlers, heartbeat thread | start, make directories, dispatch, heartbeat, stop | a plugin is called only between its start and its stop; what it needs is there before it begins |
| Settings | `agent/common/settings.c` | values by section and key, the parsed file | set defaults, read, get | what is used unseen is there, and is what was written |
| Saved state | `agent/agent/saved_state.c` | agent id, boot count, MAC addresses in a file | load, reset, save | an agent keeps its identity, and no boot's heartbeats are numbered like another's |
| File plugin | `agent/plugin/file/file_plugin.c` | configurations, their lock, their file | monitor request, event, settings, start, stop | configurations in memory, on disk and in the event source agree |
| Event source | `agent/plugin/file/event_source.c`, `platform/*/` | specifications, monitor thread | add, replace, remove, clear, pause, match | an event goes to the configuration that includes the file |
| Job queue | `agent/plugin/file/job_queue.c` | queue, runner thread, statistics, one empty callback | push, run, callback, statistics, destroy | each job once and in order, the callback comes, destroy returns |
| Jobs | `agent/plugin/file/job.c` | none between jobs | run, crawl, process an element | a scan looks at the files that are asked for; the reports and the state database describe the same changes |
| State databases | `agent/plugin/file/state_db_pool.c`, `state_db.c` | open databases with last use, SQLite files | get, remove, destroy, insert, update, delete | bounded, least recently used is closed, no row is lost |
| Accumulator | `agent/plugin/file/accumulator.c` | one buffer per recipient, worker thread | add, pass by time or size, destroy | each report once, in order, and eventually |
| Elements, attributes, matcher | `element.c`, `attribute.c`, `collect_attributes.c`, `file_name_matcher.c` | values | compare, diff, pack, match | agree with their definitions |
| Router process | `router/*.cpp` | ZeroMQ and RabbitMQ sockets, a list of ready threads | configure, forward to and from the agents | no thread and no message is lost |
| Common library | `agent/common` | values | vectors of pointers, parcels, names and directories | what is put in comes out |
| Third-party code, console, test programs | `agent/common/sds.c`, `console`, `agent/test`, ... | | | not part of the models |

How they interact. The job queue's runner runs jobs; a job gets a database from
the pool, compares files with it, and adds reports to the accumulator. The
accumulator's worker gives parcels to `send_plugin_message`, which is a sender
of the router link, as is the heartbeat thread. A sender writes to its own
pipe when the connection is up and the spool empty, and to the spool
otherwise. The spool thread pops the spool into a pipe of its own, the socket
worker takes messages from all pipes and forwards them to the router process,
where a worker gives each to a back-end thread that publishes it to RabbitMQ.
In the other direction a receiver consumes the broker's messages (orders) for
the agents; the agent's socket worker calls the file plugin's handlers, which change the
configurations, the event source and the database pool while jobs run. The
event source calls back into the plugin, which pushes jobs.

What is hard about it:

- *interleaving*: each component has a lock of its own and most decisions are
  taken after it was released (state and spool in `send_router_message`, the
  queue's length and its callback in `event_received`, the database a job works
  with);
- *crash and restart*: the spool and the databases survive, the accumulator and
  the pipes do not; files are written in several steps;
- *partial failure*: a file cannot be opened or removed, a send fails, the
  worker thread ends and the process goes on;
- *limits*: the spool's partitions, the pipes' high-water mark, the pool's
  maximum, the queue's length, the size of a message;
- *waiting*: condition variables with and without timeouts, and threads joined
  while others wait for them.

`PROJECT.json` lists the hazards line by line with the properties that cover
them.

## 2. The modules

### Spool, SpoolQueue, SpoolProofs

`Spool` models `spool.c` with the process that runs it. `files` is the
directory: for each position (major, minor) the events in the file and its
bytes. An event is the number of the push that wrote it. `wpos`, `wopen`,
`wbytes` and `rpos`, `ropen`, `rlast`, `reof` are the two streams, `size` the counter
`stats.current_size`. The steps inside one critical section are actions of
their own, `step` says which one is next, and between any two of them the
process may be killed (`CrashInPush`, `CrashInPop`) and started again
(`Create`). A crash in the middle of an event leaves it `torn`.

`MayPush`, `RollPartition`, `WriteEvent`, `Cull` are `spool_push`;
`PopStarts`, `PopWaits`, `PopWakes`, `PopTimesOut`, `ReadEvent`,
`RemoveReadFile`, `OpenNextReadFile` and their failing variants are
`spool_pop`, `advance_to_next_unvisited` and `increment_read_spool_partition`.
A next file that cannot be opened (`OpenNextFails`) leaves `sp->readf` NULL, which the
next pop hands to `fread`: from then on there are pushes and a crash, and no pop.
`OldestAfter` and `NewestIn` are the two comparisons that `find_file` is given.

`SpoolQueue` says what the callers rely on: a FIFO queue that may drop a run
of consecutive events and never returns one twice. `Spool` implements it with
`queue <- Unread`, the events that the reader can still reach.

### AgentRouter, ScanProofs

`AgentRouter` composes senders, heartbeat, spool thread, socket worker, monitor
events and `destroy_router`. A sender's `send_router_message` is three steps
(`ReadState`, `LookAtSpool`, then `PushToSpool` or `SendTransient`), because
the state's mutex, the spool's mutex and the pipe are never held together. The
spool appears as a queue and two flags (`oldFiles`, `newFiles`) that say
whether `spool_empty_of_messages` is true. `EmptyMeansUnused`, a part of
`Spool`'s `SizeIsRight`, is what justifies this: once used, a spool does not
look empty again in that process.
The worker creates its sockets first (`CreateSockets`, `CreateSocketsFails`);
later an event that cannot be processed ends it (`EventFails`) and closes the
pipes. A pipe is a sequence of at most `PipeLimit` messages (the high-water mark); a full one blocks the sender.
The DEALER socket holds at most `WireLimit` of the messages that were forwarded; while
it is full (`WireFull`) the worker stays in `zmq_msg_send`, and sees neither events nor
`should_stop`. Only the peer makes room (`PeerReads`), and also takes what the socket
held when it was closed. ZeroMQ itself is external and modelled from how it is called.
The monitor reports a connection and its end (`ReportedStates`); nothing but "connected"
makes a difference to the code that is modelled.

`yella_destroy_agent` joins the heartbeat, destroys the senders (`DestroySenders`) and
the router: `Stop`, `JoinWorker`, `JoinSpooler` and, in `TermContext`, `zmq_ctx_term`, which
waits for every open socket and, as `ZMQ_LINGER` is not set, for every message that the peer
has not taken. The threads of the plugins are stopped later and may be anywhere in
`send_router_message` meanwhile. A call whose sender or mutex was freed (`Dangling`) goes
on, fails or crashes; a thread that sends its first message opens a socket that
nobody closes (`OpenSocket`).

The CONSTANT `ReadyValues` is what the uninitialised variable `ready` of
`spool_main` (`router.c:462`) may hold. The build is one without assertions: with
them the process ends at the first spooled message, for `router.c:464` asserts
two parts and `agent.c:178` sends one.

### RouterFace, RouterFaceProofs

`RouterFace` is the router process with its four kinds of threads, each with
the way in which it handles errors: the worker of the agents' face (`Bind`,
`Poll`, `TakeReady`, `PassOn`, `Dispatch`, `ReadFails`, `LeaveLoop`), which
keeps the list of back-ends that are ready and reads the agents' messages only
if there is one; the back-end threads (`Connect`, `Receive`, `Publish`,
`PublishFails`, `PublishIsFatal`, `BackendEnds`); the receiver of the broker's
face (`Consume`, `Deliver`, `NoRecipient`, `ReceiverFails`, `ReceiverStops`);
and main, which waits for a signal or a callback of death and then destroys the
two faces one after the other. ZeroMQ and the broker are external: a message to
a REQ socket that was closed is discarded, and a PUSH socket whose peer is gone
blocks (`Blocked`). `MemoryIsLost` lets the process die of the unguarded use of
`senders_`. The CONSTANT `Errors` says which errors may happen.

`RouterConfiguration` is what the process is configured with: the defaults, the
file, which is read in a fixed order up to what is wrong in it, and the command
line (its parser is external). `MCRouterFace` extends `RouterFace` with two
back-ends and compares `Configuration` with a direct statement of the rule, for
every small file and command line, in an assumption. (The option
`max-face-deaths` is parsed and nothing reads it.)

### Agent, AgentProofs, MCAgent, Settings, Parcel

`Agent` is the life of the agent over several boots. `main` goes through the
steps of `yella_create_agent` and `yella_destroy_agent`, and between any two of
them the process may end (`Crash`), after which only `file`
(`saved_state.flatb`) and the directories are left. `LoadSettings` reads the
configuration file (`Settings`) and ends the process when the router is not
set; `LookAtDir`, `MakeDir` and `NoDir` are `yella_ensure_dir_exists` for the
directories of the agent, while another process may make some of them
(`Meddle`). It asks whether a file is there, of any kind (`OtherFiles` are those that are
no directories), except for the directory itself, whose name a setting gives a separator
at its end (`settings.c:619`), with which only a directory is found; `mkdir` fails for
what is in the way (`Obstacle`) or for any other reason (the kind `mkdir` of `Errors`).
`yella_file_exists` is taken to say no only where there is nothing: a directory that may not be searched has
the agent try `mkdir`, which is not permitted there either. Loading the saved state is `KeepState`, `ResetState` or `Hang`,
saving it `OpenFails`, or `Truncate` and `Write`. Plugins are loaded in the
order of the directory (`LoadPlugin`), each setting its own defaults, and
stopped in the same order; the CONSTANT `Kind` says which of them cannot be
stopped because a function is missing. Meanwhile the heartbeat thread asks the
plugins for their status and numbers its messages, the socket worker calls the
handlers, and the plugins' threads send, through senders that are destroyed
before them (`PluginSends`, `MemoryIsLost`).

`Settings` is `settings.c` as operators on a parsed document, which is, as in
libyaml, a sequence of nodes that refer to each other by number. A setting is found
in the section it belongs to, in any section of a sequence, or in none
(`HandleYamlNode`, a recursive function of the number of a node); it keeps
the type it got first; a text becomes a number as `strtoull` reads it (`Strtoull`, with its
spaces, signs and greatest number), or a size by what it says.
A node may be referred to from several others but is not in itself
(`IsDocument`, which `AgentAssumption` demands of the configuration files:
`handle_yaml_node` would not return). `Kilo` takes the place of the 1024 bytes of a kilobyte, so that the
wrap-around of a `uint32_t`, which counts to four gigabytes, is met with small numbers;
`Characters` are those of the texts. What a document says, as opposed to what the code
reads of it, is written down without the code: `Lines` are its scalars in their order,
each with its way from the root, `Written` those that are in place for a key of a section
(under no other key, except that sequences do not matter), and `AsWritten` that a setting
has the meaning of the last of them, or its default.

`Parcel` is `parcel.c`: a parcel packed into a flat buffer and unpacked. `MCAgent`
gives the directory of plugins, the handlers, the addresses and eight forms of a
configuration file, written as trees whose nodes it numbers (`Nodes`), and assumes, for TLC to evaluate, that a size is what it
says if it fits (`ByteSizes`), that `Strtoull` reads what it should of texts with spaces,
signs and too many digits (`NumbersAreRead`), that a parcel arrives as it was sent, to the
second (`ParcelsArrive`), and that the vectors of `PtrVector` behave like
sequences (`VectorsAreSequences`).

### PtrVector

`PtrVector` is `ptr_vector.c`, the list the agent and its plugins keep
everything in: a block of memory of a capacity, whose first places are taken.
The other modules write such a list as a sequence; `FilePluginProofs` proves
of each operation that this is right.

### JobQueue

`JobQueue` models the producers (the event source's `event_received` and a new
configuration's first scan), the runner, the callback and the destruction.
`FinishJob` and `CountJob` are two steps because `run_job` returns without the
mutex. (`accumulated_microseconds` is added to between them, without it; statistics
asked for in between, `job_queue.c:159`, divide by a `jobs_run` of 0.) `found` is what
the event source last found out about the queue; `EventReceived` and
`SetCallback` are apart because the lock is released in between. Pausing the
event source is commented out in the code, so nothing stops it in the model.

### Accumulator, Outbox, JobReports, JobReportsProofs

`Accumulator` models `accumulator.c`: `AddMessage` under the mutex, and the
worker's passes, one `Visit` per recipient, in which `Due` decides by time or
by size. `Outbox` is the abstract specification: one queue per recipient,
delivered as a whole, closed only when empty. The mapping takes the buffers
for `pending` and what was sent to each recipient for `delivered`.

`JobReports` composes the queue and the accumulator as `file_plugin.c` does. It
extends `JobQueue` and instantiates `Accumulator`; the job that runs adds reports
for its recipient (`Report`), and `plugin_stop` destroys the event source, the
queue, the pool and the accumulator, each step waiting for the thread it joins
(`SourceDestroyed`, `TellQueue`, `QueueDestroyed`, ...). `JobReportsProofs` holds the
proofs about both, and those about the queue alone and about the pool.

### StateDbPool

`StateDbPool` models the pool and the files behind it. Each call of the pool is
one step (the code has no lock). `RemoveFromPool` (the socket worker) may fall between
`GetOpen`/`GetClosed` and `Store` (the runner): then `Store` works with a
database that was closed, and `StoreClosed` lets the statement fail or the
process die. `stored` is what the jobs stored since the configuration was last
removed, the history the properties compare the files with. A configuration is
the rank of its name because the pool's tree decides between databases of the
same age. The clock may stand still between two calls; it is assumed not to be set back,
after which the database used last could look the oldest.

### ChangeReports, ChangeReportsProofs

`ChangeReports` follows a change from the file system to the recipient: the
events the monitor delivers or loses (`EventReceived`, `StopMonitor`,
`StartMonitor`), the jobs (`TakeJob`, `EndJob`), `process_element` in its
steps (`Collect`, `Compare`, `ReadFails`, `Store`, `StoreFails`, `AddReport`), the
accumulator (`Send`), and stop, crash and restart (`Stop`, `Stopped`, `Crash`,
`Start`). `db` holds the rows of the database, which survives; `told` is what the
reports that were added say of each file, `known` what those that were sent say.
Two sets are history: a file is `astray` from when its row and its reports part
(a crash takes a report whose row was written, or a row could not be read or written),
and `unseen` from when it changes while nobody watches until a job looks at it. A row that
cannot be read is one that is not there, as for the code: a file that has gone is then
taken for one that never was (`unseen`), one that is there for a new one (`astray`). A job
whose database cannot be opened does nothing (`SkipJob`), and its file is unseen again.
The properties name exactly these exceptions. `Others` are names in an
included directory that are excluded; `crawl_dir` hands the last element it had
to them (`job.c:76`).

### Scan, Attributes, FileNames, MCScan, ScanProofs

`Scan` has the same jobs with what `ChangeReports` leaves abstract: a tree of
directories, patterns, and the ten types of attributes. A job is a sequence of
steps, an include is a file (`RunLiteral`) or a pattern (`RunPattern`) whose
directory is crawled (`Open`, `CrawlWanted`, `CrawlUnwanted`, `CrawlMissing`,
`EntryType`, `EndCrawl`, with one frame per call of `crawl_dir`, and with the job's excludes,
of which an event's job has none: `JobExcludes`); each file that is
found goes through `process_element` (`Process`: `ProcessNew`, `ProcessGone`,
`ProcessKnown`). A
file may change or vanish between any two steps. `undefined` holds the first
thing a job does whose outcome the language leaves open, and a job that did it
goes no further: the properties name the circumstances for each cause.

`Attributes` is `attribute.c` and `element.c` as operators: what is collected for a
type, how two attributes compare (the difference of two sizes, times or
identifiers is cut to an `int`, of `IntValues` values here, and has the square of that), what a difference of two
elements holds, and what is left of an attribute in a row. `FileNames` is
`file_name_matcher.c` (`Matches`) and the names of directories, with a second,
declarative definition of what a pattern stands for (`Designates`) that the
properties of `Scan` use. `ScanAssumption` says what a scenario is: the names are
as the file system writes them, and those of their directories are among them, what is
below a name is below a directory, a file's contents are what the calls that look at it may return (`IsContent`), and for the names
and patterns of the scenario `Matches` finds what `Designates` says, which TLC
evaluates for each scenario before it runs. `MCScan` gives eight small trees with the changes that
may happen in them.

`RowsAgreeAtRest` is about the names the scans keep (`IsKept`), and leaves out those of
which the code does lose track: a name with special characters, which its event turns
into a pattern; one that a crawl for another pattern passes over; and one that only an
include with an escape in its directory stands for, which no scan finds, and whose
row only its own events make.

### FilePlugin, FilePluginProofs

`FilePlugin` models the configurations and their four copies: `configs`, the
names in the heartbeat (`listed`), the specifications of the event source
(`specs`) and `configs.flatb` (`file`). A request takes the steps `Install`,
`ChangeSpecs`, `StopMonitor`, `StartMonitor`, `Open` and `Write`, all but the
first and last with `config_guard` held for writing and with the guard of the
event source taken and given back once more. In between the monitor's thread
matches (`Event`), looks up the configuration (`Find`, which needs
`config_guard`) and pushes a job (`Push`). `StopMonitor` joins that thread.
A configuration is the rank of its name, as the trees are ordered by name.

`NatSets` holds the lemmas that the proofs share: a set of natural numbers
has a least element (`NatMinimum`), what holds of 0 and passes from each number to
the next holds of all (`NatSetInduction`), the same for finite sets that grow by one
element (`SubsetInduction`), and what the sum of a function over a finite set is,
and is without one of them (`SumIsSums`, `SumWithout`); what a part of a sequence is
(`PartOf`, `PrefixIs`); that a recursion of so many steps has a function
(`RecursionExists`), and what gathering, flattening and taking the last of a sequence
make (`KeepsAt`, `FlattenIsSeq`, `SameLastOfAll`).

## 3. What the runs check

| Run | Question | Bounds | Result |
|---|---|---|---|
| `spool_safety` | is anything lost silently, is the counter right and does a used spool not look empty, does the limit hold, does the reader wake up | 6 pushes, partitions of two events, 3 partitions, any number of restarts that the pushes give a meaning to | holds |
| `spool_order` | order and at-most-once with files that cannot be opened or removed; refinement of `SpoolQueue` | 5 pushes | holds |
| `spool_sticky_eof` | is a file removed only when read, where `fread` respects the end-of-file indicator | 5 pushes | violated |
| `router` | is every message accounted for, are spooled ones overtaken, with failing pushes and sends and a worker that ends; is the spool emptied while connected; does `destroy_router` return | 1 sender with 2 sends and the heartbeat with 1, 2 monitor events, pipes and a DEALER socket of 1 | holds, with the exceptions named in the properties: a peer that does not read, the three places where `destroy_router` may stay, senders that are destroyed in use |
| `router_face` | does any message vanish without an error, does one back-end's error stop the others, does the process end when it is told to; what are the settings | 2 back-ends, 2 messages, 2 orders, every error; small files and command lines | holds, with the exceptions named in the properties |
| `agent` | are heartbeats numbered without repetition over boots, is a plugin called only while it runs, is a setting that is used unseen ever missing or other than what was written, are the directories there before they are used | 3 boots of 1 heartbeat, 3 plugins of which one cannot be stopped, 3 lists of addresses, 8 forms of the configuration file (one is empty, one names a relative directory, two a file where a directory should be), one that is too big and one that cannot be read, every error | holds, but for boots whose state file could not be opened |
| `job_queue` | order, callback, every job run, destruction returns | 6 jobs, limit 2 | holds |
| `job_reports` | do a job's reports reach their recipient, in order, once, and all before `plugin_stop` returns; refinement of `Outbox` | 2 jobs, 3 reports, 2 sizes, 2 recipients, a stop at any time | holds |
| `state_db_pool` | least recently used is closed, no row lost | 3 configurations, 2 databases, clock to a bound with equal readings | holds |
| `change_reports` | do reports, database and file system agree, with a crash, a restart, failed reads and writes and databases that cannot be opened | 1 file and an excluded name, 2 attribute types of 2 values, 2 changes, 2 installations, 2 starts | holds, with the exceptions named in the state |
| `file_plugin` | do the copies of the configurations agree, are jobs made for the files that are wanted, does a request end | 2 configurations, 1 file, 3 requests, 2 matching events, 1 restart | holds, except that a request may never end |
| `scan` | which files does a scan look at, when is what a job does undefined, do rows agree with the files at rest and reports with the rows, does the agent come to rest | 8 trees of 2 to 5 names, 2 changes at any moment, `int` of two values | holds, with the exceptions named in the properties |

Why the bounds are enough. Three partitions are the least with which `cull` can
find a file other than the reader's and the writer's; six pushes of two to a
file fill them and cull once more after a restart. With `PipeLimit` 1 and two
sends a sender blocks; with two monitor events a connection comes and goes. Six
jobs with a limit of two make the queue full, empty and full again. Two jobs
with three reports of one or two bytes, and messages of two, reach every relation
of a buffer to the limit, for one recipient while the other has a rest, and put
the reports of one job on both sides of a pass and of `plugin_stop`. Three
configurations and two databases make room once and again, with ties of the
clock, which has milliseconds. State constraints are not used: the bounds
(`MaxPushes`, `MaxSends`, `MaxBeats`, `MaxEvents`, `MaxJobs`, `MaxReports`,
`MaxNow`, `MaxChanges`, `MaxInstalls`, `MaxRequests`, `MaxStarts`, `MaxMessages`,
`MaxOrders`, `MaxBoots`) are guards of the actions that would pass them. Two changes of one file make each of its
reports follow any other; two installations put a scan behind a scan, and two
starts a crash on either side of a clean stop. Two configurations are what a
specification needs to hide a file from another one by excluding it, and three
requests install, replace and remove. Two back-ends are enough for one to fail
and the other to go on, and each may have to take two messages in turn. Three
boots are a boot, one that crashed while it saved its state, and the one that
finds what was left. The trees of `scan` are one for each feature that can
surprise: a directory below, one that goes, the root, escapes, one that ends a name, a
configuration installed with other types, hashes, access control lists; two changes are what a
file needs to differ by the whole range of an `int` and by something else. The
matcher is compared with `Designates` for all patterns of up to four characters and
names of up to three. `CHECK_DEADLOCK FALSE` is said of the systems that stop,
or whose bounded supply of requests, messages or boots does.

A disagreement that a run shows:

- `spool_sticky_eof`: the reader stands at the end of the file that is still
  written to. C11 and glibc from 2.28 let `fread` fail while the end-of-file
  indicator is set; the code never clears it, then finds the writer ahead and
  removes the file with its unread events. All the other runs of the spool,
  and the theorems where a removal may fail, describe a library whose `fread`
  tries again (`StickyEof = FALSE`).

Seen in the code and told by the exceptions of a property:

- `install_config_node` joins the monitor's thread while it holds
  `config_guard`, for which that thread may be waiting. The agent's socket worker,
  which calls it, then never returns, and neither does shutdown (`ReturnsOrMeets`).
- What a job does is undefined in six circumstances (`UndefinedOnlyIf`), of which
  three are common: an entry of an included directory that is not matched or is
  excluded (`existing_elem` of `crawl_dir` is stale or unset), a directory that
  cannot be opened, and a row with an attribute that is not collected any more. Another
  one is a name that ends with an escape, of an include or of an event: `unescape_pattern`
  reads past its end.
- An include whose directory is written with an escape finds nothing, and an event
  for a name with special characters is taken for a pattern (`ScanFinds`,
  `RowsAgreeAtRest`).
- After a digest was collected the time of access is set back, which is a change of
  the file's metadata and an event: a configuration with hashes never comes to rest
  (`ComesToRest`).
- The size of a partition or of a message with a unit is read with another type
  than it is got with: `4M` are four bytes (`ValuesAsWritten`).
- Two sizes, times or identifiers that differ by a multiple of 2^32 are not
  different (`RowsAgreeAtRest` and `ToldFollowsRows` say "as far as an int tells").

Seen in the code and not the subject of a run: `spool_main` frees buffers that it
has given to ZeroMQ (`router.c:467`); removing a configuration whose database is
not open leaves its file (`state_db_pool.c:113`); the sum of the jobs' times is
updated without the mutex (`job_queue.c:159`); `message_received` uses a parcel
without looking whether it could be unpacked (`agent.c:298`);
`mac_addresses_changed` (`saved_state.c:45`) tests an index that its inner loop
does not change, so an agent whose first address has changed never gets out of
it (`Hang`); after a `fatal_error` in a back-end thread the router process stays
up and serves nobody (`zeromq_agent_face.cpp:70`), and its receiver may block
for ever, which `Ends` excepts.

Limits of what holds, met while modelling: `CulledIsOldest` needs a limit with room
for two full files: with less, `cull` removes the file that is being written.
`SpoolBounded`, and that the next read file exists, are checked without file errors.
`DrainedWhileConnected` needs `ready` to hold TRUE by chance, and a peer that reads again
and again. `DestroyReturns` excepts a crash over a destroyed sender and names three
places where `destroy_router` may stay: joining a worker that waits for room in the DEALER
socket (`WorkerWaitsForPeer`), joining a spool thread that has popped a message and sends
it after the worker has closed its end (`SpoolerWaitsForWorker`), and in `zmq_ctx_term`,
for messages the peer does not take or the socket of a plugin's thread (`ContextWaits`).
`DrainedWhileUp` says that the spool is emptied, not that no wakeup is lost: the wait has
a time limit, and `PopTimesOut` is always possible. In the accumulator a buffer may exceed the maximum message
size by one report, and a steady stream of reports for one recipient can put
off another's for as long as it lasts (the run's reports end). In the pool a
maximum of 0 behaves as 1.

## 4. Fairness

The specifications with liveness are `FairSpec` (`FairAllSpec` of `JobReports`).
Every fairness condition but one is weak, on a thread that the operating system
schedules and that the code never lets give up while its condition holds:

- Spool: the steps of the spool thread's loop and of whoever holds the guard. A
  push, a crash and a restart are never forced. `DrainedWhileUp` assumes a
  process that from some time on stays up.
- AgentRouter: the spool thread, the socket worker (they poll with timeouts of
  500 ms, so they take a step without being signalled), the continuation of
  a call a sender has begun, and the steps of `destroy_router` once what they wait for
  is so; all as long as the process has not crashed. That the peer reads is not assumed: a
  worker that waits for it has no step, and `DrainedWhileConnected` has a peer that
  reads again and again as its hypothesis. New sends, monitor events, the beginning of the
  destruction and failures are not forced.
- JobQueue: the runner (its wait is one on a condition variable that `Woken`
  states) and the second step of an `event_received` that found the queue full.
- Accumulator: the worker (its wait has a time limit).
- JobReports: the runner, the accumulator's worker, and each step of
  `plugin_stop`. Strong fairness on `TellAccumulator`, for which
  `destroy_accumulator` takes the mutex: between two passes the worker waits, and
  the mutex is free for the whole of that wait, again and again.
- ChangeReports: the handler of a request, the runner of the job queue and the
  accumulator's worker, and the delivery of an event by a monitor that runs.
  Changes, requests, stops and crashes are not forced.
- FilePlugin: the handler of a request, the monitor's callback once it matched,
  and a stop that was begun.
- RouterFace: the worker's loop, main, each back-end thread, and the receiver
  when it holds an order or is told to stop. Messages, orders, errors and the
  signal are not forced.
- Scan: the runner, and the delivery of events. Changes of files and installations
  are not forced.
- StateDbPool, Agent: none, their properties are safety properties.

## 5. What is proved

Proofs hold for all values of the constants that satisfy the named assumptions
of the modules (`SpoolAssumption`, `RouterAssumption`, `JobQueueAssumption`,
`PoolAssumption`, `ReportsAssumption`, `PluginAssumption`, `FaceAssumption`,
`SettingsAssumption`, `AttributesAssumption`: types of the constants, nothing about their
size; `AgentAssumption`, which also says that the configuration files are documents,
that the root is a directory and that directories are written without a separator at
the end; and `ScanAssumption`, which also says what the names in a scenario are and that the
matcher is right about them). A theorem that needs more says so in its own hypotheses.

*Spool* (`SpoolProofs`). `TypeCorrect`, `SpoolIsFifo` (`InOrder`: returned in
order and at most once, and nothing that was passed is left behind) and `SpoolImplementsQueue` (every step of `Spool`
is a push, a pop, a drop or a stutter of `SpoolQueue`). None of the properties
is inductive. The invariant is the conjunction of the type invariant and:
`FilesOrdered` (a later file holds later events), `WriterNewest` (no file is
newer than the one being written), `AllBehindOrigin`, `FileSizes`,
`ReaderLinked`, `ReaderBehind`, `ReaderPassed`, `ReaderDone`, `ReaderBounded` (where the reader
stands, also when it could not open its next file, all before it is visited, torn or culled), `PoppedBounded` (nothing
popped is newer than the reader's place), and the two properties. The one
assumption beyond types is `RemoveAssumption`: if a removal may fail then
`StickyEof` is FALSE; otherwise a file left with unread events would be met
again after later ones were returned.

`NothingIsLost` (`NoSilentLoss`), `SizeIsKept` (`SizeIsRight`), `SpoolIsBounded`
(`SpoolBounded`) and `CullFindsOldest` (`CulledIsOldest`) are about a spool that is
`Dependable`: files can be removed, `fread` tries again, the sizes of events are a
finite set, a partition holds more than a header, and the limit leaves room for
two full files and the events that overfill them. The last condition is what the code
needs: `cull` skips the reader's file and then the newest one is all there is, so
with less room it removes the file being written, or finds none. The run
`spool_safety` is in this setting, as are the defaults of the settings (1000
partitions of two megabytes). `SpoolIsBounded` also takes an event and a header to
fit into a partition, and `CullFindsOldest` that files can be opened. The invariant
`KeptInv` says that the counter is the sum of the sizes of the files (`SizeCounted`,
with `NatSets`), that the reader stands in the oldest file (`ReaderOldest`), which
files may be without events (`FilesUsed`: it is why the size of one header means that
the spool was not used), that no file outgrows its partition by more than an
event (`FilesBounded`), and that the writer's file was read no further than it was
written (`WriteFileUnread`, `VisitedBounded`); `BoundInv` says, for the
process that made the spool, how far the counter is from the limit at each step and
that all files but the last are full, so that one that is removed makes room for a
partition. After a restart the last file of each process may be short, and the bound
is not what the limit says; the property does not claim it either.
`RemovedFilesWereRead` is what `spool_sticky_eof` refutes where `fread` does not try
again: a file is removed only when it was read to its end.

*Agent router link* (`ScanProofs`, in its last section). `LinkTypeCorrect`, `NothingVanishes`
(`Accounted`) and `SpooledKeepTheirOrder` (`SpooledNotOvertaken`), also for what plugins send
while the agent is being destroyed (a call that fails over a destroyed sender is among what
is `gone`). Besides the
types, `Shape` says that the spool thread holds one message when it sends and that
the heartbeat never pushes. `Accounted` needs no more. The order needs what each
place holds: `ChainSorted` (a spooled message is in the spool thread's pipe, in
its hand or in the spool, and these three together are sorted for each thread),
`ForwardedFirst` (what was forwarded is older than all of them), `PipesFirst` (what
went around the spool is older than everything of its thread that was spooled),
`Numbering` (what a thread is about to send is newer than all it has sent) and
`NothingSpooled` (as long as the spool looks empty, nothing of this run was
spooled, and a thread that has decided to go around it has spooled nothing). The
last one is where the two locks matter: the decision is taken before the send, and
only the thread itself could have spooled something in between.

*Router process* (`RouterFaceProofs`). `FaceTypeCorrect` and `MessagesAreAccounted`
(`Accounted`), for any number of back-ends, messages and orders. The property needs:
`PolledIsThere` (what `zmq_poll` found is still there when it is read, for only the
worker reads it), `OffersIdle` (a back-end is in the list of ready ones or has
announced itself once, and then has nothing to do: it is why no message is given to
a back-end that holds one), `MessagesDivided` (the messages that came are divided
among the inbox, the back-ends, the broker and what was lost), `LostByError`
(something is lost only after an error or while the face stops) and `OrdersFollow`
(the orders that were consumed are delivered, under way, dropped or in the receiver's
hand, in that order).

*Agent* (`AgentProofs`). `HeartbeatsAreNumbered` (`Numbered`) and `PluginsRunWhenCalled`
(`PluginsAlive`), for any plugins, handlers, configuration files, addresses and
number of boots. Besides the types of the variables (`CoreTyped`) the numbering needs
`BootsCounted` (before the state is loaded there are fewer identifiers than boots, and
the file has counted fewer: each boot makes at most one of them, so that a new
identifier is new), `StateIsSaved` (once the state was saved, the file holds it, or
nothing, or its number is among those that could not be saved), and `FileIsAhead`
and `StateIsAhead` (no heartbeat of an identifier is numbered higher than the file's
count, nor than the running boot has got). The calls need `PlacesKept` (how far the
plugins are loaded, asked and stopped), `ThreadsFollowMain` (which threads there may be
at each step of the main thread: both have ended when the first plugin is stopped) and
`LoadedRun` (what is in the list of plugins runs until that step).

`NoSettingIsMissing` (`SettingsAreThere`) is about any configuration file that is a
document. `SettingsKept` says that every setting has a value of the type of its key
(`WellSet`) and which defaults are there at each step: a setting is never removed and
never changes its type, so what was set before the file is read stays there for the
getter of that type, whatever the file says. For this the reading of a document
(`RetrieveIs`) is shown to be a sequence of pairs of a description and a text, by
induction on the levels of its nodes (`LevelsAre`, `HandleYamlNodeIs`), and each of them
to set its key or to leave everything as it is (`MaySet`, `Sets`); of a text it is shown
that it is read as a number, whatever it says (`NumberIsNat`, `StrtoullIsNat`, `ByteSizeIsNat`), and as the
name of a directory without two separators in a row (`DirTextIs`). `DirsAreEnsured` (`DirsAreThere`) rests on
`DirsKept`: the list of the directories that are still to be looked at is ordered so that
what is above one comes before it (`Descends`, proved of `GetDirs` for every text in
`GetDirsDescends`), and everything that the agent has to have is there or in the list.
What is above one may be there as a file that is no directory, for the code does not
tell them apart (`There`); but no directory is in such a file, so that the `mkdir` of what
comes after it in the list fails, and the last of the list is found only if it is a
directory. It follows that the agent has directories when it goes on, and that it never
gives up for want of the directory that another one is in, nor because one is there that nobody else made
meanwhile. The failures that are left are an empty name, a file of that name or above it,
a directory in which nothing can be made, and what else `mkdir` may fail at. `AgentIsTyped` (`TypeOK`) follows from both.

`SettingsAreAsWritten` (`ValuesAsWritten`) compares what the code reads with what the
document says, for any document. Both are recursive functions of its nodes
(`NodeRecursion` shows that such a function exists, `NodeInduction` that what holds of a
node if it does of the nodes in it holds of all); `LastReadIsLastWritten` shows node by
node that the last text read for a key is the last one in place for it (`SameLast`,
which is kept by joining sequences, `SameLastOfAll`, and by a step of the way that does
not leave the section, `UnderFor`), `LastReadIsSet` that of what is read for a key the
last stays, and `RetrievedAsWritten` puts both together. `ValuesKept` is the invariant:
the agent's settings are as written as long as the file plugin's are not read over them,
and reading these changes neither the directory that their defaults depend on nor,
when the plugin is loaded again, the outcome (`FileRetrievedAsWritten`). It needs that no key is
described twice and none has the name of its section (`Described`). The
attempt showed that `Lines` took a mapping under a key with the name `item` for an item
of a sequence, so that the property was false for such a document, which the code does not
read; the two are told apart now, and `MCAgent` has such a document.

*Scans* (`ScanProofs`; `Scan` and `AgentRouter` share no variable). `ScanTypesHold`
(`ScanTypeOK`), `UndefinedForSixReasons` (`UndefinedOnlyIf`), `ReportsFollowRows`
(`ToldFollowsRows`), `RowsFollowFiles` (`RowsAgreeAtRest`) and `ScansFind` (`ScanFinds`), for any trees, changes,
patterns, requests and any range of an `int`. None of the five is inductive. `ScanInv` says
further:

- `TreeTyped`, `TreeIsWhole`: a file is one of its possible contents but for the time of
  its last change, which looking at it may set, and what is below a name is below a
  directory. An entry of a directory is therefore a name of the scenario.
- `ConfigTyped`, `JobsTyped`: jobs have attribute types that a request installed, and an
  event comes only after one was. It is why the element of a job is made of what the
  configurations ask for, as the reasons in `UndefinedOnlyIf` say.
- `Crawling`: a crawl is in its first directory or below it, and looks at what is below
  it. It is why an entry that is not wanted has been passed over by that pattern (the
  reason `element`), and it needs that the directory is still there or may go (the
  reason `iterator`).
- `RowsMade`: a row was packed of an element collected of its file for installed types,
  and what was told, packed, is the row as far as `compare_attributes` can tell.

The lemmas on which it rests say of the operators: a row is unpacked to the attributes
it was packed of, a list excepted (`Packed`, `Unpacked`, `ListReadsNothing`); what
compares as equal is the same modulo the range of an `int` (`SameInAnInt`,
`SameLooksTheSame`); a report of the differences makes what was told what the row is,
if no node is shared (`ToldFollows`); the sorted list has every entry
(`AclPlaces`); and of names, that what a name is below is its directory or what that is
below (`AboveDirectory`), and that an entry of a directory has the name it had
(`DirOfName`, `EntriesAreIn`). Which includes are left of a request (`Absolute`, by the
recursive function of `Gathered`) is a sequence of them, by induction over sets of numbers
(`AbsoluteIsSequence`).

`RowsFollowFiles` says what is so when nothing is left to do, and needs to know what is
so until then. `AgreeInv` says that each name that is kept

- has a row that agrees with its file;
- or an event of it is noted, or its job waits or runs (`EventToCome`);
- or its file is there, and a scan with the configuration's types waits (`ScanToCome`), or
  the job that runs has those types and comes to it (`JobComes`): it has an include left
  that leads to the name, or its crawl has an entry left that is the name or above it, or
  is about to open such a directory (`CrawlComes`).

And it says that a job with other types than the configuration's is followed by a scan with
those (`StaleFollowed`), which is why what such a job does to a row does no harm. The third
case is about files that are there: a scan finds files, not names, and of one that has
gone only the event tells. The proof has one lemma per action (`ChangeKeepsAgree` to
`CrawlMissingKeepsAgree`). They rest on what a row is after its file was looked at
(`LookedAt`: it agrees, even where `SameElement` leaves the old row), on `SomeEntry` (what
is below a directory is, or is below, one of its entries), and on two facts about the
matcher, for every name and pattern: a pattern without special characters matches nothing
but the name it is without its escapes (`LiteralMatches`), and what a pattern with one
matches is below its top directory, if that has no escape (`TopMatches`). `Matches` is a
recursive function whose values are functions; that there is one is proved by induction
from the end of the pattern (`MatchersExist`), and that it has the value that the body
of the recursion says is `MatcherAt`.

`ScansFind` says that a scan during which no file has changed looked at the files its
includes stand for (`AsksFor`), and at no other, by the time it is done. `FindInv` says it of
a scan that is under way (`ScanFollows`), and of the scans that wait that their patterns are
the configuration's includes (`ScansInclude`): what it looked at is wanted; and if no file has changed since it began, each name
that is wanted and there was looked at, or the scan comes to it (`ScanComes`), by an
include that is left or by its crawl, in the sense of `JobComes` and `CrawlComes`. The actions share the
lemmas of `AgreeInv` on how a job comes to a name (`TopIsCrawled`, `OpenComes`,
`EntryTypeComes`, `EndCrawlComes`, `TookComes`, `MissingComes`). That nothing else is
looked at needs more of the matcher: the name that a literal include is without its
escapes is one that it matches (`LiteralIsMatched`, the converse of `LiteralMatches`), if
the include does not end in the middle of an escape; and a pattern whose directory has an
escape begins its crawl at a name that is no directory, for it has the escape in it
(`EscapedFindsNothing`). The proof attempt showed that an include that ends with an escape
had to be told apart, since `unescape_pattern` reads past its end; it is the sixth reason.

*Job queue* (`JobReportsProofs`). `QueueTypeCorrect`, `JobsRunInOrder`,
`CallbackFindsAllRun`. The invariant adds to the type invariant and the order
that the runner holds exactly one job while it runs or counts one
(`RunnerHasJob`), which with the order gives the action property: an empty
queue and no job in hand mean that every job pushed was run.

*Jobs and accumulator* (`JobReportsProofs`). `JobsReportInOrder` (`JobsReported`) and
`AccumulatorImplementsOutbox` (`ImplementsOutbox`: every step of the composition is a
step or a stutter of `Outbox`); `PluginRunsQueue` shows that the composition runs the
queue of `JobQueue`, so that its theorems hold there. `RInv` adds to the queue's
invariant that reports are of jobs that have begun and in their order (`AuthorsRan`),
that the last pass leaves nothing behind it (`BuffersVisited`), that `plugin_stop`
closes the accumulator after the runner has ended (`StopOrder`: it is why no job meets an
accumulator that is being destroyed), and that what was sent to a recipient and what
is in its buffer are its reports (`Delivered`). What was sent is flattened out of the
parcels; the lemmas before say what one parcel more does to the result.

*State databases* (`JobReportsProofs`). `PoolTypeCorrect`, `PoolIsBounded`,
`PoolRetains`, `PoolClosesOldest`. The invariant adds that an open database has
a file (`OpenFilesExist`), that the time kept in the tree is the time of the
last use (`TimesKept`), and that a plugin that is down has nothing open
(`Started`). That a set of times has a least one is the lemma `NatMinimum` of
`NatSets`.

*File plugin* (`FilePluginProofs`). `TypeCorrect`, `JobsAreWanted`,
`CopiesOfConfigsAgree`. The invariant adds to the type invariant and the two
properties how far a request has got in which copy (`Handling`), that what the
monitor's thread has matched is still wanted as long as `config_guard` lets it
look (`MatchedIsWanted`), and that a plugin that is down lists nothing
(`DownListsNothing`). That is why a job is right although the specifications and
the configurations are looked at under different locks: while they differ, the
handler holds the lock that the second look needs.

*Change reports* (`ChangeReportsProofs`). `TypeCorrect`, `ReportsFollow`,
`ReportsFit`. The invariant is the type invariant, `ReportsFollowDb` and
what the job knows between its steps: `Pending` (the report about to be added
fits what was told and leads to what the row says) and `Stale` (what the
destroyed element that `crawl_dir` may use again still holds). `ReportsFit`,
an action property, says that an addition is of a file the recipient does not
know, a removal or a change of one it knows, and that a change changes it.

*Vectors of pointers* (`FilePluginProofs`). `PushBackAppends`, `PushFrontPrepends`,
`EraseRemovesOne` and `ClearEmpties`: on a valid vector (`Valid`: the block has as
many places as its capacity, the first of them taken) each operation leaves a
valid vector whose contents are those of the operation on sequences, and the
destructor was called with what was removed and with nothing else. The reason that
a full block always gets room is that its capacity is at least two, so that half
of it again is more (`Larger`). Copying and assigning, loops over the elements,
are compared with sequences by `MCAgent` for small vectors.

The type invariants of `Spool`, `AgentRouter`, `JobQueue`, `StateDbPool`,
`ChangeReports`, `FilePlugin` and `RouterFace`, and the pool's bound, are proved and not
checked again by a run.

Only model-checked: all liveness (`DrainedWhileUp`, `DrainedWhileConnected`,
`DestroyReturns`, `NobodyWaits`, `ReportsAreSent`, `UpToDate`, `ReturnsOrMeets`,
`Served`, `Ends`, `ComesToRest`), which the proof system does not reach, as ENABLED
is out of its reach too. Every invariant that a run checks is the statement of a
theorem. The library's induction theorems take
an operator, which the provers cannot instantiate. Induction is possible all the same
where the statement can be written as a set of numbers, or of subsets, that has no least
counterexample (`NatSetInduction`, `SubsetInduction`): the sums over the files of
the spool, the concatenation of parcels, the includes of a request, the matcher, the
numbers in a text (`Counts`), the settings that are read (`Sets`) and the nodes of a
document are proved like that; a recursive function is first shown to exist
(`RecursionExists`). What is out of
reach are folds with an operator for an argument (`Designates`).

## 6. What is not modelled

Within the modelled components: errors of `fwrite` and `fflush`, a short read
of a single byte, and the wrap-around of 32-bit sequence numbers in the spool,
and its statistics other than the size; what a freed sender or mutex does to
others than the call that uses it in the router link, and incoming messages in the router link
(`process_router_in_event`, which hands an unpacked parcel to a handler; the
dispatch is in `Agent`); the jobs' times; the flatbuffers' contents in the
accumulator; races inside two overlapping calls of the pool, whose calls are single
steps; a `configs.flatb` that was written in part and still has its identifier,
pausing the event source (nothing calls it), and the reading of the
configurations' names by `plugin_status` in FilePlugin; requests and failures of
the database, and a directory that cannot be opened for want of descriptors, in Scan, directories and patterns in ChangeReports, each of which
leaves these to the other; how a digest is computed; the contents of messages, and
how the addresses are found, in Agent, and a failing `opendir` of `load_plugins`; how the
scanner that reads a size takes groups of digits and numbers too big for it, in Settings; the parsers of YAML and of command lines.

Event source: the models are of the fswatch implementation. The FreeBSD
implementation (`platform/freebsd/event_source_freebsd.c`) is unfinished, so that
there is no behaviour to be faithful to: `add_or_replace_event_source_impl_specs`
is declared and not defined, the dtrace program it starts is `<to do>`, the
setting for its cache is commented out where it would be read and its value
dereferenced, and the list of pending events starts uninitialised.

Components not modelled, each with its reason in `PROJECT.json`: heartbeat
contents, plugin interface, third-party code, console and test programs. Of the
common library, text conversions and the wrappers of threads and locks are not
modelled; locks appear where they are used.

## 7. Plan

Done since the first version: the attributes, the matcher and the jobs on a tree
(`Attributes`, `FileNames`, `Scan`), the settings and directories (`Settings`,
`Agent`), the composition of the jobs with the accumulator (`JobReports`), the
vectors, the parcels, the router's configuration, and the proofs about
`AgentRouter`, `PtrVector`, `RouterFace`, `JobReports`, the numbering and the calls
of `Agent`, its settings, their values and its directories, the loss, counter and bound of `Spool`, and the rows, at rest too, reports and
undefined outcomes of `Scan`, and what its scans find. What is left:

1. Incoming messages in `AgentRouter` (the form that
   `process_router_in_event` expects), and `plugin_status` under the other lock in
   `FilePlugin`.
2. A composition of `AgentRouter` and `RouterFace` over the external ZeroMQ
   link: what an agent sent is published once, or given up for a known reason.
3. The pool with calls that overlap, in several steps each.
