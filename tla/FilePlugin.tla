------------------------------ MODULE FilePlugin ------------------------------
(***************************************************************************)
(* The configurations of the file plugin (plugin/file/file_plugin.c) and   *)
(* their copies: the names in the heartbeat, the specifications of the     *)
(* event source (event_source.c, event_source_fswatch.c) and configs.flatb.*)
(* The router's worker thread installs and removes them; the monitor's     *)
(* thread matches the names of files that change against the               *)
(* specifications and looks the configuration up.  The specifications and  *)
(* the configurations have locks of their own, and whoever changes a       *)
(* specification joins the monitor's thread.                               *)
(*                                                                         *)
(* What becomes of the jobs is left to ChangeReports.  That the monitor's  *)
(* thread runs when start_monitor returns is assumed: it sleeps 100 ms.    *)
(***************************************************************************)
EXTENDS Naturals, FiniteSets, FiniteSetsExt

CONSTANTS
  Names,        (* of configurations; the trees are ordered by name        *)
  Files,
  None,
  Broken,       (* the contents of a configs.flatb that cannot be read     *)
  MaxRequests,  (* bound on the requests                                   *)
  MaxEvents,    (* bound on the events that match                          *)
  MaxStarts     (* bound on the starts of the plugin after the first       *)

ASSUME PluginAssumption ==
  /\ Names \subseteq Nat /\ IsFiniteSet(Names)
  /\ None \notin [inc : SUBSET Files, exc : SUBSET Files]
  /\ Broken \notin [Names -> [inc : SUBSET Files, exc : SUBSET Files] \union {None}]
  /\ MaxRequests \in Nat /\ MaxEvents \in Nat /\ MaxStarts \in Nat

(* What a configuration includes and excludes.                             *)
Contents == [inc : SUBSET Files, exc : SUBSET Files]

VARIABLES
  configs,  (* fplg->configs                                               *)
  listed,   (* the configs of the capability file.monitor_request          *)
  specs,    (* esrc->specs                                                 *)
  file,     (* configs.flatb                                               *)
  unsaved,  (* the last attempt to write it failed                         *)
  handler,  (* where install_config_node is, see HandlerStates             *)
  name,     (* the configuration it is called for                          *)
  monitor,  (* the monitor's thread, see MonitorStates                     *)
  hit,      (* the configuration whose specification matched               *)
  event,    (* the file that changed                                       *)
  job,      (* the contents its job is made from                           *)
  up,       (* "up", "stopping" or "down"                                  *)
  requests, events, starts

copies == <<configs, listed, specs, file, unsaved>>
worker == <<handler, name>>
thread == <<monitor, hit, event, job>>
bounds == <<requests, events, starts>>
vars   == <<copies, worker, thread, up, bounds>>

(* From "specs" to "write" it has config_guard for writing.                *)
(* idle      no request is handled                                         *)
(* specs     the configurations were changed, and a scan pushed            *)
(* join      the specifications were changed, the monitor is to be joined  *)
(* start     the monitor is to be started                                  *)
(* open      configs.flatb is to be opened                                 *)
(* write     it is truncated, and to be written                            *)
HandlerStates == {"idle", "specs", "join", "start", "open", "write"}

(* off       there is no thread                                            *)
(* on        it waits for events                                           *)
(* matched   in event_received, before config_guard                        *)
(* found     it has made a job and given config_guard back                 *)
MonitorStates == {"off", "on", "matched", "found"}

Nothing == [n \in Names |-> None]

Installed(c) == {n \in Names : c[n] # None}

Init ==
  /\ configs = Nothing /\ listed = {} /\ specs = Nothing
  /\ file = Nothing /\ unsaved = FALSE
  /\ handler = "idle" /\ name = None
  /\ monitor = "off" /\ hit = None /\ event = None /\ job = None
  /\ up = "up"
  /\ requests = 0 /\ events = 0 /\ starts = 0

-----------------------------------------------------------------------------
(* monitor_handler, install_config_node                                    *)

(* Slip: a name stays when its configuration is removed.                   *)
ListedForGood(n, empty, all) ==
  LET left == IF all THEN {} ELSE listed IN {IF empty THEN left ELSE left \union {n}}

(* The names after a request: erase_idx is the place of the name, if it was*)
(* there, and anything otherwise.                                          *)
ListedAfter(n, empty, all) ==
  LET left == IF all THEN {} ELSE listed IN
  IF ~empty THEN {left \union {n}}
  ELSE IF n \in left THEN {left \ {n}}
  ELSE {left} \union {left \ {m} : m \in left}

ConfigsAfter(n, empty, c) == [configs EXCEPT ![n] = IF empty THEN None ELSE c]

(* A request without includes removes the configuration; includes that are *)
(* not absolute are dropped, so there may be none of another request.      *)
Install(n, empty, all, c) ==
  /\ up = "up" /\ handler = "idle" /\ requests < MaxRequests
  /\ listed' \in ListedAfter(n, empty, all)
  /\ configs' = ConfigsAfter(n, empty, c)
  /\ handler' = "specs" /\ name' = n
  /\ requests' = requests + 1
  /\ UNCHANGED <<specs, file, unsaved, thread, up, events, starts>>

(* add_or_replace_event_source_specs, remove_event_source_spec             *)
ChangeSpecs ==
  /\ up = "up" /\ handler = "specs"
  /\ specs' = [specs EXCEPT ![name] = configs[name]]
  /\ handler' = "join"
  /\ UNCHANGED <<configs, listed, file, unsaved, name, thread, up, bounds>>

(* Slip: the monitor is joined without being told to stop.                 *)
JoinedOnly == monitor = "off"

(* The monitor stops between two callbacks.                                *)
Joined == monitor \in {"off", "on"}

StopMonitor ==
  /\ up = "up" /\ handler = "join" /\ Joined
  /\ monitor' = "off"
  /\ handler' = "start"
  /\ UNCHANGED <<copies, name, hit, event, job, up, bounds>>

(* get_paths: there is nothing to watch without an include.                *)
Started(s) == IF \E n \in Installed(s) : s[n].inc # {} THEN "on" ELSE "off"

StartMonitor ==
  /\ up = "up" /\ handler = "start"
  /\ monitor' = Started(specs)
  /\ handler' = "open"
  /\ UNCHANGED <<copies, name, hit, event, job, up, bounds>>

-----------------------------------------------------------------------------
(* save_configs                                                            *)

Open ==
  /\ up = "up" /\ handler = "open"
  /\ \/ file' = Broken /\ handler' = "write" /\ UNCHANGED unsaved
     \/ unsaved' = TRUE /\ handler' = "idle" /\ UNCHANGED file
  /\ UNCHANGED <<configs, listed, specs, name, thread, up, bounds>>

Write ==
  /\ up = "up" /\ handler = "write"
  /\ \/ file' = configs /\ unsaved' = FALSE
     \/ unsaved' = TRUE /\ UNCHANGED file
  /\ handler' = "idle"
  /\ UNCHANGED <<configs, listed, specs, name, thread, up, bounds>>

-----------------------------------------------------------------------------
(* The monitor's thread                                                    *)

Deciding(f) == {n \in Installed(specs) : f \in specs[n].inc \union specs[n].exc}

(* Slip: excludes are not looked at.                                       *)
MatchAnyInclude(f) ==
  LET s == {n \in Installed(specs) : f \in specs[n].inc} IN IF s = {} THEN None ELSE Min(s)

(* event_source_file_name_matches_any: the first specification that knows  *)
(* the file decides.                                                       *)
Match(f) ==
  IF Deciding(f) = {} THEN None
  ELSE LET n == Min(Deciding(f)) IN IF f \in specs[n].exc THEN None ELSE n

(* worker_callback.  An event that does not match leaves no trace.         *)
Event(f) ==
  /\ monitor = "on" /\ events < MaxEvents
  /\ Match(f) # None
  /\ monitor' = "matched" /\ hit' = Match(f) /\ event' = f
  /\ events' = events + 1
  /\ UNCHANGED <<copies, worker, job, up, requests, starts>>

(* event_received, with config_guard for reading                           *)
Find ==
  /\ monitor = "matched" /\ handler = "idle"
  /\ job' = configs[hit]
  /\ monitor' = IF configs[hit] = None THEN "on" ELSE "found"
  /\ UNCHANGED <<copies, worker, hit, event, up, bounds>>

(* The job is pushed.                                                      *)
Push ==
  /\ monitor = "found"
  /\ monitor' = "on" /\ hit' = None /\ event' = None /\ job' = None
  /\ UNCHANGED <<copies, worker, up, bounds>>

-----------------------------------------------------------------------------

(* plugin_stop; the router's worker thread has ended.                      *)
Stop ==
  /\ up = "up" /\ handler = "idle"
  /\ up' = "stopping"
  /\ UNCHANGED <<copies, worker, thread, bounds>>

Gone ==
  /\ up' = "down"
  /\ configs' = Nothing /\ listed' = {} /\ specs' = Nothing
  /\ handler' = "idle" /\ name' = None
  /\ monitor' = "off" /\ hit' = None /\ event' = None /\ job' = None
  /\ UNCHANGED <<file, unsaved, bounds>>

Stopped == up = "stopping" /\ Joined /\ Gone

Crash == up # "down" /\ Gone

Loaded == IF file = Broken THEN Nothing ELSE file

(* plugin_start, load_configs: the names of the capability stay empty.     *)
Start ==
  /\ up = "down" /\ starts < MaxStarts
  /\ up' = "up"
  /\ configs' = Loaded /\ specs' = Loaded
  /\ monitor' = Started(Loaded)
  /\ starts' = starts + 1
  /\ UNCHANGED <<listed, file, unsaved, worker, hit, event, job, requests, events>>

-----------------------------------------------------------------------------

Handler == ChangeSpecs \/ StopMonitor \/ StartMonitor \/ Open \/ Write

Monitor == Find \/ Push

Next ==
  \/ \E n \in Names, empty, all \in BOOLEAN, c \in Contents : Install(n, empty, all, c)
  \/ Handler
  \/ Monitor
  \/ \E f \in Files : Event(f)
  \/ Stop \/ Stopped \/ Crash \/ Start

Spec == Init /\ [][Next]_vars

(* The two threads, and the one that stops the plugin, go on when they can.*)
FairSpec == Spec /\ WF_vars(Handler) /\ WF_vars(Monitor) /\ WF_vars(Stopped)

-----------------------------------------------------------------------------
(* Properties                                                              *)

Configs == [Names -> Contents \union {None}]

TypeOK ==
  /\ configs \in Configs /\ specs \in Configs /\ file \in Configs \union {Broken}
  /\ listed \subseteq Names /\ unsaved \in BOOLEAN
  /\ handler \in HandlerStates /\ name \in Names \union {None}
  /\ monitor \in MonitorStates
  /\ hit \in Names \union {None} /\ event \in Files \union {None}
  /\ job \in Contents \union {None}
  /\ up \in {"up", "stopping", "down"}

(* Although the monitor looks the file up in the specifications and the    *)
(* configuration in the plugin, under different locks, a job is made only  *)
(* for a configuration that includes the file and does not exclude it.     *)
JobsWanted ==
  /\ monitor = "matched" /\ handler = "idle" => configs[hit] # None
  /\ monitor = "found" => event \in job.inc \ job.exc

(* The heartbeat names no configuration that was removed.                  *)
ListedAreInstalled == up = "up" => listed \subseteq Installed(configs)

(* When no request is handled, the event source watches what the plugin has*)
(* installed, and the next start of the plugin would install the same,     *)
(* unless the file could not be written.                                   *)
InForce ==
  up = "up" /\ handler = "idle" =>
    /\ specs = configs
    /\ monitor = "off" <=> Started(configs) = "off"
    /\ unsaved \/ Loaded = configs

(* The copies of the configurations: the heartbeat's list, the event       *)
(* source's specifications and the file.                                   *)
CopiesAgree == ListedAreInstalled /\ InForce

(* A request is handled to its end, or its thread and the monitor's wait   *)
(* for each other: the monitor for config_guard, in event_received, the    *)
(* other one for the monitor to be joined.  plugin_stop, when no request   *)
(* is handled, always returns.                                             *)
ReturnsOrMeets ==
  /\ handler # "idle" ~> (handler = "idle" \/ (handler = "join" /\ monitor = "matched"))
  /\ up = "stopping" ~> up = "down"

==============================================================================
