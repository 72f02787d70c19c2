--------------------------------- MODULE Agent ---------------------------------
(***************************************************************************)
(* The agent's life, boot after boot: main.c, yella_create_agent and       *)
(* yella_destroy_agent of agent.c, with the settings and the directories   *)
(* it begins with, the heartbeat thread, the dispatch of messages to the   *)
(* plugins' handlers, the plugins' threads that send, and the saved state  *)
(* (saved_state.c) that numbers the boots.  The router link is             *)
(* AgentRouter; of it there are the socket worker, which calls             *)
(* message_received, and the senders here.                                 *)
(***************************************************************************)
EXTENDS Settings, SequencesExt

CONSTANTS
  Prefix,      (* the directory the agent is installed in                  *)
  ConfigFiles, (* the configuration files there may be: big, readable, and *)
               (* doc, Null if what is in it is not valid                  *)
  FirstDirs,   (* the directories there are at first                       *)
  Closed,      (* those nothing can be made in                             *)
  OtherFiles,  (* the files that are no directories                        *)
  PluginDir,   (* the plugins in the order of the directory                *)
  File,        (* the one of plugin/file                                   *)
  Kind,        (* what each does when it is loaded, see PluginKinds        *)
  Handles,     (* the types of the messages each has a handler for         *)
  MacLists,    (* the lists of addresses the host may have                 *)
  None,
  Errors,      (* what may fail, see ErrorKinds                            *)
  MaxBoots, MaxBeats  (* bounds on the boots, and the heartbeats of each   *)

(* good      plugin_start, plugin_status and plugin_stop are there         *)
(* idle      plugin_start is not there, or returns NULL                    *)
(* endless   it starts, but plugin_status or plugin_stop is not there      *)
PluginKinds == {"good", "idle", "endless"}

(* open      saved_state.flatb cannot be opened for writing                *)
(* write     it cannot be written                                          *)
(* router    create_router fails                                           *)
(* worker    the socket worker ends, see AgentRouter                       *)
(* memory    a thread uses what was freed and the process dies of it       *)
(* mkdir     a directory cannot be made for some reason that is not one of *)
(*           its name: no space, a file system that is only read           *)
ErrorKinds == {"open", "write", "router", "worker", "memory", "mkdir"}

Plugins == ToSet(PluginDir)

(* Directories are the same with and without the separator at the end.     *)
Plain(n) == IF Len(n) > 1 /\ Last(n) = Sep THEN Front(n) ELSE n

ASSUME AgentAssumption ==
  /\ PluginDir \in Seq(Plugins)
  /\ Kind \in [Plugins -> PluginKinds]
  /\ DOMAIN Handles = Plugins
  /\ None \notin Plugins
  /\ \A f \in ConfigFiles : f # Null => f.doc = Null \/ IsDocument(f.doc)
  /\ {Sep, "etc", "yella.yaml", "var", "lib", "spool", "yella", "plugin", "bin", "file",
        "yella.stethoscope", "1", "2", "M"} \subseteq Characters
  /\ Prefix \in Seq(Characters)
  /\ FirstDirs \subseteq Seq(Characters) /\ Closed \subseteq FirstDirs
  /\ <<Sep>> \in FirstDirs /\ \A d \in FirstDirs : d # << >> /\ d = Plain(d)
  /\ OtherFiles \subseteq Seq(Characters) /\ OtherFiles \intersect (FirstDirs \union {<<".">>}) = {}
  /\ \A f \in OtherFiles : f = Plain(f)
  /\ \A d \in FirstDirs \union OtherFiles : DirName(d) \notin OtherFiles
  /\ Errors \subseteq ErrorKinds
  /\ MaxBoots \in Nat /\ MaxBeats \in Nat

VARIABLES
  doc,       (* yaml_doc                                                   *)
  settings,  (* the settings                                               *)
  dirs,      (* the directories there are                                  *)
  todo,      (* those that have to be there, which were not looked at yet  *)
  meddled,   (* history: another process has made some while it looks       *)
  failure,   (* history: why a directory could not be made, see MakeDir    *)
  file,      (* the state in saved_state.flatb, NoState if there is none   *)
  macs,      (* the host's addresses                                       *)
  state,     (* ag->state                                                  *)
  ids, boots,  (* history: number of identifiers made, and of boots        *)
  unsaved,   (* history: the identifiers and boot counts never saved       *)
  main,      (* where the main thread is, see MainSteps                    *)
  place,     (* of the plugin it loads or stops, in its list               *)
  loaded,    (* ag->plugins                                                *)
  running,   (* the plugins that are started and not stopped               *)
  handler,   (* ag->in_handlers: the plugin for each type of message       *)
  callback,  (* message_received is set                                    *)
  senders,   (* ag->plugin_senders                                         *)
  term,      (* the event of main.c is signaled                            *)
  beat,      (* heartbeat_thr: "none", "wait", "status" or "ended"         *)
  asked,     (* the plugin whose status it takes, its place in ag->plugins *)
  minor,     (* minor_seq                                                  *)
  sent,      (* history: the sequence numbers of the heartbeats            *)
  worker,    (* the socket worker: "none", "poll", "handle" or "ended"     *)
  called     (* the plugin whose handler it is in                          *)

startup  == <<doc, settings, dirs, todo, meddled, failure>>
disk     == <<file, macs, ids, boots, unsaved>>
threads  == <<beat, asked, minor, worker, called>>
plugins  == <<place, loaded, running, handler>>
vars     == <<startup, disk, threads, plugins, state, main, callback, senders, term, sent>>

(* off       there is no process                                           *)
(* settings  in yella_create_agent, before the settings are loaded         *)
(* dirs      in yella_ensure_dir_exists                                    *)
(* mkdir     in it, having found that a directory is not there             *)
(* load      in yella_load_saved_state                                     *)
(* hung      in it for ever                                                *)
(* save      in yella_save_saved_state, before the file is truncated       *)
(* write     in it, after that                                             *)
(* router    before the router setting is looked at                        *)
(* plugins   in load_plugins                                               *)
(* beat      before the heartbeat thread is made                           *)
(* callback  before message_received is set                                *)
(* serve     in yella_wait_for_event                                       *)
(* join      in yella_destroy_agent, which joins the heartbeat thread,     *)
(* senders   destroys the plugins' senders,                                *)
(* worker    destroys the router, whose worker it joins,                   *)
(* handlers  frees the handlers,                                           *)
(* stop      and stops the plugins                                         *)
MainSteps == {"off", "settings", "dirs", "mkdir", "load", "hung", "save", "write", "router",
              "plugins", "beat", "callback", "serve", "join", "senders", "worker", "handlers", "stop"}

NoState == [id |-> 0, count |-> 0, macs |-> << >>]

Types == UNION {Handles[p] : p \in Plugins}

NoHandlers == [t \in Types |-> None]

Init ==
  /\ doc = Null /\ settings = NoSettings
  /\ dirs = FirstDirs /\ todo = << >> /\ meddled = FALSE /\ failure = "no"
  /\ file = NoState /\ macs \in MacLists
  /\ ids = 0 /\ boots = 0 /\ unsaved = {}
  /\ state = NoState /\ main = "off"
  /\ place = 1 /\ loaded = << >> /\ running = {} /\ handler = NoHandlers
  /\ callback = FALSE /\ senders = {} /\ term = FALSE
  /\ beat = "none" /\ asked = 1 /\ minor = 0 /\ sent = << >>
  /\ worker = "none" /\ called = None

(* The process ends, in order or not: only the files are left.             *)
Exit ==
  /\ main' = "off"
  /\ doc' = Null /\ settings' = NoSettings /\ todo' = << >>
  /\ state' = NoState
  /\ place' = 1 /\ loaded' = << >> /\ running' = {} /\ handler' = NoHandlers
  /\ callback' = FALSE /\ senders' = {} /\ term' = FALSE
  /\ beat' = "none" /\ asked' = 1 /\ minor' = 0
  /\ worker' = "none" /\ called' = None
  /\ UNCHANGED <<dirs, meddled, sent>>

(* main                                                                    *)
Boot ==
  /\ main = "off" /\ boots < MaxBoots
  /\ boots' = boots + 1
  /\ macs' \in MacLists
  /\ settings' = PlatformSettings(Prefix)
  /\ meddled' = FALSE /\ failure' = "no"
  /\ main' = "settings"
  /\ UNCHANGED <<doc, dirs, todo, file, ids, unsaved, threads, plugins, state, callback, senders, term, sent>>

Crash ==
  /\ main # "off"
  /\ Exit
  /\ UNCHANGED <<disk, failure>>

Signal ==
  /\ main # "off" /\ ~term
  /\ term' = TRUE
  /\ UNCHANGED <<startup, disk, threads, plugins, state, main, callback, senders, sent>>

-----------------------------------------------------------------------------
(* The settings and the directories                                        *)

Setting(sct, key, type) == Get(settings, sct, key, type)

(* Slip: only the directory itself.                                        *)
LastDirOnly(n) == <<n>>

(* What yella_ensure_dir_exists goes over: those a directory is in, and the *)
(* directory as it is named, with the separator at its end that a setting  *)
(* has.  (For no name it fails.)                                           *)
EnsuredDirs(n) == Append(GetDirs(n), n)

(* yella_load_settings_doc, whose result is ignored, of the file the       *)
(* command line names or of the usual one, and retrieve_agent_settings     *)
LoadSettings ==
  /\ main = "settings"
  /\ \E config \in ConfigFiles \union {Null} : doc' = LoadSettingsDoc(config)
  /\ settings' = RetrieveAgentSettings(settings, doc')
  /\ todo' = EnsuredDirs(Get(settings', "agent", "data-dir", "dir"))
              \o EnsuredDirs(Get(settings', "agent", "plugin-dir", "dir"))
  /\ main' = "dirs"
  /\ UNCHANGED <<dirs, meddled, failure, disk, threads, plugins, state, callback, senders, term, sent>>

OwnDirs ==
  ToSet(EnsuredDirs(Setting("agent", "data-dir", "dir"))
          \o EnsuredDirs(Setting("agent", "plugin-dir", "dir"))) \ {<< >>}

(* A name without a directory is in the one the process works in.          *)
IsDir(d) == Plain(d) \in dirs \union {<<".">>}

(* yella_file_exists asks for a file of any kind, but a name that ends in  *)
(* a separator is only a directory's.                                      *)
IsThere(d) == IsDir(d) \/ d \in OtherFiles

LookAtDir ==
  /\ main = "dirs" /\ todo # << >> /\ Head(todo) # << >>
  /\ IF IsThere(Head(todo)) THEN todo' = Tail(todo) /\ UNCHANGED main
                            ELSE main' = "mkdir" /\ UNCHANGED todo
  /\ UNCHANGED <<doc, settings, dirs, meddled, failure>>
  /\ UNCHANGED <<disk, threads, plugins, state, callback, senders, term, sent>>

(* Why a directory cannot be made, by its name:                            *)
(*   there   there is one after all (ALREADY_EXISTS)                       *)
(*   file    its name, or that of the one it is in, is another file's      *)
(*           (ALREADY_EXISTS, FILE_SYSTEM_ERROR)                           *)
(*   closed  nothing can be made where it is (NO_PERMISSION)               *)
(*   parent  the one it is in is not there (FILE_SYSTEM_ERROR)             *)
Obstacle(d) ==
  IF IsDir(d) THEN "there"
  ELSE IF {Plain(d), DirName(d)} \intersect OtherFiles # {} THEN "file"
  ELSE IF DirName(d) \in Closed THEN "closed"
  ELSE IF ~ IsDir(DirName(d)) THEN "parent"
  ELSE "no"

(* yella_create_directory, which may fail for another reason, too          *)
(* (FILE_SYSTEM_ERROR)                                                     *)
MakeDir ==
  LET d == Head(todo) IN
  /\ main = "mkdir"
  /\ \/ failure' = Obstacle(d)
     \/ "mkdir" \in Errors /\ failure' = "other"
  /\ IF failure' = "no"
     THEN /\ dirs' = dirs \union {Plain(d)} /\ todo' = Tail(todo) /\ main' = "dirs"
          /\ UNCHANGED <<doc, settings, meddled, threads, plugins, state, callback, senders, term, sent>>
     ELSE Exit
  /\ UNCHANGED disk

(* The name of a directory is empty (LOGIC_ERROR).                         *)
NoDir ==
  /\ main = "dirs" /\ todo # << >> /\ Head(todo) = << >>
  /\ failure' = "unnamed"
  /\ Exit
  /\ UNCHANGED disk

DirsReady ==
  /\ main = "dirs" /\ todo = << >>
  /\ main' = "load"
  /\ meddled' = FALSE
  /\ UNCHANGED <<doc, settings, dirs, todo, failure, disk, threads, plugins, state, callback, senders, term, sent>>

(* Another process makes a directory while it matters.                     *)
Meddle(d) ==
  /\ ~ IsDir(d) /\ Plain(d) \notin OtherFiles /\ IsDir(DirName(d))
  /\ dirs' = dirs \union {Plain(d)}
  /\ meddled' = TRUE
  /\ UNCHANGED <<doc, settings, todo, failure>>
  /\ UNCHANGED <<disk, threads, plugins, state, main, callback, senders, term, sent>>

-----------------------------------------------------------------------------
(* saved_state.c                                                           *)

(* The file is there and not corrupt, as it is if it has no addresses.     *)
Readable == file.macs # << >>

(* mac_addresses_changed: the loop over the old addresses tests and        *)
(* compares the index of the one over the new addresses.  It is left when  *)
(* the first addresses are the same, and never if they are not.            *)
Changed == macs = << >>

Unchanged == macs # << >> /\ Head(macs) = Head(file.macs)

(* Slips: the boot is not counted, or counted twice.                       *)
Uncounted(s) == s
CountedTwice(s) == [s EXCEPT !.count = @ + 2]

Counted(s) == [s EXCEPT !.count = @ + 1]

(* yella_load_saved_state; the file, if it is corrupt, is removed.         *)
KeepState ==
  /\ main = "load" /\ Readable /\ Unchanged
  /\ state' = Counted(file)
  /\ main' = "save"
  /\ UNCHANGED <<startup, disk, threads, plugins, callback, senders, term, sent>>

ResetState ==
  /\ main = "load" /\ (Readable => Changed)
  /\ ids' = ids + 1
  /\ state' = Counted([id |-> ids + 1, count |-> 0, macs |-> macs])
  /\ file' = IF Readable THEN file ELSE NoState
  /\ main' = "save"
  /\ UNCHANGED <<startup, macs, boots, unsaved, threads, plugins, callback, senders, term, sent>>

Hang ==
  /\ main = "load" /\ Readable /\ ~Changed /\ ~Unchanged
  /\ main' = "hung"
  /\ UNCHANGED <<startup, disk, threads, plugins, state, callback, senders, term, sent>>

(* yella_save_saved_state, whose result yella_create_agent ignores         *)
OpenFails ==
  /\ main = "save" /\ "open" \in Errors
  /\ unsaved' = unsaved \union {<<state.id, state.count>>}
  /\ main' = "router"
  /\ UNCHANGED <<startup, file, macs, ids, boots, threads, plugins, state, callback, senders, term, sent>>

Truncate ==
  /\ main = "save"
  /\ file' = NoState
  /\ main' = "write"
  /\ UNCHANGED <<startup, macs, ids, boots, unsaved, threads, plugins, state, callback, senders, term, sent>>

Write ==
  /\ main = "write"
  /\ \/ file' = state
     \/ "write" \in Errors /\ UNCHANGED file
  /\ main' = "router"
  /\ UNCHANGED <<startup, macs, ids, boots, unsaved, threads, plugins, state, callback, senders, term, sent>>

-----------------------------------------------------------------------------
(* yella_create_agent, from the look at the router setting on              *)

Router == Setting("agent", "router", "text")

NoRouter ==
  /\ main = "router" /\ Router = Null
  /\ Exit
  /\ UNCHANGED <<disk, failure>>

RouterFails ==
  /\ main = "router" /\ Router # Null /\ "router" \in Errors
  /\ Exit
  /\ UNCHANGED <<disk, failure>>

(* maybe_wait_for_router waits a while, with or without success.           *)
StartRouter ==
  /\ main = "router" /\ Router # Null
  /\ worker' = "poll"
  /\ main' = "plugins"
  /\ UNCHANGED <<startup, disk, plugins, beat, asked, minor, called, state, callback, senders, term, sent>>

(* The last plugin that names a type of message handles it.  The one of    *)
(* plugin/file sets and retrieves the settings of its section.             *)
LoadPlugin ==
  LET p == PluginDir[place] IN
  /\ main = "plugins" /\ place <= Len(PluginDir)
  /\ place' = place + 1
  /\ running' = IF Kind[p] = "idle" THEN running ELSE running \union {p}
  /\ IF Kind[p] = "good"
     THEN /\ loaded' = Append(loaded, p)
          /\ handler' = [t \in Types |-> IF t \in Handles[p] THEN p ELSE handler[t]]
     ELSE UNCHANGED <<startup, loaded, handler>>
  /\ settings' = IF p = File THEN RetrieveFileSettings(settings, doc) ELSE settings
  /\ UNCHANGED <<doc, dirs, todo, meddled, failure>>
  /\ UNCHANGED <<disk, threads, state, main, callback, senders, term, sent>>

PluginsLoaded ==
  /\ main = "plugins" /\ place > Len(PluginDir)
  /\ place' = 1
  /\ main' = "beat"
  /\ doc' = Null
  /\ UNCHANGED <<settings, dirs, todo, meddled, failure>>
  /\ UNCHANGED <<disk, threads, loaded, running, handler, state, callback, senders, term, sent>>

StartHeartbeat ==
  /\ main = "beat"
  /\ beat' = "wait"
  /\ main' = "callback"
  /\ UNCHANGED <<startup, disk, plugins, asked, minor, worker, called, state, callback, senders, term, sent>>

SetCallback ==
  /\ main = "callback"
  /\ callback' = TRUE
  /\ main' = "serve"
  /\ UNCHANGED <<startup, disk, threads, plugins, state, senders, term, sent>>

-----------------------------------------------------------------------------
(* yella_destroy_agent                                                     *)

Stopping == main \in {"join", "senders", "worker", "handlers", "stop"}

(* Slip: the plugins are stopped before the router is destroyed.           *)
PluginsFirst == [senders |-> "stop", worker |-> "handlers", handlers |-> "off", stop |-> "worker"]

After == [senders |-> "worker", worker |-> "handlers", handlers |-> "stop", stop |-> "off"]

Terminate ==
  /\ main = "serve" /\ term
  /\ main' = "join"
  /\ UNCHANGED <<startup, disk, threads, plugins, state, callback, senders, term, sent>>

HeartbeatJoined ==
  /\ main = "join" /\ beat = "ended"
  /\ main' = "senders"
  /\ UNCHANGED <<startup, disk, threads, plugins, state, callback, senders, term, sent>>

DestroySenders ==
  /\ main = "senders"
  /\ senders' = {}
  /\ main' = After["senders"]
  /\ UNCHANGED <<startup, disk, threads, plugins, state, callback, term, sent>>

RouterDestroyed ==
  /\ main = "worker" /\ worker = "ended"
  /\ main' = After["worker"]
  /\ UNCHANGED <<startup, disk, threads, plugins, state, callback, senders, term, sent>>

FreeHandlers ==
  /\ main = "handlers"
  /\ handler' = NoHandlers
  /\ main' = After["handlers"]
  /\ UNCHANGED <<startup, disk, threads, place, loaded, running, state, callback, senders, term, sent>>

(* plugin_api_dtor: the plugin joins its threads in plugin_stop.           *)
StopPlugin ==
  /\ main = "stop" /\ place <= Len(loaded)
  /\ running' = running \ {loaded[place]}
  /\ place' = place + 1
  /\ UNCHANGED <<startup, disk, threads, loaded, handler, state, main, callback, senders, term, sent>>

(* The last destructor ends with the end of the process.                   *)
PluginsStopped ==
  /\ main = "stop" /\ place > Len(loaded)
  /\ IF After["stop"] = "off"
     THEN Exit /\ UNCHANGED <<disk, failure>>
     ELSE /\ main' = After["stop"]
          /\ UNCHANGED <<startup, disk, threads, plugins, state, callback, senders, term, sent>>

-----------------------------------------------------------------------------
(* heartbeat_thr                                                           *)

(* The time has come, and the router is connected.                         *)
Beat ==
  /\ beat = "wait" /\ ~Stopping /\ minor < MaxBeats
  /\ beat' = "status" /\ asked' = 1
  /\ UNCHANGED <<startup, disk, plugins, minor, worker, called, state, main, callback, senders, term, sent>>

AskPlugin ==
  /\ beat = "status" /\ asked <= Len(loaded)
  /\ asked' = asked + 1
  /\ UNCHANGED <<startup, disk, plugins, beat, minor, worker, called, state, main, callback, senders, term, sent>>

(* Whether it reaches the router or not.                                   *)
SendHeartbeat ==
  /\ beat = "status" /\ asked > Len(loaded)
  /\ minor' = minor + 1
  /\ sent' = Append(sent, [id |-> state.id, major |-> state.count, minor |-> minor + 1])
  /\ beat' = "wait"
  /\ UNCHANGED <<startup, disk, plugins, asked, worker, called, state, main, callback, senders, term>>

HeartbeatEnds ==
  /\ beat = "wait" /\ Stopping
  /\ beat' = "ended"
  /\ UNCHANGED <<startup, disk, plugins, asked, minor, worker, called, state, main, callback, senders, term, sent>>

-----------------------------------------------------------------------------
(* The socket worker                                                       *)

(* A message of the wrong form ends the worker; one that comes before the  *)
(* callback is set is dropped.                                             *)
CanDispatch == worker = "poll" /\ callback

(* message_received; a type without a handler is logged.                   *)
Dispatch(t) ==
  /\ CanDispatch /\ handler[t] # None
  /\ worker' = "handle" /\ called' = handler[t]
  /\ UNCHANGED <<startup, disk, plugins, beat, asked, minor, state, main, callback, senders, term, sent>>

HandlerReturns ==
  /\ worker = "handle"
  /\ worker' = "poll" /\ called' = None
  /\ UNCHANGED <<startup, disk, plugins, beat, asked, minor, state, main, callback, senders, term, sent>>

WorkerEnds ==
  /\ worker = "poll"
  /\ main = "worker" \/ "worker" \in Errors
  /\ worker' = "ended"
  /\ UNCHANGED <<startup, disk, plugins, beat, asked, minor, called, state, main, callback, senders, term, sent>>

-----------------------------------------------------------------------------
(* The threads of the plugins                                              *)

SendersFreed == main \in {"worker", "handlers", "stop"}

(* send_plugin_message; what is sent through a sender that was freed is    *)
(* lost, if the process survives it.                                       *)
PluginSends(p) ==
  /\ p \in running
  /\ senders' = IF SendersFreed THEN senders ELSE senders \union {p}
  /\ UNCHANGED <<startup, disk, threads, plugins, state, main, callback, term, sent>>

(* A sender or the router is used after it was freed; two threads change   *)
(* plugin_senders at once; or the shared object of a plugin that is        *)
(* endless was closed under its threads.                                   *)
MemoryIsLost(p) ==
  /\ p \in running /\ "memory" \in Errors
  /\ \/ SendersFreed
     \/ p \notin senders /\ \E q \in running \ {p} : q \notin senders
     \/ Kind[p] = "endless"
  /\ Exit
  /\ UNCHANGED <<disk, failure>>

Next ==
  \/ Boot \/ Crash \/ Signal
  \/ LoadSettings \/ LookAtDir \/ MakeDir \/ NoDir \/ DirsReady
  \/ \E d \in IF main \in {"dirs", "mkdir"} THEN OwnDirs ELSE {} : Meddle(d)
  \/ KeepState \/ ResetState \/ Hang \/ OpenFails \/ Truncate \/ Write
  \/ NoRouter \/ RouterFails \/ StartRouter \/ LoadPlugin \/ PluginsLoaded \/ StartHeartbeat \/ SetCallback
  \/ Terminate \/ HeartbeatJoined \/ DestroySenders \/ RouterDestroyed \/ FreeHandlers
  \/ StopPlugin \/ PluginsStopped
  \/ Beat \/ AskPlugin \/ SendHeartbeat \/ HeartbeatEnds
  \/ \E t \in Types : Dispatch(t)
  \/ HandlerReturns \/ WorkerEnds
  \/ \E p \in Plugins : PluginSends(p) \/ MemoryIsLost(p)

Spec == Init /\ [][Next]_vars

-----------------------------------------------------------------------------
(* Properties                                                              *)

States == [id : 0 .. ids, count : 0 .. boots, macs : MacLists \union {<< >>}]

(* The document is there from the first settings read to the last.         *)
DocIsKept == main \in {"dirs", "mkdir", "load", "hung", "save", "write", "router", "plugins"}

(* The values the variables of the agent take.                             *)
TypeOK ==
  /\ doc # Null => DocIsKept /\ doc \in {LoadSettingsDoc(f) : f \in ConfigFiles}
  /\ \A k \in DOMAIN settings : k[1] \in {"agent", "file"} /\ settings[k].type \in SettingTypes
  /\ \A d \in dirs : d # << >> /\ d = Plain(d)
  /\ meddled \in BOOLEAN
  /\ file \in States /\ state \in States /\ macs \in MacLists
  /\ ids \in 0 .. boots /\ boots \in 0 .. MaxBoots
  /\ unsaved \subseteq (1 .. ids) \X (1 .. boots)
  /\ main \in MainSteps
  /\ place \in 1 .. Len(PluginDir) + 1
  /\ loaded \in Seq(Plugins) /\ running \subseteq Plugins
  /\ handler \in [Types -> Plugins \union {None}]
  /\ callback \in BOOLEAN /\ senders \subseteq Plugins /\ term \in BOOLEAN
  /\ beat \in {"none", "wait", "status", "ended"}
  /\ asked \in 1 .. Len(PluginDir) + 1 /\ minor \in 0 .. MaxBeats
  /\ sent \in Seq([id : 1 .. ids, major : 1 .. boots, minor : 1 .. MaxBeats])
  /\ worker \in {"none", "poll", "handle", "ended"} /\ called \in Plugins \union {None}

Before(a, b) == a.major < b.major \/ (a.major = b.major /\ a.minor < b.minor)

(* A recipient can order the heartbeats of an agent, and tell them from    *)
(* each other, by the boot count and the number of the heartbeat, whatever *)
(* crashed or could not be written: only a boot whose number could not be  *)
(* saved because the file could not be opened has it taken by the next.    *)
(* (agent.c:135, saved_state.c:240)                                        *)
Numbered ==
  \A i, j \in DOMAIN sent :
    i < j /\ sent[i].id = sent[j].id =>
      Before(sent[i], sent[j]) \/ <<sent[i].id, sent[i].major>> \in unsaved

(* A plugin's handler and status are called only between its start and its *)
(* stop, and each type of message goes to a plugin that is running.        *)
(* (agent.c:129, 302, 441)                                                 *)
PluginsAlive ==
  /\ worker = "handle" => called \in running
  /\ beat = "status" => ToSet(loaded) \subseteq running
  /\ callback => \A t \in Types : handler[t] \in running \union {None}

(* The settings are complete: of the agent, and when the plugins are loaded*)
(* of the file plugin.                                                     *)
AgentIsSet == main = "load"
FileIsSet == main = "plugins" /\ place > Len(PluginDir) /\ File \in running

(* What is read without a look at the result: a NULL would end the process.*)
Dereferenced ==
  LET sizes == {"max-spool-partition-size", "max-message-size"}
  IN  {d \in AgentDescs : d.key \notin sizes \union {"router"}}
        \union {Desc(k, "byte_size") : k \in sizes}

(* Whatever is written in the configuration file, no getter whose result   *)
(* the agent or the file plugin uses unseen returns NULL: the setting is   *)
(* there, and has the type it is asked for.  The descriptions of the two   *)
(* sizes have another type than their getters; what keeps it right is that *)
(* the defaults are set before the file is read.  (The router is looked at *)
(* first, agent.c:409.)  (agent.c:355, file_plugin.c:551, settings.c:218)  *)
SettingsAreThere ==
  /\ AgentIsSet => \A d \in Dereferenced : Setting("agent", d.key, d.type) # Null
  /\ worker # "none" => Router # Null
  /\ FileIsSet => \A d \in FileDescs : Setting("file", d.key, d.type) # Null

Defaults == AgentDefaults(PlatformSettings(Prefix))

(* The value of a setting is what was written last for it in the file, in  *)
(* its section or in none, or its default.  (For a size this is the number *)
(* without its unit: 4M are four bytes, as the file is read with the types *)
(* of the descriptions.)  (settings.c:71, agent.c:345)                     *)
ValuesAsWritten ==
  /\ AgentIsSet => \A d \in AgentDescs : AsWritten(settings, Defaults, Lines(doc), "agent", d)
  /\ FileIsSet => \A d \in FileDescs : AsWritten(settings, FileDefaults(settings), Lines(doc), "file", d)

(* The agent goes on only when its directories, and those they are in, are *)
(* directories, though it asks only whether a file is there; and it does   *)
(* not give up for what it could make itself or need not make: because the *)
(* one a directory is in is not there, or, unless another process has made *)
(* one of them since it was found missing, because it is there.  (What is  *)
(* left are a name that is empty or another file's, a directory nothing    *)
(* can be made in, and the other failures of mkdir.)  (file_posix.c:311)   *)
DirsAreThere ==
  /\ AgentIsSet => \A d \in OwnDirs : IsDir(d)
  /\ failure # "parent"
  /\ failure = "there" => meddled

===============================================================================
