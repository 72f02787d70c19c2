----------------------------- MODULE ChangeReports -----------------------------
(***************************************************************************)
(* From a change of a file to the report that the recipient of a           *)
(* configuration gets: the operating system's events, the file plugin that *)
(* turns them into jobs, the jobs (plugin/file/job.c) that compare files   *)
(* with the configuration's state database, and the accumulator.           *)
(*                                                                         *)
(* There is one configuration.  It includes the Files of a directory by a  *)
(* pattern; the directory's Others are not matched, or are excluded.  The  *)
(* database survives a crash, the queue and the accumulator do not.  The   *)
(* queue is the one of JobQueue, run in order; the accumulator the one of  *)
(* Outbox, so what it holds is the difference between what the recipient   *)
(* was told by the reports added so far and what it knows already.  That   *)
(* an event may wait for the configurations' lock while the monitor's      *)
(* thread is joined is left to FilePlugin.                                 *)
(***************************************************************************)
EXTENDS Naturals, Sequences

CONSTANTS
  Files,       (* names the configuration includes                         *)
  Others,      (* names in the directory that it does not                  *)
  Types,       (* the configuration's attribute types                      *)
  Values,      (* values of an attribute                                   *)
  Absent,      (* no file, no row, nothing known                           *)
  NoFile,
  MaxChanges,  (* bound on the changes of files                            *)
  MaxInstalls, (* bound on the requests that install the configuration     *)
  MaxStarts    (* bound on the starts of the agent after the first         *)

Names == Files \union Others

(* A file's attributes, a row of the database.                             *)
Elements == [Types -> Values]

(* Some of a file's attributes, as a report of a change has them.          *)
Attrs == UNION {[S -> Values] : S \in SUBSET Types}

ASSUME ReportsAssumption ==
  /\ Files \intersect Others = {}
  /\ NoFile \notin Names
  /\ Values # {} /\ Absent \notin Attrs
  /\ MaxChanges \in Nat /\ MaxInstalls \in Nat /\ MaxStarts \in Nat

VARIABLES
  disk,      (* the files                                                  *)
  noted,     (* files with an event that was not delivered yet             *)
  watching,  (* the monitor runs                                           *)
  saved,     (* the configuration is in configs.flatb                      *)
  handler,   (* where monitor_handler is, see HandlerStates                *)
  up,        (* the agent runs: "up", "stopping" or "down"                 *)
  queue,     (* the jobs: a file, or NoFile for the configuration's include*)
  step,      (* where run_job is, see JobSteps                             *)
  todo,      (* the names it still has to look at                          *)
  cur,       (* the name process_element is called with                    *)
  elem,      (* its element: what was collected, then what is reported     *)
  freed,     (* existing_elem of crawl_dir points to a destroyed element   *)
  cond,      (* the condition of the report to be added                    *)
  db,        (* the rows of the state database                             *)
  told,      (* what the reports that were added say of each name          *)
  known,     (* what the reports that were sent say of it                  *)
  unseen,    (* files with a change that no job will look at, or whose job *)
             (* could not see that they are gone                           *)
  astray,    (* files whose row says what was not told                     *)
  changes, installs, starts

system  == <<disk, noted, watching>>
runner  == <<step, todo, cur, elem, freed, cond>>
bounds  == <<changes, installs, starts>>
vars    == <<system, saved, handler, up, queue, runner, db, told, known, unseen, astray, bounds>>

(* idle      no request is handled                                         *)
(* pushed    the scan was pushed, the monitor is still the old one         *)
(* stopped   the monitor was stopped                                       *)
(* started   it was started again, the configurations were not saved yet   *)
HandlerStates == {"idle", "pushed", "stopped", "started"}

(* idle      the runner waits for a job                                    *)
(* next      looks for the next name                                       *)
(* compare   the file's attributes were collected                          *)
(* report    the database was changed, the report was not added yet        *)
JobSteps == {"idle", "next", "compare", "report"}

Present(d) == {n \in Names : d[n] # Absent}

(* What a name may stand for: of the others it does not matter what they   *)
(* hold.                                                                   *)
Contents(n) ==
  {Absent} \union (IF n \in Files THEN Elements ELSE {CHOOSE e \in Elements : TRUE})

Init ==
  /\ disk = [n \in Names |-> Absent]
  /\ noted = {} /\ watching = FALSE
  /\ saved = FALSE /\ handler = "idle" /\ up = "up"
  /\ queue = << >>
  /\ step = "idle" /\ todo = {} /\ cur = NoFile /\ elem = Absent /\ freed = FALSE
  /\ cond = "none"
  /\ db = [n \in Names |-> Absent]
  /\ told = db /\ known = db
  /\ unseen = {} /\ astray = {}
  /\ changes = 0 /\ installs = 0 /\ starts = 0

-----------------------------------------------------------------------------
(* The operating system: a file is created, changed or removed, and the    *)
(* monitor is told of those it watches.                                    *)
Change(n) ==
  /\ changes < MaxChanges
  /\ \E e \in Contents(n) \ {disk[n]} : disk' = [disk EXCEPT ![n] = e]
  /\ IF watching THEN noted' = noted \union {n} /\ UNCHANGED unseen
                 ELSE unseen' = unseen \union ({n} \intersect Files) /\ UNCHANGED noted
  /\ changes' = changes + 1
  /\ UNCHANGED <<watching, saved, handler, up, queue, runner, db, told, known, astray,
                 installs, starts>>

(* The jobs of an event: none for a name that no include matches.          *)
JobsOf(n) == IF n \in Files THEN <<n>> ELSE << >>

(* worker_callback, event_source_file_name_matches_any and event_received: *)
(* a job for the file, if the configuration includes it.  The callback     *)
(* needs config_guard, which monitor_handler holds until it returns.       *)
EventReceived(n) ==
  /\ watching /\ handler = "idle" /\ n \in noted
  /\ noted' = noted \ {n}
  /\ queue' = queue \o JobsOf(n)
  /\ UNCHANGED <<disk, watching, saved, handler, up, runner, db, told, known, unseen, astray, bounds>>

-----------------------------------------------------------------------------
(* install_config_node: the scan is pushed first, then the monitor is      *)
(* stopped, with the events it has not delivered, and started again.       *)

PushScan ==
  /\ up = "up" /\ handler = "idle" /\ installs < MaxInstalls
  /\ queue' = Append(queue, NoFile)
  /\ handler' = "pushed"
  /\ installs' = installs + 1
  /\ UNCHANGED <<system, saved, up, runner, db, told, known, unseen, astray, changes, starts>>

StopMonitor ==
  /\ up = "up" /\ handler = "pushed"
  /\ watching' = FALSE
  /\ noted' = {}
  /\ unseen' = unseen \union (noted \intersect Files)
  /\ handler' = "stopped"
  /\ UNCHANGED <<disk, saved, up, queue, runner, db, told, known, astray, bounds>>

StartMonitor ==
  /\ up = "up" /\ handler = "stopped"
  /\ watching' = TRUE
  /\ handler' = "started"
  /\ UNCHANGED <<disk, noted, saved, up, queue, runner, db, told, known, unseen, astray, bounds>>

SaveConfigs ==
  /\ up = "up" /\ handler = "started"
  /\ saved' = TRUE
  /\ handler' = "idle"
  /\ UNCHANGED <<system, up, queue, runner, db, told, known, unseen, astray, bounds>>

-----------------------------------------------------------------------------
(* run_job                                                                 *)

(* Slip: files that are gone are not looked at.                            *)
WhatIsThere(j) == IF j = NoFile THEN Present(disk) ELSE {j} \intersect Present(disk)

(* An include with a wildcard is the directory's entries, one without is   *)
(* the file itself, whether it is there or not.                            *)
ToLookAt(j) == IF j = NoFile THEN Present(disk) ELSE {j}

TakeJob ==
  /\ up # "down" /\ step = "idle" /\ queue # << >>
  /\ todo' = ToLookAt(Head(queue))
  /\ queue' = Tail(queue)
  /\ step' = "next" /\ elem' = Absent /\ freed' = FALSE
  /\ UNCHANGED <<system, saved, handler, up, cur, cond, db, told, known, unseen, astray,
                 bounds>>

(* The database cannot be opened: nothing is looked at, and nobody tries   *)
(* again.  (create_state_db then uses a name it has not set yet: where this*)
(* ends the process, it is a Crash.)                                       *)
SkipJob ==
  /\ up # "down" /\ step = "idle" /\ queue # << >>
  /\ queue' = Tail(queue)
  /\ unseen' = unseen \union ({Head(queue)} \intersect Files)
  /\ UNCHANGED <<system, saved, handler, up, runner, db, told, known, astray, bounds>>

EndJob ==
  /\ step = "next" /\ todo = {}
  /\ step' = "idle"
  /\ UNCHANGED <<system, saved, handler, up, queue, todo, cur, elem, freed, cond, db, told, known,
                 unseen, astray, bounds>>

(* collect_attributes                                                      *)
Collect(n) ==
  /\ step = "next" /\ n \in todo \intersect Files
  /\ todo' = todo \ {n}
  /\ cur' = n
  /\ elem' = disk[n]
  /\ unseen' = unseen \ {n}
  /\ step' = "compare"
  /\ UNCHANGED <<system, saved, handler, up, queue, freed, cond, db, told, known, astray, bounds>>

Overlay(new, old) ==
  [t \in DOMAIN new \union DOMAIN old |-> IF t \in DOMAIN new THEN new[t] ELSE old[t]]

(* Slip: the attributes as they were before.                               *)
DiffFromNew(new, old) == [t \in {u \in Types : new[u] # old[u]} |-> old[t]]

(* diff_elements, for elements of the same attribute types: those that     *)
(* changed.                                                                *)
Diff(new, old) == [t \in {u \in Types : new[u] # old[u]} |-> new[t]]

(* The condition of the report, "none" if there is nothing to report.      *)
Condition(e, row) ==
  IF e = row THEN "none"
  ELSE IF row = Absent THEN "ADDED"
  ELSE IF e = Absent THEN "REMOVED"
  ELSE "CHANGED"

(* The element that is reported: only what changed remains of it.          *)
Reported(e, row) == IF Condition(e, row) = "CHANGED" THEN Diff(e, row) ELSE e

(* Slip: only files that are there are written to the database.            *)
StoredIfThere(e, row) == IF e = Absent THEN row ELSE e

(* The row after the insert, delete or update.                             *)
Stored(e, row) == e

Compare ==
  /\ step = "compare"
  /\ cond' = Condition(elem, db[cur])
  /\ elem' = Reported(elem, db[cur])
  /\ step' = IF cond' = "none" THEN "next" ELSE "report"
  /\ freed' = (elem # Absent)
  /\ UNCHANGED <<system, saved, handler, up, queue, todo, cur, told, known, unseen, bounds>>

(* The database is changed as well.                                        *)
Store ==
  /\ Compare
  /\ db' = [db EXCEPT ![cur] = Stored(elem, db[cur])]
  /\ UNCHANGED astray

(* Its result is ignored: the change is reported all the same.             *)
StoreFails ==
  /\ Compare
  /\ cond' # "none"
  /\ astray' = astray \union {cur}
  /\ UNCHANGED db

(* The row is there, and reading it fails: get_element_from_state_db says  *)
(* NULL, as it does when there is none.  A file that is gone is nothing new*)
(* then; one that is there is inserted, in vain, and reported as added.    *)
ReadFails ==
  /\ step = "compare" /\ db[cur] # Absent
  /\ cond' = Condition(elem, Absent)
  /\ IF elem = Absent
     THEN step' = "next" /\ unseen' = unseen \union {cur} /\ UNCHANGED astray
     ELSE step' = "report" /\ astray' = astray \union {cur} /\ UNCHANGED unseen
  /\ freed' = (elem # Absent)
  /\ UNCHANGED <<system, saved, handler, up, queue, todo, cur, elem, db, told, known, bounds>>

(* What a report makes of what was known of its file.                      *)
Applied(c, e, before) ==
  IF c = "CHANGED" /\ before # Absent THEN Overlay(e, before) ELSE e

AddReport ==
  /\ step = "report"
  /\ told' = [told EXCEPT ![cur] = Applied(cond, elem, @)]
  /\ astray' = IF told'[cur] = db[cur] THEN astray \ {cur} ELSE astray
  /\ step' = "next" /\ cond' = "none"
  /\ UNCHANGED <<system, saved, handler, up, queue, todo, cur, elem, freed, db, known, unseen, bounds>>

(* crawl_dir meets an entry that it does not match: existing_elem is what  *)
(* the last entry left.  Unless it was never assigned, and happens to be   *)
(* NULL, it points to an element that was destroyed, which is reported as  *)
(* this entry's; the row that is inserted is the one of the element's name,*)
(* if there is none.  (If the process dies of it, that is a Crash.)        *)
CrawlOther(n) ==
  /\ step = "next" /\ n \in todo \intersect Others
  /\ todo' = todo \ {n}
  /\ \/ UNCHANGED <<told, db>>
     \/ /\ freed
        /\ told' = [told EXCEPT ![n] = elem]
        /\ db' = IF db[cur] = Absent THEN [db EXCEPT ![cur] = elem] ELSE db
  /\ UNCHANGED <<system, saved, handler, up, queue, step, cur, elem, freed, cond, known,
                 unseen, astray, bounds>>

(* A pass of the accumulator.                                              *)
Send ==
  /\ up = "up" /\ known # told
  /\ known' = told
  /\ UNCHANGED <<system, saved, handler, up, queue, runner, db, told, unseen, astray, bounds>>

-----------------------------------------------------------------------------
(* The end of the process and the next start                               *)

(* The jobs that will not be run, and the one that was not finished.       *)
Dropped ==
  noted \union {queue[i] : i \in DOMAIN queue} \union todo
    \union (IF step = "compare" THEN {cur} ELSE {})

(* What the accumulator holds is lost, and the report that is not there yet.*)
Lost ==
  /\ astray' = astray \union {n \in Files : told[n] # known[n]}
                      \union (IF step = "report" THEN {cur} ELSE {})
  /\ told' = known
  /\ UNCHANGED known

(* plugin_stop: the event source first; the job that runs goes on.         *)
Stop ==
  /\ up = "up" /\ handler = "idle"
  /\ up' = "stopping"
  /\ watching' = FALSE /\ noted' = {}
  /\ unseen' = unseen \union (noted \intersect Files)
  /\ UNCHANGED <<disk, saved, handler, queue, runner, db, told, known, astray, bounds>>

(* Then the queue, with its jobs, and the accumulator, after a last pass:  *)
(* the agent has destroyed the router by then, its sends may be in vain.   *)
Stopped ==
  /\ up = "stopping" /\ step = "idle"
  /\ up' = "down"
  /\ queue' = << >>
  /\ unseen' = unseen \union (Dropped \intersect Files)
  /\ \/ known' = told /\ UNCHANGED <<told, astray>>
     \/ Lost
  /\ UNCHANGED <<system, saved, handler, runner, db, bounds>>

(* A configs.flatb that was being written may be lost as well.             *)
Crash ==
  /\ up # "down"
  /\ up' = "down"
  /\ unseen' = unseen \union (Dropped \intersect Files)
  /\ Lost
  /\ watching' = FALSE /\ noted' = {} /\ queue' = << >>
  /\ step' = "idle" /\ todo' = {}
  /\ handler' = "idle"
  /\ saved' \in (IF handler = "started" THEN BOOLEAN ELSE {saved})
  /\ UNCHANGED <<disk, cur, elem, freed, cond, db, bounds>>

(* plugin_start, load_configs: the monitor is started, nothing is scanned. *)
Start ==
  /\ up = "down" /\ starts < MaxStarts
  /\ up' = "up"
  /\ watching' = saved
  /\ starts' = starts + 1
  /\ UNCHANGED <<disk, noted, saved, handler, queue, runner, db, told, known, unseen, astray,
                 changes, installs>>

-----------------------------------------------------------------------------

Runner ==
  \/ TakeJob \/ SkipJob \/ EndJob \/ Store \/ StoreFails \/ ReadFails \/ AddReport
  \/ \E n \in Names : Collect(n) \/ CrawlOther(n)

Handler == StopMonitor \/ StartMonitor \/ SaveConfigs

Next ==
  \/ \E n \in Names : Change(n) \/ EventReceived(n)
  \/ PushScan \/ Handler
  \/ Runner
  \/ Send
  \/ Stop \/ Stopped \/ Crash \/ Start

Spec == Init /\ [][Next]_vars

(* Events are delivered; the runner, the accumulator's worker and a handler*)
(* that was called go on.                                                  *)
FairSpec ==
  /\ Spec
  /\ \A n \in Names : WF_vars(EventReceived(n))
  /\ WF_vars(Handler) /\ WF_vars(Runner) /\ WF_vars(Send)

-----------------------------------------------------------------------------
(* Properties                                                              *)

TypeOK ==
  /\ disk \in [Names -> Elements \union {Absent}]
  /\ noted \subseteq Names /\ watching \in BOOLEAN /\ saved \in BOOLEAN
  /\ handler \in HandlerStates /\ up \in {"up", "stopping", "down"}
  /\ queue \in Seq(Files \union {NoFile})
  /\ step \in JobSteps /\ todo \subseteq Names
  /\ cur \in Files \union {NoFile} /\ (step \in {"compare", "report"} => cur \in Files)
  /\ elem \in Attrs \union {Absent} /\ (step = "compare" => elem \in Elements \union {Absent})
  /\ freed \in BOOLEAN
  /\ cond \in {"none", "ADDED", "CHANGED", "REMOVED"}
  /\ step = "report" => cond # "none" /\ (cond = "REMOVED" <=> elem = Absent)
  /\ db \in [Names -> Elements \union {Absent}]
  /\ told \in [Names -> Attrs \union {Absent}]
  /\ known \in [Names -> Attrs \union {Absent}]
  /\ unseen \subseteq Files /\ astray \subseteq Files

(* Taken together, the reports added so far tell of each file what its row *)
(* says, except for the one whose report is being added, and for those     *)
(* whose report a crash took, or whose row could not be read or written.   *)
ReportsFollowDb ==
  \A n \in Files \ astray : (step = "report" /\ cur = n) \/ told[n] = db[n]

(* A recipient can make sense of the reports about a file that did not go  *)
(* astray: one that is unknown is added, one that is known is changed, and *)
(* then really is different, or removed.                                   *)
ReportsMakeSense ==
  [][\A n \in Files \ astray :
       step = "report" /\ cur = n /\ step' = "next" =>
         /\ (cond = "ADDED") <=> (told[n] = Absent)
         /\ told'[n] # told[n]]_vars

(* An agent that stays up, and watches, brings the recipient's knowledge   *)
(* up to date, whatever was scanned, restarted or lost before: only files  *)
(* that went astray, or changed when nobody watched and no job has looked  *)
(* at them since, may differ, and those whose last job found no database,  *)
(* or no row where there was one.                                          *)
UpToDate ==
  <>[](up = "up" /\ watching) =>
    <>[](\A n \in Files \ (astray \union unseen) : known[n] = disk[n])

==============================================================================
