------------------------------ MODULE StateDbPool ------------------------------
(***************************************************************************)
(* The file plugin's pool of open state databases                          *)
(* (plugin/file/state_db_pool.c) and the SQLite files behind it            *)
(* (plugin/file/state_db.c).  The job queue's runner gets a database for   *)
(* every job and works with it; the agent's socket worker, which removes   *)
(* configurations, takes databases out of the pool at any time: no lock    *)
(* is shared by the two.  Each call of the pool is one step.               *)
(*                                                                         *)
(* A configuration is the rank of its name in the pool's tree, a row of a  *)
(* database the name of an element.                                        *)
(***************************************************************************)
EXTENDS Naturals, FiniteSets

CONSTANTS
  Configs,   (* ranks of the configurations' names                         *)
  Elements,  (* names of elements                                          *)
  MaxDbs,    (* file/max-spool-dbs                                         *)
  Steps,     (* how many milliseconds may pass between two calls           *)
  MaxNow     (* bound on the clock                                         *)

ASSUME PoolAssumption ==
  /\ Configs \subseteq Nat \ {0}
  /\ MaxDbs \in Nat /\ Steps \subseteq Nat /\ MaxNow \in Nat

VARIABLES
  pool,    (* time_last_used of the databases that are open               *)
  count,   (* pool->count                                                  *)
  files,   (* the rows of the database files                               *)
  up,      (* the plugin is started                                        *)
  job,     (* the configuration of the job that runs, or NoJob             *)
  now,     (* the clock                                                    *)
  usedAt,  (* when jobs last asked for a database; 0 if not since it was   *)
           (* removed or the plugin started                                *)
  stored   (* what the jobs of a configuration stored since its database   *)
           (* was last removed                                             *)

history  == <<usedAt, stored>>
poolVars == <<pool, count, files, up, job, now, history>>

NoJob == 0
Open  == DOMAIN pool
Files == DOMAIN files

PoolInit ==
  /\ pool = << >> /\ count = 0 /\ files = << >>
  /\ up = TRUE /\ job = NoJob /\ now = 1
  /\ usedAt = [c \in Configs |-> 0]
  /\ stored = [c \in Configs |-> {}]

-----------------------------------------------------------------------------
(* get_state_db_from_pool                                                  *)

Tick == now' \in {now + s : s \in Steps} /\ now' <= MaxNow

(* The first of the oldest nodes in the tree's order.                      *)
Oldest(c) ==
  /\ c \in Open
  /\ \A d \in Open : pool[c] < pool[d] \/ (pool[c] = pool[d] /\ c <= d)

Full == count >= MaxDbs

(* A full pool closes its oldest database.                                 *)
Victims == IF Full THEN {c \in Open : Oldest(c)} ELSE {}

(* Slip: the file of a database that is closed is removed.                 *)
RemovedFiles == Files \ Victims

(* destroy_state_db with STATE_DB_ACTION_KEEP                              *)
KeptFiles == Files

(* Slip: the time is taken when the database is opened.                    *)
Untouched(c) == pool' = pool

Touched(c) == pool' = [pool EXCEPT ![c] = now']

StartJob(c) ==
  /\ up /\ job = NoJob
  /\ Tick
  /\ job' = c
  /\ usedAt' = [usedAt EXCEPT ![c] = now']

GetOpen(c) ==
  /\ c \in Open
  /\ StartJob(c)
  /\ Touched(c)
  /\ UNCHANGED <<count, files, up, stored>>

(* create_state_db opens the file or creates it, with an empty table.      *)
WithFile(c) ==
  [d \in KeptFiles \union {c} |-> IF d \in KeptFiles THEN files[d] ELSE {}]

GetClosed(c) ==
  /\ c \notin Open
  /\ StartJob(c)
  /\ pool' = [d \in (Open \ Victims) \union {c} |-> IF d = c THEN now' ELSE pool[d]]
  /\ count' = count - Cardinality(Victims) + 1
  /\ files' = WithFile(c)
  /\ UNCHANGED <<up, stored>>

-----------------------------------------------------------------------------
(* The plugin's process ends: open databases are closed, files are kept.   *)
GoDown ==
  /\ up' = FALSE /\ job' = NoJob
  /\ pool' = << >> /\ count' = 0
  /\ usedAt' = [c \in Configs |-> 0]
  /\ UNCHANGED <<files, now, stored>>

(* The database cannot be created: destroy_state_db is told to remove the  *)
(* file of a database whose name is not set yet, which ends the process.   *)
GetFails(c) ==
  /\ up /\ job = NoJob /\ c \notin Open
  /\ GoDown

(* The runner inserts, updates or deletes a row.                           *)
Store(rows) ==
  /\ job # NoJob /\ job \in Open
  /\ files' = [files EXCEPT ![job] = rows]
  /\ stored' = [stored EXCEPT ![job] = rows]
  /\ UNCHANGED <<pool, count, up, job, now, usedAt>>

(* The database was closed under the runner: SQLite refuses its statement, *)
(* or the process dies of the memory that was freed.                       *)
StoreClosed ==
  /\ job # NoJob /\ job \notin Open
  /\ UNCHANGED poolVars \/ GoDown

EndJob ==
  /\ job # NoJob
  /\ job' = NoJob
  /\ UNCHANGED <<pool, count, files, up, now, history>>

Counted(c) == count' = IF c \in Open THEN count - 1 ELSE count

(* remove_state_db_from_pool                                               *)
RemoveFromPool(c) ==
  /\ up
  /\ pool' = [d \in Open \ {c} |-> pool[d]]
  /\ Counted(c)
  /\ files' = IF c \in Open THEN [d \in Files \ {c} |-> files[d]] ELSE files
  /\ usedAt' = [usedAt EXCEPT ![c] = 0]
  /\ stored' = [stored EXCEPT ![c] = {}]
  /\ UNCHANGED <<up, job, now>>

(* plugin_stop, after the runner was joined: destroy_state_db_pool         *)
StopPool == up /\ job = NoJob /\ GoDown

Crash == up /\ GoDown

(* plugin_start: create_state_db_pool                                      *)
Start ==
  /\ ~up
  /\ up' = TRUE
  /\ UNCHANGED <<pool, count, files, job, now, history>>

PoolNext ==
  \/ \E c \in Configs : GetOpen(c) \/ GetClosed(c) \/ GetFails(c) \/ RemoveFromPool(c)
  \/ \E rows \in SUBSET Elements : Store(rows)
  \/ StoreClosed \/ EndJob
  \/ StopPool \/ Crash \/ Start

PoolSpec == PoolInit /\ [][PoolNext]_poolVars

-----------------------------------------------------------------------------
(* Properties                                                              *)

PoolTypeOK ==
  /\ Open \subseteq Configs /\ \A c \in Open : pool[c] \in Nat
  /\ count \in Nat
  /\ Files \subseteq Configs /\ \A c \in Files : files[c] \subseteq Elements
  /\ up \in BOOLEAN /\ job \in Configs \union {NoJob} /\ now \in Nat
  /\ usedAt \in [Configs -> Nat]
  /\ stored \in [Configs -> SUBSET Elements]

(* state_db_pool_size counts the databases that are open, and they are     *)
(* never more than max-spool-dbs (but one, if that is 0), whatever is      *)
(* removed while a job runs.                                               *)
PoolBounded == count = Cardinality(Open) /\ (count <= MaxDbs \/ count = 1)

(* What the jobs of a configuration stored is in its file until the        *)
(* configuration is removed: closing databases to make room for others,    *)
(* stopping the plugin and dying lose nothing.                             *)
Retained == \A c \in Configs : stored[c] # {} => c \in Files /\ stored[c] \subseteq files[c]

(* The pool keeps the databases that were used last: none that was closed  *)
(* to make room was used later than one that is still open.                *)
LastUsedStayOpen ==
  \A c \in Open : \A d \in Configs \ Open : usedAt[d] # 0 => usedAt[d] <= usedAt[c]

==============================================================================
