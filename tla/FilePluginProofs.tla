--------------------------- MODULE FilePluginProofs ---------------------------
(***************************************************************************)
(* The copies of the configurations agree, and jobs are made for the files *)
(* that are wanted, for any configurations and files and however often     *)
(* requests come, files change and the plugin is started; and the vectors  *)
(* in which it keeps what a configuration includes and excludes, as the    *)
(* agent keeps its lists, are sequences, whatever is done to them.         *)
(***************************************************************************)
EXTENDS FilePlugin, PtrVector, NatSets, TLAPS

(* What install_config_node has done so far.                               *)
Handling ==
  /\ handler # "idle" => up = "up" /\ name \in Names
  /\ handler = "specs" => \A n \in Names \ {name} : specs[n] = configs[n]
  /\ handler # "specs" => specs = configs
  /\ handler = "start" => monitor = "off"
  /\ handler \in {"open", "write"} => (monitor = "off" <=> Started(configs) = "off")

(* What the monitor's thread has matched is wanted by the configuration    *)
(* that it will find; if the configuration is changed before it has, it    *)
(* does not get config_guard any more.                                     *)
MatchedIsWanted ==
  monitor = "matched" =>
    /\ hit \in Names
    /\ handler \in {"idle", "open", "write"} =>
         configs[hit] # None /\ event \in configs[hit].inc \ configs[hit].exc

(* A plugin that starts lists nothing.                                     *)
DownListsNothing == up = "down" => listed = {}

IInv ==
  /\ TypeOK /\ Handling /\ MatchedIsWanted /\ DownListsNothing
  /\ JobsWanted /\ ListedAreInstalled /\ InForce

-----------------------------------------------------------------------------
(* The operators                                                           *)

(* A specification that matches is there, and wants the file.              *)
LEMMA MatchWants ==
  ASSUME TypeOK, NEW f \in Files, Match(f) # None
  PROVE  /\ Match(f) \in Names /\ specs[Match(f)] # None
         /\ f \in specs[Match(f)].inc \ specs[Match(f)].exc
<1>1. Deciding(f) # {} /\ Deciding(f) \in SUBSET Nat
  BY PluginAssumption DEF Match, Deciding, Installed
<1>2. PICK n \in Deciding(f) : \A m \in Deciding(f) : n <= m
  BY <1>1, NatMinimum
<1>3. Min(Deciding(f)) \in Deciding(f)
  BY <1>2 DEF Min
<1>4. Match(f) = Min(Deciding(f)) /\ f \notin specs[Match(f)].exc
  BY <1>1 DEF Match
<1> QED BY <1>3, <1>4 DEF Deciding, Installed

(* What is loaded are configurations.                                      *)
LEMMA LoadedType == ASSUME TypeOK PROVE Loaded \in Configs /\ Nothing \in Configs
BY DEF TypeOK, Loaded, Nothing, Configs

(* The file that was just written can be read.                             *)
LEMMA SavedIsRead == ASSUME TypeOK, file' = configs PROVE Loaded' = configs
BY PluginAssumption DEF TypeOK, Loaded, Configs, Contents

(* A monitor is started or it is not.                                      *)
LEMMA StartedType == \A s : Started(s) \in {"on", "off"}
BY DEF Started

-----------------------------------------------------------------------------

(* The plugin starts with no configuration and nothing listed.             *)
LEMMA InitInv == Init => IInv
<1> SUFFICES ASSUME Init PROVE IInv
  OBVIOUS
<1>1. Installed(Nothing) = {} /\ Started(Nothing) = "off"
  BY DEF Installed, Nothing, Started
<1>2. Loaded = Nothing
  BY PluginAssumption DEF Init, Loaded, Nothing, Contents
<1>3. Nothing \in Configs
  BY DEF Nothing, Configs
<1> QED
  BY <1>1, <1>2, <1>3
  DEF Init, IInv, TypeOK, Handling, MatchedIsWanted, DownListsNothing, JobsWanted,
      ListedAreInstalled, InForce, HandlerStates, MonitorStates

-----------------------------------------------------------------------------
(* The handler                                                             *)

LEMMA InstallKeepsInv ==
  ASSUME IInv, NEW n \in Names, NEW empty \in BOOLEAN, NEW all \in BOOLEAN,
         NEW c \in Contents, Install(n, empty, all, c)
  PROVE  IInv'
<1>1. configs \in Configs /\ configs' \in Configs
  BY DEF IInv, TypeOK, Install, ConfigsAfter, Configs
<1>2. \A m \in Names \ {n} : configs'[m] = configs[m]
  BY <1>1 DEF Install, ConfigsAfter, Configs
<1>3. configs'[n] = (IF empty THEN None ELSE c) /\ c # None
  BY <1>1, PluginAssumption DEF Install, ConfigsAfter, Configs, Contents
<1>4. specs = configs /\ handler = "idle" /\ listed \subseteq Installed(configs)
  BY DEF IInv, Handling, ListedAreInstalled, Install
<1>5. listed' \subseteq Names /\ ListedAreInstalled'
  <2>1. listed' \subseteq listed \union {n} /\ (empty => n \notin listed')
    BY DEF Install, ListedAfter
  <2> QED BY <2>1, <1>2, <1>3, <1>4 DEF ListedAreInstalled, Installed
<1>6. TypeOK'
  BY <1>1, <1>5 DEF IInv, TypeOK, Install, HandlerStates, thread
<1> QED
  BY <1>2, <1>4, <1>5, <1>6
  DEF IInv, Install, Handling, MatchedIsWanted, DownListsNothing, JobsWanted, InForce, thread

LEMMA ChangeSpecsKeepsInv ==
  ASSUME IInv, ChangeSpecs
  PROVE  IInv'
<1>1. configs \in Configs /\ specs \in Configs /\ name \in Names
  BY DEF IInv, TypeOK, Handling, ChangeSpecs
<1>2. \A n \in Names : specs'[n] = configs[n]
  BY <1>1 DEF IInv, Handling, ChangeSpecs, Configs
<1>3. specs' = configs
  BY <1>1, <1>2 DEF ChangeSpecs, Configs
<1> QED
  BY <1>1, <1>3
  DEF IInv, ChangeSpecs, TypeOK, Handling, MatchedIsWanted, DownListsNothing, JobsWanted,
      ListedAreInstalled, InForce, HandlerStates, thread

LEMMA StopMonitorKeepsInv ==
  ASSUME IInv, StopMonitor
  PROVE  IInv'
BY DEF IInv, StopMonitor, TypeOK, Handling, MatchedIsWanted, DownListsNothing, JobsWanted,
       ListedAreInstalled, InForce, HandlerStates, MonitorStates, copies

LEMMA StartMonitorKeepsInv ==
  ASSUME IInv, StartMonitor
  PROVE  IInv'
<1>1. specs = configs /\ monitor' = Started(configs) /\ monitor' \in {"on", "off"}
  BY StartedType DEF IInv, Handling, StartMonitor
<1>2. Started(configs)' = Started(configs)
  BY DEF StartMonitor, copies, Started, Installed
<1> QED
  BY <1>1, <1>2
  DEF IInv, StartMonitor, TypeOK, Handling, MatchedIsWanted, DownListsNothing, JobsWanted,
      ListedAreInstalled, InForce, HandlerStates, MonitorStates, copies

LEMMA OpenKeepsInv ==
  ASSUME IInv, Open
  PROVE  IInv'
BY DEF IInv, Open, TypeOK, Handling, MatchedIsWanted, DownListsNothing, JobsWanted,
       ListedAreInstalled, InForce, HandlerStates, Started, Installed, thread

LEMMA WriteKeepsInv ==
  ASSUME IInv, Write
  PROVE  IInv'
<1>1. unsaved' \/ Loaded' = configs'
  BY SavedIsRead DEF IInv, Write
<1> QED
  BY <1>1
  DEF IInv, Write, TypeOK, Handling, MatchedIsWanted, DownListsNothing, JobsWanted,
      ListedAreInstalled, InForce, HandlerStates, Started, Installed, thread

-----------------------------------------------------------------------------
(* The monitor's thread                                                    *)

LEMMA EventKeepsInv ==
  ASSUME IInv, NEW f \in Files, Event(f)
  PROVE  IInv'
<1>1. /\ Match(f) \in Names /\ specs[Match(f)] # None
      /\ f \in specs[Match(f)].inc \ specs[Match(f)].exc
  BY MatchWants DEF IInv, Event
<1>2. Loaded' = Loaded /\ Started(configs)' = Started(configs)
  BY DEF Event, copies, Loaded, Started, Installed
<1> QED
  BY <1>1, <1>2
  DEF IInv, Event, TypeOK, Handling, MatchedIsWanted, DownListsNothing, JobsWanted,
      ListedAreInstalled, InForce, HandlerStates, MonitorStates, copies, worker

LEMMA FindKeepsInv ==
  ASSUME IInv, Find
  PROVE  IInv'
<1>1. /\ hit \in Names /\ configs[hit] \in Contents
      /\ event \in configs[hit].inc \ configs[hit].exc
  BY DEF IInv, TypeOK, Find, MatchedIsWanted, Configs
<1>2. monitor' = "found" /\ job' = configs[hit] /\ handler = "idle"
  BY <1>1 DEF IInv, Find, MatchedIsWanted
<1>3. Loaded' = Loaded /\ Started(configs)' = Started(configs)
  BY DEF Find, copies, Loaded, Started, Installed
<1> QED
  BY <1>1, <1>2, <1>3
  DEF IInv, Find, TypeOK, Handling, MatchedIsWanted, DownListsNothing, JobsWanted,
      ListedAreInstalled, InForce, HandlerStates, MonitorStates, copies, worker

LEMMA PushKeepsInv ==
  ASSUME IInv, Push
  PROVE  IInv'
<1>1. Loaded' = Loaded /\ Started(configs)' = Started(configs)
  BY DEF Push, copies, Loaded, Started, Installed
<1> QED
  BY <1>1
  DEF IInv, Push, TypeOK, Handling, MatchedIsWanted, DownListsNothing, JobsWanted,
      ListedAreInstalled, InForce, HandlerStates, MonitorStates, copies, worker

-----------------------------------------------------------------------------
(* The plugin                                                              *)

LEMMA StopKeepsInv ==
  ASSUME IInv, Stop
  PROVE  IInv'
BY DEF IInv, Stop, TypeOK, Handling, MatchedIsWanted, DownListsNothing, JobsWanted,
       ListedAreInstalled, InForce, copies, worker, thread

LEMMA GoneKeepsInv ==
  ASSUME IInv, Gone
  PROVE  IInv'
BY LoadedType
DEF IInv, Gone, TypeOK, Handling, MatchedIsWanted, DownListsNothing, JobsWanted,
    ListedAreInstalled, InForce, HandlerStates, MonitorStates

LEMMA StartKeepsInv ==
  ASSUME IInv, Start
  PROVE  IInv'
<1>1. Loaded \in Configs /\ Loaded' = Loaded
  BY LoadedType DEF IInv, Start, Loaded
<1>2. configs' = Loaded /\ specs' = Loaded /\ monitor' = Started(configs')
  BY DEF Start
<1>3. monitor' \in {"on", "off"} /\ listed' = {} /\ handler' = "idle"
  BY <1>2, StartedType DEF IInv, Start, DownListsNothing, Handling, worker
<1> QED
  BY <1>1, <1>2, <1>3
  DEF IInv, Start, TypeOK, Handling, MatchedIsWanted, DownListsNothing, JobsWanted,
      ListedAreInstalled, InForce, MonitorStates, worker

-----------------------------------------------------------------------------

(* Every step of the plugin keeps IInv.                                    *)
LEMMA StepKeepsInv == IInv /\ [Next]_vars => IInv'
<1> SUFFICES ASSUME IInv, [Next]_vars PROVE IInv'
  OBVIOUS
<1>1. ASSUME NEW n \in Names, NEW empty \in BOOLEAN, NEW all \in BOOLEAN,
             NEW c \in Contents, Install(n, empty, all, c)
      PROVE  IInv'
  BY <1>1, InstallKeepsInv
<1>2. CASE Handler
  BY <1>2, ChangeSpecsKeepsInv, StopMonitorKeepsInv, StartMonitorKeepsInv, OpenKeepsInv,
     WriteKeepsInv DEF Handler
<1>3. CASE Monitor
  BY <1>3, FindKeepsInv, PushKeepsInv DEF Monitor
<1>4. ASSUME NEW f \in Files, Event(f) PROVE IInv'
  BY <1>4, EventKeepsInv
<1>5. CASE Stop
  BY <1>5, StopKeepsInv
<1>6. CASE Stopped \/ Crash
  BY <1>6, GoneKeepsInv DEF Stopped, Crash
<1>7. CASE Start
  BY <1>7, StartKeepsInv
<1>8. CASE UNCHANGED vars
  BY <1>8
  DEF IInv, TypeOK, Handling, MatchedIsWanted, DownListsNothing, JobsWanted,
      ListedAreInstalled, InForce, Loaded, Started, Installed,
      vars, copies, worker, thread, bounds
<1> QED
  BY <1>1, <1>2, <1>3, <1>4, <1>5, <1>6, <1>7, <1>8 DEF Next

(* The invariant of file.c holds throughout: specifications, monitor and   *)
(* events agree at every step of the handler, the worker and the thread.   *)
THEOREM InvHolds == Spec => []IInv
<1> QED BY InitInv, StepKeepsInv, PTL DEF Spec

-----------------------------------------------------------------------------

(* Every reachable state of the plugin is well typed.                      *)
THEOREM TypeCorrect == Spec => []TypeOK
<1>1. IInv => TypeOK
  BY DEF IInv
<1> QED BY <1>1, InvHolds, PTL

(* A job is made only for a configuration that wants the file, although    *)
(* event_received looks it up after the specification has matched.         *)
THEOREM JobsAreWanted == Spec => []JobsWanted
<1>1. IInv => JobsWanted
  BY DEF IInv
<1> QED BY <1>1, InvHolds, PTL

(* The heartbeat lists no configuration that is not installed, and when no *)
(* request is handled the event source and, unless its last write failed,  *)
(* configs.flatb have the installed configurations.                        *)
THEOREM CopiesOfConfigsAgree == Spec => []CopiesAgree
<1>1. IInv => CopiesAgree
  BY DEF IInv, CopiesAgree
<1> QED BY <1>1, InvHolds, PTL

-----------------------------------------------------------------------------
(* The vectors of pointers.  Every operation on a valid one makes a valid  *)
(* one, with the elements that the operation on the sequence leaves, and   *)
(* the destructor is called with what is no longer in it.                  *)

(* The block grows when it is full, as it has more than one place.         *)
LEMMA RoomIsMade ==
  ASSUME NEW v, Valid(v)
  PROVE  LET w == WithRoom(v)
         IN  /\ Valid(w) /\ w.size = v.size /\ w.size < w.capacity
             /\ \A i \in Nat : i < v.size => w.data[i] = v.data[i]
             /\ w.freed = v.freed /\ w.destroys = v.destroys /\ w.copier = v.copier
<1>1. CASE v.size # v.capacity
  BY <1>1 DEF WithRoom, Valid
<1>2. CASE v.size = v.capacity
  <2> DEFINE c == Larger(v.capacity)
             w == WithRoom(v)
             data == [i \in Places(c) |-> IF i < v.capacity THEN v.data[i] ELSE Junk]
  <2>1. c \in Nat /\ c > v.capacity
    BY DEF Valid, Larger
  <2>2. w = [data |-> data, size |-> v.size, capacity |-> c,
             destroys |-> v.destroys, copier |-> v.copier, freed |-> v.freed]
    BY <1>2 DEF WithRoom, Valid
  <2>3. data \in [Places(c) -> Elements \union {Junk}] /\ \A i \in Nat : i < v.size => data[i] = v.data[i]
    BY <1>2, <2>1 DEF Valid, Places
  <2> HIDE DEF c, data, w
  <2>4. /\ w.data = data /\ w.size = v.size /\ w.capacity = c
        /\ w.destroys = v.destroys /\ w.copier = v.copier /\ w.freed = v.freed
    BY <2>2
  <2>5. w = [data |-> w.data, size |-> w.size, capacity |-> w.capacity,
             destroys |-> w.destroys, copier |-> w.copier, freed |-> w.freed]
    BY <2>2, <2>4
  <2>6. Valid(w)
    BY <1>2, <2>1, <2>3, <2>4, <2>5 DEF Valid
  <2> QED BY <1>2, <2>1, <2>3, <2>4, <2>6 DEF w
<1> QED BY <1>1, <1>2

(* The vector after an operation, and why it is valid.                     *)
Made(v, data, size, freed) ==
  [data |-> data, size |-> size, capacity |-> v.capacity,
   destroys |-> v.destroys, copier |-> v.copier, freed |-> freed]

(* A vector just made is valid (ptr_vector.c).                             *)
LEMMA MadeIsValid ==
  ASSUME NEW v, Valid(v), NEW data, NEW size \in Nat, NEW freed \in Seq(Elements),
         size <= v.capacity,
         data \in [Places(v.capacity) -> Elements \union {Junk}],
         \A i \in Nat : i < size => data[i] \in Elements
  PROVE  LET w == Made(v, data, size, freed)
         IN  /\ Valid(w) /\ w.data = data /\ w.size = size /\ w.freed = freed
             /\ w.capacity = v.capacity
<1> DEFINE w == Made(v, data, size, freed)
<1>1. /\ w.data = data /\ w.size = size /\ w.freed = freed /\ w.capacity = v.capacity
      /\ w.destroys = v.destroys /\ w.copier = v.copier
  BY DEF Made
<1>2. w = [data |-> w.data, size |-> w.size, capacity |-> w.capacity,
           destroys |-> w.destroys, copier |-> w.copier, freed |-> w.freed]
  BY <1>1 DEF Made
<1> HIDE DEF w
<1>3. Valid(w)
  BY <1>1, <1>2 DEF Valid
<1> QED BY <1>1, <1>3 DEF w

(* The elements are those of the sequence.                                 *)
LEMMA AsSequenceOfElements ==
  ASSUME NEW v, Valid(v)
  PROVE  AsSequence(v) \in Seq(Elements) /\ Len(AsSequence(v)) = v.size
<1>1. \A i \in 1 .. v.size : v.data[i - 1] \in Elements
  BY DEF Valid
<1>2. v.size \in Nat
  BY DEF Valid
<1> QED BY <1>1, <1>2 DEF AsSequence

(* A sequence is the function of its places.                               *)
LEMMA SequenceOfPlaces ==
  ASSUME NEW s \in Seq(Elements)
  PROVE  s = [i \in 1 .. Len(s) |-> s[i]]
  OBVIOUS

-----------------------------------------------------------------------------
(* What is pushed to the back is appended, whether the block is full or    *)
(* not, and nothing is lost.  (ptr_vector.c:216)                           *)
THEOREM PushBackAppends ==
  ASSUME NEW v, Valid(v), NEW p \in Elements
  PROVE  LET w == PushBack(v, p)
         IN  Valid(w) /\ AsSequence(w) = Append(AsSequence(v), p) /\ w.freed = v.freed
<1> DEFINE r == WithRoom(v)
           data == [r.data EXCEPT ![r.size] = p]
           w == PushBack(v, p)
<1>1. /\ Valid(r) /\ r.size = v.size /\ r.size < r.capacity /\ r.freed = v.freed
      /\ \A i \in Nat : i < v.size => r.data[i] = v.data[i]
  BY RoomIsMade
<1>2. w = Made(r, data, r.size + 1, r.freed)
  <2>1. w = [r EXCEPT !.data = data, !.size = r.size + 1]
    BY DEF PushBack
  <2> HIDE DEF r, data, w
  <2> QED BY <2>1, <1>1 DEF Valid, Made
<1> HIDE DEF r, w
<1>3. /\ data \in [Places(r.capacity) -> Elements \union {Junk}] /\ data[r.size] = p
      /\ \A i \in Nat : i < r.size => data[i] = r.data[i]
  BY <1>1 DEF Valid, Places
<1>4. /\ r.size + 1 \in Nat /\ r.size + 1 <= r.capacity /\ r.freed \in Seq(Elements)
      /\ \A i \in Nat : i < r.size + 1 => data[i] \in Elements
  BY <1>1, <1>3 DEF Valid
<1> HIDE DEF data
<1>5. Valid(w) /\ w.data = data /\ w.size = r.size + 1 /\ w.freed = r.freed
  BY <1>1, <1>2, <1>3, <1>4, MadeIsValid
<1>6. AsSequence(w) = Append(AsSequence(v), p)
  <2> HIDE DEF w
  <2>1. v.size \in Nat
    BY DEF Valid
  <2>2. \A i \in 1 .. v.size : w.data[i - 1] = v.data[i - 1]
    BY <1>1, <1>3, <1>5, <2>1
  <2>3. w.data[v.size] = p /\ w.size = v.size + 1
    BY <1>1, <1>3, <1>5
  <2>4. AsSequence(v) \in Seq(Elements) /\ Len(AsSequence(v)) = v.size
    BY AsSequenceOfElements
  <2>5. /\ Len(Append(AsSequence(v), p)) = v.size + 1
        /\ \A i \in 1 .. v.size + 1 :
             Append(AsSequence(v), p)[i] = IF i = v.size + 1 THEN p ELSE AsSequence(v)[i]
    BY <2>4, <2>1
  <2>6. ASSUME NEW i \in 1 .. v.size + 1 PROVE Append(AsSequence(v), p)[i] = w.data[i - 1]
    <3>1. CASE i = v.size + 1
      BY <2>1, <2>3, <2>5, <3>1
    <3>2. CASE i \in 1 .. v.size
      <4>1. AsSequence(v)[i] = v.data[i - 1]
        BY <3>2 DEF AsSequence
      <4>2. Append(AsSequence(v), p)[i] = AsSequence(v)[i]
        <5>1. i \in 1 .. v.size + 1 /\ i # v.size + 1
          BY <2>1, <3>2
        <5> QED BY <2>5, <5>1
      <4>3. w.data[i - 1] = v.data[i - 1]
        BY <2>2, <3>2
      <4> QED BY <4>1, <4>2, <4>3
    <3>3. i = v.size + 1 \/ i \in 1 .. v.size
      BY <2>1
    <3> QED BY <3>1, <3>2, <3>3
  <2>7. Append(AsSequence(v), p) \in Seq(Elements)
    BY <2>4
  <2>8. Append(AsSequence(v), p) = [i \in 1 .. v.size + 1 |-> Append(AsSequence(v), p)[i]]
    BY <2>5, <2>7, SequenceOfPlaces
  <2>9. Append(AsSequence(v), p) = [i \in 1 .. v.size + 1 |-> w.data[i - 1]]
    BY <2>6, <2>8
  <2> QED BY <2>3, <2>9 DEF AsSequence
<1> QED BY <1>1, <1>5, <1>6 DEF w

(* What is pushed to the front comes before the others, which are moved    *)
(* within the block.  (ptr_vector.c:226)                                   *)
THEOREM PushFrontPrepends ==
  ASSUME NEW v, Valid(v), NEW p \in Elements
  PROVE  LET w == PushFront(v, p)
         IN  Valid(w) /\ AsSequence(w) = <<p>> \o AsSequence(v) /\ w.freed = v.freed
<1> DEFINE r == WithRoom(v)
           data == [MovedUp(r.data, 0, r.size) EXCEPT ![0] = p]
           w == PushFront(v, p)
<1>1. /\ Valid(r) /\ r.size = v.size /\ r.size < r.capacity /\ r.freed = v.freed
      /\ \A i \in Nat : i < v.size => r.data[i] = v.data[i]
  BY RoomIsMade
<1>2. w = Made(r, data, r.size + 1, r.freed)
  <2>1. w = [r EXCEPT !.data = data, !.size = r.size + 1]
    BY DEF PushFront
  <2> HIDE DEF r, data, w
  <2> QED BY <2>1, <1>1 DEF Valid, Made
<1> HIDE DEF r, w
<1>3. /\ data \in [Places(r.capacity) -> Elements \union {Junk}] /\ data[0] = p
      /\ \A i \in Nat : 0 < i /\ i <= r.size => data[i] = r.data[i - 1]
  <2> DEFINE moved == MovedUp(r.data, 0, r.size)
  <2>1. /\ r.size \in Nat /\ r.capacity \in Nat /\ r.size < r.capacity
        /\ r.data \in [Places(r.capacity) -> Elements \union {Junk}]
    BY <1>1 DEF Valid
  <2>2. moved = [i \in Places(r.capacity) |-> IF 0 < i /\ i <= r.size THEN r.data[i - 1] ELSE r.data[i]]
    BY <2>1 DEF MovedUp
  <2>3. \A i \in Places(r.capacity) : i - 1 \in Places(r.capacity) \/ i = 0
    BY <2>1 DEF Places
  <2>4. moved \in [Places(r.capacity) -> Elements \union {Junk}]
    BY <2>1, <2>2, <2>3 DEF Places
  <2>5. \A i \in Nat : 0 < i /\ i <= r.size => moved[i] = r.data[i - 1]
    BY <2>1, <2>2 DEF Places
  <2> HIDE DEF moved
  <2>6. data = [moved EXCEPT ![0] = p] /\ 0 \in Places(r.capacity)
    BY <2>1 DEF moved, Places
  <2> HIDE DEF data
  <2> QED BY <2>1, <2>4, <2>5, <2>6 DEF Places
<1>4. /\ r.size + 1 \in Nat /\ r.size + 1 <= r.capacity /\ r.freed \in Seq(Elements)
      /\ \A i \in Nat : i < r.size + 1 => data[i] \in Elements
  <2>1. r.size \in Nat /\ r.capacity \in Nat /\ r.size < r.capacity /\ r.freed \in Seq(Elements)
    BY <1>1 DEF Valid
  <2>2. \A i \in Nat : i < r.size => r.data[i] \in Elements
    BY <1>1 DEF Valid
  <2>3. ASSUME NEW i \in Nat, i < r.size + 1 PROVE data[i] \in Elements
    <3>1. CASE i = 0
      BY <3>1, <1>3
    <3>2. CASE i > 0
      <4>1. data[i] = r.data[i - 1] /\ i - 1 \in Nat /\ i - 1 < r.size
        BY <1>3, <2>1, <2>3, <3>2
      <4> HIDE DEF data
      <4> QED BY <2>2, <4>1
    <3> QED BY <3>1, <3>2
  <2> HIDE DEF data
  <2> QED BY <2>1, <2>3
<1> HIDE DEF data
<1>5. Valid(w) /\ w.data = data /\ w.size = r.size + 1 /\ w.freed = r.freed
  BY <1>1, <1>2, <1>3, <1>4, MadeIsValid
<1>6. AsSequence(w) = <<p>> \o AsSequence(v)
  <2> HIDE DEF w
  <2>1. v.size \in Nat
    BY DEF Valid
  <2>2. \A i \in 2 .. v.size + 1 : w.data[i - 1] = v.data[i - 2]
    BY <1>1, <1>3, <1>5, <2>1
  <2>3. w.data[0] = p /\ w.size = v.size + 1
    BY <1>1, <1>3, <1>5
  <2>4. AsSequence(v) \in Seq(Elements) /\ Len(AsSequence(v)) = v.size
    BY AsSequenceOfElements
  <2>5. /\ Len(<<p>> \o AsSequence(v)) = v.size + 1
        /\ \A i \in 1 .. v.size + 1 :
             (<<p>> \o AsSequence(v))[i] = IF i = 1 THEN p ELSE AsSequence(v)[i - 1]
    BY <2>4, <2>1
  <2>6. ASSUME NEW i \in 1 .. v.size + 1 PROVE (<<p>> \o AsSequence(v))[i] = w.data[i - 1]
    <3>1. CASE i = 1
      BY <2>3, <2>5, <3>1
    <3>2. CASE i \in 2 .. v.size + 1
      <4>1. AsSequence(v)[i - 1] = v.data[i - 2]
        BY <2>1, <3>2 DEF AsSequence
      <4>2. (<<p>> \o AsSequence(v))[i] = AsSequence(v)[i - 1]
        <5>1. i \in 1 .. v.size + 1 /\ i # 1
          BY <2>1, <3>2
        <5> QED BY <2>5, <5>1
      <4>3. w.data[i - 1] = v.data[i - 2]
        BY <2>2, <3>2
      <4> QED BY <4>1, <4>2, <4>3
    <3>3. i = 1 \/ i \in 2 .. v.size + 1
      BY <2>1
    <3> QED BY <3>1, <3>2, <3>3
  <2>7. <<p>> \o AsSequence(v) \in Seq(Elements)
    BY <2>4
  <2>8. <<p>> \o AsSequence(v) = [i \in 1 .. v.size + 1 |-> (<<p>> \o AsSequence(v))[i]]
    BY <2>5, <2>7, SequenceOfPlaces
  <2>9. <<p>> \o AsSequence(v) = [i \in 1 .. v.size + 1 |-> w.data[i - 1]]
    BY <2>6, <2>8
  <2> QED BY <2>3, <2>9 DEF AsSequence
<1> QED BY <1>1, <1>5, <1>6 DEF w

(* An element is erased, and those after it move down; the destructor is   *)
(* called with it.  A place that is not taken is left alone.               *)
(* (ptr_vector.c:141)                                                      *)
THEOREM EraseRemovesOne ==
  ASSUME NEW v, Valid(v), NEW off \in Nat
  PROVE  LET w == EraseAt(v, off)
         IN  /\ Valid(w)
             /\ off < v.size =>
                  /\ AsSequence(w) = Without(AsSequence(v), off + 1)
                  /\ w.freed = IF v.destroys THEN Append(v.freed, AsSequence(v)[off + 1]) ELSE v.freed
             /\ off >= v.size => w = v
<1>1. CASE off >= v.size
  BY <1>1 DEF EraseAt, Valid
<1>2. CASE off < v.size
  <2> DEFINE data == MovedDown(v.data, off + 1, v.size)
             freed == IF v.destroys THEN Append(v.freed, v.data[off]) ELSE v.freed
             w == EraseAt(v, off)
  <2>1. w = Made(v, data, v.size - 1, freed)
    BY <1>2 DEF EraseAt, Valid, Made
  <2>2. /\ data \in [Places(v.capacity) -> Elements \union {Junk}]
        /\ \A i \in Nat : i < v.size - 1 => data[i] = IF i < off THEN v.data[i] ELSE v.data[i + 1]
    BY <1>2 DEF Valid, Places, MovedDown
  <2>3. freed \in Seq(Elements) /\ v.size - 1 \in Nat /\ v.size - 1 <= v.capacity
    BY <1>2 DEF Valid
  <2>4. \A i \in Nat : i < v.size - 1 => data[i] \in Elements
    BY <1>2, <2>2 DEF Valid
  <2> HIDE DEF data, freed, w
  <2>5. Valid(w) /\ w.data = data /\ w.size = v.size - 1 /\ w.freed = freed
    BY <2>1, <2>2, <2>3, <2>4, MadeIsValid
  <2>6. v.size \in Nat /\ off + 1 \in 1 .. v.size /\ AsSequence(v)[off + 1] = v.data[off]
    BY <1>2 DEF Valid, AsSequence
  <2>7. AsSequence(w) = Without(AsSequence(v), off + 1)
    <3>1. Len(AsSequence(v)) = v.size
      BY AsSequenceOfElements
    <3>2. \A i \in 1 .. v.size - 1 :
            w.data[i - 1] = IF i < off + 1 THEN AsSequence(v)[i] ELSE AsSequence(v)[i + 1]
      <4> TAKE i \in 1 .. v.size - 1
      <4>1. i - 1 \in Nat /\ i - 1 < v.size - 1 /\ (i - 1) + 1 = i /\ (i + 1) - 1 = i
        BY <2>6
      <4>2. w.data[i - 1] = IF i - 1 < off THEN v.data[i - 1] ELSE v.data[i]
        BY <2>2, <2>5, <4>1
      <4>3. AsSequence(v)[i] = v.data[i - 1] /\ AsSequence(v)[i + 1] = v.data[i]
        BY <2>6, <4>1 DEF AsSequence
      <4> QED BY <2>6, <4>2, <4>3
    <3> QED BY <2>5, <3>1, <3>2 DEF AsSequence, Without
  <2> QED BY <1>2, <2>5, <2>6, <2>7 DEF w, freed
<1>3. v.size \in Nat
  BY DEF Valid
<1> QED BY <1>1, <1>2, <1>3

(* The first and the last element are taken off, if there is one.          *)
(* (ptr_vector.c:179)                                                      *)
COROLLARY PopsRemoveOne ==
  ASSUME NEW v, Valid(v), v.size > 0
  PROVE  /\ Valid(PopFront(v)) /\ AsSequence(PopFront(v)) = Without(AsSequence(v), 1)
         /\ Valid(PopBack(v)) /\ AsSequence(PopBack(v)) = Without(AsSequence(v), v.size)
<1>1. v.size \in Nat /\ v.size - 1 \in Nat /\ v.size - 1 < v.size
  BY DEF Valid
<1>2. PopFront(v) = EraseAt(v, 0) /\ PopBack(v) = EraseAt(v, v.size - 1)
  BY DEF PopFront, PopBack
<1>3. Valid(EraseAt(v, 0)) /\ AsSequence(EraseAt(v, 0)) = Without(AsSequence(v), 0 + 1)
  BY <1>1, EraseRemovesOne
<1>4. Valid(EraseAt(v, v.size - 1)) /\ AsSequence(EraseAt(v, v.size - 1)) = Without(AsSequence(v), (v.size - 1) + 1)
  BY <1>1, EraseRemovesOne
<1>5. 0 + 1 = 1 /\ (v.size - 1) + 1 = v.size
  BY <1>1
<1> QED BY <1>2, <1>3, <1>4, <1>5

(* A vector that is cleared is empty, and the destructor was called with   *)
(* every element that was in it, in order and once.  (ptr_vector.c:70)     *)
THEOREM ClearEmpties ==
  ASSUME NEW v, Valid(v)
  PROVE  LET w == Clear(v)
         IN  /\ Valid(w) /\ AsSequence(w) = << >>
             /\ w.freed = IF v.destroys THEN v.freed \o AsSequence(v) ELSE v.freed
<1> DEFINE freed == IF v.destroys THEN v.freed \o AsSequence(v) ELSE v.freed
           w == Clear(v)
<1>1. AsSequence(v) \in Seq(Elements)
  BY AsSequenceOfElements
<1>2. freed \in Seq(Elements)
  BY <1>1 DEF Valid
<1>3. w = Made(v, v.data, 0, freed)
  <2>1. w = [v EXCEPT !.size = 0, !.freed = freed]
    BY DEF Clear
  <2> HIDE DEF w, freed
  <2> QED BY <2>1 DEF Valid, Made
<1> HIDE DEF freed
<1>4. /\ v.data \in [Places(v.capacity) -> Elements \union {Junk}] /\ 0 \in Nat /\ 0 <= v.capacity
      /\ \A i \in Nat : i < 0 => v.data[i] \in Elements
  BY DEF Valid
<1> HIDE DEF w
<1>5. Valid(w) /\ w.size = 0 /\ w.freed = freed
  BY <1>2, <1>3, <1>4, MadeIsValid
<1> QED BY <1>5 DEF w, AsSequence, freed

(* A new vector is valid and empty.  (ptr_vector.c:97)                     *)
THEOREM CreatedIsEmpty == Valid(Create) /\ AsSequence(Create) = << >>
  BY DEF Create, Valid, AsSequence, Places, DefaultCopier, Elements

================================================================================
