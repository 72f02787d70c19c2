------------------------------ MODULE AgentProofs ------------------------------
(***************************************************************************)
(* Over any number of boots, and whatever crashes, cannot be written or    *)
(* ends early, heartbeats are numbered so that their recipient can order   *)
(* them, and a plugin is called only while it runs.  Whatever the          *)
(* configuration file says, the settings that are used unseen are there    *)
(* and have the values that were written last in it, and the directories   *)
(* that were made for them are there.                                      *)
(***************************************************************************)
EXTENDS Agent, NatSets, SequenceTheorems, TLAPS

-----------------------------------------------------------------------------
(* The agent: its boots, its heartbeats and its plugins                    *)

(* The values the variables of the agent take, the settings and the        *)
(* directories apart.                                                      *)
CoreTyped ==
  /\ file \in States /\ state \in States /\ macs \in MacLists
  /\ ids \in 0 .. boots /\ boots \in 0 .. MaxBoots
  /\ unsaved \subseteq (1 .. ids) \X (1 .. boots)
  /\ main \in MainSteps
  /\ place \in 1 .. Len(PluginDir) + 1
  /\ loaded \in Seq(Plugins) /\ running \subseteq Plugins
  /\ handler \in [Types -> Plugins \union {None}]
  /\ callback \in BOOLEAN /\ senders \subseteq Plugins /\ term \in BOOLEAN
  /\ beat \in {"none", "wait", "status", "ended"}
  /\ asked \in 1 .. Len(PluginDir) + 1 /\ minor \in 0 .. MaxBeats
  /\ sent \in Seq([id : 1 .. ids, major : 1 .. boots, minor : 1 .. MaxBeats])
  /\ worker \in {"none", "poll", "handle", "ended"} /\ called \in Plugins \union {None}

(* Where the main thread is before the saved state is loaded, before the   *)
(* plugins are, and once the state was saved or could not be.              *)
BeforeState == {"settings", "dirs", "mkdir", "load", "hung"}
BeforePlugins == BeforeState \union {"off", "save", "write", "router"}
StateIsKnown == main \notin BeforeState \union {"off"}
AfterSave == StateIsKnown /\ main \notin {"save", "write"}

(* The identifier and the count of a boot are new ones: each boot makes at *)
(* most one identifier and counts once.                                    *)
BootsCounted ==
  /\ main \in BeforeState => ids < boots /\ file.count < boots
  /\ file = NoState \/ (file.id >= 1 /\ file.count >= 1)
  /\ StateIsKnown => state.id >= 1 /\ state.count >= 1

(* How far the plugins are loaded, asked and stopped.                      *)
PlacesKept ==
  /\ Len(loaded) <= Len(PluginDir)
  /\ asked <= Len(loaded) + 1
  /\ main = "plugins" => Len(loaded) < place
  /\ main = "stop" => place <= Len(loaded) + 1
  /\ main \notin {"plugins", "stop"} => place = 1
  /\ main \in BeforePlugins => loaded = << >>

(* The threads there are at each step of the main thread.                  *)
ThreadsFollowMain ==
  /\ main \in BeforePlugins \union {"plugins", "beat"} => beat = "none"
  /\ main \in {"senders", "worker", "handlers", "stop"} => beat = "ended"
  /\ beat = "status" => minor < MaxBeats
  /\ main \in BeforePlugins => worker = "none"
  /\ main \in {"handlers", "stop"} => worker = "ended"
  /\ main \in BeforePlugins \union {"plugins", "beat", "callback"} => ~callback
  /\ worker = "handle" => callback

(* The plugins that may be called are loaded, and run until they are       *)
(* stopped.                                                                *)
LoadedRun ==
  /\ main # "stop" => ToSet(loaded) \subseteq running
  /\ main = "stop" => handler = NoHandlers
  /\ \A t \in Types : handler[t] \in ToSet(loaded) \union {None}
  /\ worker = "handle" => called \in ToSet(loaded)

(* What is in the file is the state the heartbeats are numbered with, or   *)
(* nothing, or the number of this boot was never saved.                    *)
StateIsSaved ==
  /\ main = "write" => file = NoState
  /\ AfterSave => file \in {state, NoState} \/ <<state.id, state.count>> \in unsaved

(* No heartbeat is numbered higher than the next boot would be, or than    *)
(* this one has got.                                                       *)
IsUnsaved(s) == <<s.id, s.major>> \in unsaved
FileIsAhead ==
  \A i \in DOMAIN sent :
    sent[i].id = file.id => sent[i].major <= file.count \/ IsUnsaved(sent[i])
StateIsAhead ==
  StateIsKnown =>
    \A i \in DOMAIN sent :
      sent[i].id = state.id =>
        \/ sent[i].major < state.count
        \/ sent[i].major = state.count /\ sent[i].minor <= minor
        \/ IsUnsaved(sent[i])

AInv ==
  /\ CoreTyped /\ BootsCounted /\ PlacesKept /\ ThreadsFollowMain /\ LoadedRun
  /\ StateIsSaved /\ FileIsAhead /\ StateIsAhead /\ Numbered

-----------------------------------------------------------------------------
(* Sequences                                                               *)

(* What is appended to a sequence is in it.                                *)
LEMMA ToSetAppend ==
  ASSUME NEW S, NEW s \in Seq(S), NEW e \in S
  PROVE  ToSet(Append(s, e)) = ToSet(s) \union {e}
<1> DEFINE t == Append(s, e)
<1>1. /\ Len(s) \in Nat /\ DOMAIN s = 1 .. Len(s) /\ DOMAIN t = 1 .. Len(s) + 1
      /\ t[Len(s) + 1] = e /\ \A i \in 1 .. Len(s) : t[i] = s[i]
  BY AppendProperties, LenProperties
<1> HIDE DEF t
<1>2. \A i \in 1 .. Len(s) + 1 : i \in 1 .. Len(s) \/ i = Len(s) + 1
  BY <1>1
<1>3. 1 .. Len(s) \subseteq 1 .. Len(s) + 1 /\ Len(s) + 1 \in 1 .. Len(s) + 1
  BY <1>1
<1>4. ToSet(t) = ToSet(s) \union {e}
  BY <1>1, <1>2, <1>3 DEF ToSet
<1> QED BY <1>4 DEF t

(* The elements of a sequence over S are in S, each at one of its places.  *)
LEMMA ToSetIn ==
  ASSUME NEW S, NEW s \in Seq(S)
  PROVE  ToSet(s) \subseteq S /\ \A i \in 1 .. Len(s) : s[i] \in ToSet(s)
BY ElementOfSeq, LenProperties DEF ToSet

(* The plugins in the order of the directory.                              *)
LEMMA PluginPlaces ==
  Len(PluginDir) \in Nat /\ \A n \in Nat : 1 <= n /\ n <= Len(PluginDir) => PluginDir[n] \in Plugins
<1>1. PluginDir \in Seq(Plugins)
  BY AgentAssumption
<1> QED BY <1>1, LenProperties, ElementOfSeq

(* The empty list of plugins is a list of plugins.                         *)
LEMMA NothingLoaded == << >> \in Seq(Plugins) /\ ToSet(<< >>) = {} /\ Len(<< >>) = 0
BY DEF ToSet

(* The heartbeats are numbered with identifiers and boots there were.      *)
LEMMA SentTyped ==
  ASSUME CoreTyped
  PROVE  /\ DOMAIN sent = 1 .. Len(sent) /\ Len(sent) \in Nat
         /\ \A i \in DOMAIN sent : /\ sent[i].id \in 1 .. ids /\ sent[i].major \in 1 .. boots
                                   /\ sent[i].minor \in 1 .. MaxBeats
<1> DEFINE S == [id : 1 .. ids, major : 1 .. boots, minor : 1 .. MaxBeats]
<1>1. sent \in Seq(S)
  BY DEF CoreTyped
<1>2. DOMAIN sent = 1 .. Len(sent) /\ Len(sent) \in Nat /\ \A i \in 1 .. Len(sent) : sent[i] \in S
  <2> HIDE DEF S
  <2> QED BY <1>1, ElementOfSeq, LenProperties
<1> QED BY <1>2

-----------------------------------------------------------------------------
(* The steps                                                               *)

(* The invariant of the agent holds before its first boot.                 *)
LEMMA AInit == Init => AInv
<1> SUFFICES ASSUME Init PROVE AInv
  OBVIOUS
<1> USE DEF Init
<1>1. CoreTyped
  <2>1. /\ 1 \in 1 .. Len(PluginDir) + 1 /\ 0 \in 0 .. MaxBeats /\ 0 \in 0 .. MaxBoots
        /\ NoState \in States
    BY AgentAssumption, PluginPlaces DEF States, NoState
  <2>2. sent \in Seq([id : 1 .. ids, major : 1 .. boots, minor : 1 .. MaxBeats])
    OBVIOUS
  <2>3. NoHandlers \in [Types -> Plugins \union {None}]
    BY DEF NoHandlers
  <2>4. /\ ids \in 0 .. boots /\ boots \in 0 .. MaxBoots /\ unsaved \subseteq (1 .. ids) \X (1 .. boots)
        /\ main \in MainSteps
    BY <2>1 DEF MainSteps
  <2>5. /\ loaded \in Seq(Plugins) /\ running \subseteq Plugins /\ senders \subseteq Plugins
        /\ asked \in 1 .. Len(PluginDir) + 1 /\ minor \in 0 .. MaxBeats /\ place \in 1 .. Len(PluginDir) + 1
    BY <2>1, NothingLoaded
  <2> QED BY <2>1, <2>2, <2>3, <2>4, <2>5 DEF CoreTyped
<1>2. BootsCounted
  BY DEF BootsCounted, BeforeState, StateIsKnown, NoState
<1>3. PlacesKept
  BY PluginPlaces, NothingLoaded DEF PlacesKept, BeforePlugins, BeforeState
<1>4. ThreadsFollowMain
  BY DEF ThreadsFollowMain
<1>5. LoadedRun
  BY NothingLoaded DEF LoadedRun, NoHandlers
<1>6. StateIsSaved /\ FileIsAhead /\ StateIsAhead /\ Numbered
  BY DEF StateIsSaved, FileIsAhead, StateIsAhead, Numbered, AfterSave, StateIsKnown, BeforeState
<1> QED BY <1>1, <1>2, <1>3, <1>4, <1>5, <1>6 DEF AInv

(* The end of the process.                                                 *)
LEMMA AExit ==
  ASSUME AInv, Exit, UNCHANGED disk
  PROVE  AInv'
<1> USE DEF Exit, disk
<1>1. CoreTyped'
  <2>1. /\ 1 \in 1 .. Len(PluginDir) + 1 /\ 0 \in 0 .. MaxBeats /\ States' = States
        /\ NoState \in States
    BY AgentAssumption, PluginPlaces DEF States, NoState, AInv, CoreTyped
  <2>2. NoHandlers \in [Types -> Plugins \union {None}]
    BY DEF NoHandlers
  <2> QED BY <2>1, <2>2, NothingLoaded DEF AInv, CoreTyped, MainSteps
<1>2. BootsCounted'
  BY DEF AInv, BootsCounted, BeforeState, StateIsKnown
<1>3. PlacesKept'
  BY PluginPlaces, NothingLoaded DEF PlacesKept, BeforePlugins, BeforeState
<1>4. ThreadsFollowMain'
  BY DEF ThreadsFollowMain
<1>5. LoadedRun'
  BY NothingLoaded DEF LoadedRun, NoHandlers
<1>6. StateIsSaved' /\ FileIsAhead' /\ StateIsAhead' /\ Numbered'
  BY DEF AInv, StateIsSaved, FileIsAhead, StateIsAhead, Numbered, AfterSave, StateIsKnown, BeforeState,
         IsUnsaved
<1> QED BY <1>1, <1>2, <1>3, <1>4, <1>5, <1>6 DEF AInv

(* A step of which the plugins, the heartbeat and the file see nothing.    *)
LEMMA AQuiet ==
  ASSUME AInv, UNCHANGED <<disk, threads, plugins, state, callback, sent>>,
         senders' \subseteq Plugins, term' \in BOOLEAN,
         main' = main \/ {main, main'} \subseteq BeforeState
  PROVE  AInv'
<1> USE DEF disk, threads, plugins
<1>1. main' \in MainSteps /\ (main \in BeforeState => main' \in BeforeState)
      /\ (main \notin BeforeState => main' = main)
  BY DEF AInv, CoreTyped, MainSteps, BeforeState
<1>2. CoreTyped'
  BY <1>1 DEF AInv, CoreTyped, States
<1>3. BootsCounted' /\ PlacesKept' /\ ThreadsFollowMain'
  BY <1>1 DEF AInv, BootsCounted, PlacesKept, ThreadsFollowMain, BeforePlugins, BeforeState, StateIsKnown
<1>4. LoadedRun'
  BY <1>1 DEF AInv, LoadedRun, BeforeState
<1>5. StateIsSaved' /\ FileIsAhead' /\ StateIsAhead' /\ Numbered'
  BY <1>1 DEF AInv, StateIsSaved, FileIsAhead, StateIsAhead, Numbered, AfterSave, StateIsKnown, BeforeState,
         IsUnsaved
<1> QED BY <1>2, <1>3, <1>4, <1>5 DEF AInv

(* A new boot has a number that no file has.                               *)
LEMMA ABoot == ASSUME AInv, Boot PROVE AInv'
<1> USE DEF Boot
<1>0. /\ boots \in Nat /\ MaxBoots \in Nat /\ ids \in Nat /\ ids <= boots
      /\ file.count \in Nat /\ file.count <= boots
  BY AgentAssumption DEF AInv, CoreTyped, States
<1>1. CoreTyped'
  <2>1. States \subseteq States'
    BY <1>0 DEF States
  <2>2. unsaved \subseteq (1 .. ids) \X (1 .. boots + 1)
    BY <1>0 DEF AInv, CoreTyped
  <2>3. sent \in Seq([id : 1 .. ids, major : 1 .. boots + 1, minor : 1 .. MaxBeats])
    <3>1. sent \in Seq([id : 1 .. ids, major : 1 .. boots, minor : 1 .. MaxBeats])
      BY DEF AInv, CoreTyped
    <3>2. 1 .. boots \subseteq 1 .. boots + 1
      BY <1>0
    <3>3. [id : 1 .. ids, major : 1 .. boots, minor : 1 .. MaxBeats]
            \subseteq [id : 1 .. ids, major : 1 .. boots + 1, minor : 1 .. MaxBeats]
      BY <3>2
    <3> QED BY <3>1, <3>3, SeqMonotonic
  <2> QED BY <1>0, <2>1, <2>2, <2>3 DEF AInv, CoreTyped, MainSteps, threads, plugins
<1>2. BootsCounted'
  BY <1>0 DEF AInv, BootsCounted, BeforeState, StateIsKnown
<1>3. PlacesKept'
  BY DEF AInv, PlacesKept, BeforePlugins, BeforeState, threads, plugins
<1>4. ThreadsFollowMain'
  BY DEF AInv, ThreadsFollowMain, BeforePlugins, BeforeState, threads
<1>5. LoadedRun'
  BY DEF AInv, LoadedRun, threads, plugins
<1>6. StateIsSaved' /\ FileIsAhead' /\ StateIsAhead' /\ Numbered'
  BY DEF AInv, StateIsSaved, FileIsAhead, StateIsAhead, Numbered, AfterSave, StateIsKnown, BeforeState,
         IsUnsaved
<1> QED BY <1>1, <1>2, <1>3, <1>4, <1>5, <1>6 DEF AInv

(* The file is loaded: the boot is the next of the identifier, or has one  *)
(* that no heartbeat has.                                                  *)
LEMMA AKeepState == ASSUME AInv, KeepState PROVE AInv'
<1> USE DEF KeepState, startup, threads, plugins
<1>0. /\ file \in States /\ file.count < boots /\ boots \in Nat /\ ids \in Nat
      /\ file # NoState /\ file.id >= 1 /\ file.count >= 1
      /\ UNCHANGED <<file, ids, boots, unsaved, macs>>
  BY AgentAssumption DEF AInv, CoreTyped, BootsCounted, BeforeState, Readable, NoState, disk
<1>1. state' = [file EXCEPT !.count = file.count + 1] /\ States' = States
  BY <1>0 DEF Counted, States
<1>2. /\ state' \in States /\ state'.id = file.id /\ state'.count = file.count + 1
      /\ file.count \in Nat /\ file.id \in Nat
  BY <1>0, <1>1 DEF States
<1>3. CoreTyped'
  BY <1>0, <1>1, <1>2 DEF AInv, CoreTyped, MainSteps
<1>4. BootsCounted'
  BY <1>0, <1>2 DEF AInv, BootsCounted, BeforeState, StateIsKnown
<1>5. PlacesKept' /\ ThreadsFollowMain' /\ LoadedRun'
  BY DEF AInv, PlacesKept, ThreadsFollowMain, LoadedRun, BeforePlugins, BeforeState
<1>6. StateIsSaved' /\ FileIsAhead' /\ Numbered'
  BY <1>0 DEF AInv, StateIsSaved, FileIsAhead, Numbered, AfterSave, StateIsKnown, BeforeState, IsUnsaved
<1>7. StateIsAhead'
  <2> SUFFICES ASSUME NEW i \in DOMAIN sent, sent[i].id = file.id
               PROVE  sent[i].major < file.count + 1 \/ IsUnsaved(sent[i])
    BY <1>0, <1>2 DEF StateIsAhead, IsUnsaved
  <2>1. sent[i].major \in Nat
    BY SentTyped DEF AInv
  <2>2. sent[i].major <= file.count \/ IsUnsaved(sent[i])
    BY DEF AInv, FileIsAhead
  <2> QED BY <1>2, <2>1, <2>2
<1> QED BY <1>3, <1>4, <1>5, <1>6, <1>7 DEF AInv

(* A boot with new addresses takes the next identifier (saved_state.c:200).*)
LEMMA AResetState == ASSUME AInv, ResetState PROVE AInv'
<1> USE DEF ResetState, startup, threads, plugins
<1>0. /\ ids \in Nat /\ boots \in Nat /\ ids < boots /\ file \in States /\ file' \in {file, NoState}
      /\ UNCHANGED <<sent, boots, unsaved, minor>>
  BY AgentAssumption DEF AInv, CoreTyped, BootsCounted, BeforeState
<1>1. state' = [id |-> ids + 1, count |-> 1, macs |-> macs]
  BY DEF Counted
<1>2. States \subseteq States' /\ NoState \in States' /\ state' \in States'
  BY <1>0, <1>1 DEF States, NoState, AInv, CoreTyped
<1>3. CoreTyped'
  <2>1. unsaved \subseteq (1 .. ids + 1) \X (1 .. boots)
    BY <1>0 DEF AInv, CoreTyped
  <2>2. sent \in Seq([id : 1 .. ids + 1, major : 1 .. boots, minor : 1 .. MaxBeats])
    <3>1. sent \in Seq([id : 1 .. ids, major : 1 .. boots, minor : 1 .. MaxBeats])
      BY DEF AInv, CoreTyped
    <3>2. 1 .. ids \subseteq 1 .. ids + 1
      BY <1>0
    <3>3. [id : 1 .. ids, major : 1 .. boots, minor : 1 .. MaxBeats]
            \subseteq [id : 1 .. ids + 1, major : 1 .. boots, minor : 1 .. MaxBeats]
      BY <3>2
    <3> QED BY <3>1, <3>3, SeqMonotonic
  <2> QED BY <1>0, <1>2, <2>1, <2>2 DEF AInv, CoreTyped, MainSteps
<1>4. BootsCounted'
  BY <1>0, <1>1 DEF AInv, BootsCounted, BeforeState, StateIsKnown
<1>5. PlacesKept' /\ ThreadsFollowMain' /\ LoadedRun'
  BY DEF AInv, PlacesKept, ThreadsFollowMain, LoadedRun, BeforePlugins, BeforeState
<1>6. \A i \in DOMAIN sent : sent[i].id \in 1 .. ids
  BY SentTyped DEF AInv
<1>7. StateIsSaved' /\ Numbered'
  BY <1>0 DEF AInv, StateIsSaved, Numbered, AfterSave, StateIsKnown, BeforeState
<1>8. FileIsAhead'
  BY <1>0, <1>6 DEF AInv, FileIsAhead, NoState, IsUnsaved
<1>9. StateIsAhead'
  BY <1>0, <1>1, <1>6 DEF StateIsAhead
<1> QED BY <1>3, <1>4, <1>5, <1>7, <1>8, <1>9 DEF AInv

(* The state is saved, or its number is known to be unsaved, or the file   *)
(* is left empty.                                                          *)
LEMMA AOpenFails == ASSUME AInv, OpenFails PROVE AInv'
<1> USE DEF OpenFails, startup, threads, plugins
<1>0. state \in States /\ state.id \in 1 .. ids /\ state.count \in 1 .. boots
  BY AgentAssumption DEF AInv, CoreTyped, States, BootsCounted, StateIsKnown, BeforeState
<1>1. CoreTyped'
  <2>1. unsaved' \subseteq (1 .. ids) \X (1 .. boots) /\ main' \in MainSteps
    BY <1>0 DEF AInv, CoreTyped, MainSteps
  <2>2. /\ UNCHANGED <<file, state, macs, ids, boots, callback, senders, term, sent>>
        /\ UNCHANGED <<place, loaded, running, handler, beat, asked, minor, worker, called>>
    OBVIOUS
  <2>3. CoreTyped
    BY DEF AInv
  <2> HIDE DEF OpenFails, startup, threads, plugins
  <2> QED BY <2>1, <2>2, <2>3 DEF CoreTyped, States
<1>2. BootsCounted'
  BY DEF AInv, BootsCounted, BeforeState, StateIsKnown
<1>3. PlacesKept' /\ ThreadsFollowMain' /\ LoadedRun'
  BY DEF AInv, PlacesKept, ThreadsFollowMain, LoadedRun, BeforePlugins, BeforeState
<1>4. StateIsSaved' /\ FileIsAhead' /\ StateIsAhead' /\ Numbered'
  BY DEF AInv, StateIsSaved, FileIsAhead, StateIsAhead, Numbered, AfterSave, StateIsKnown, BeforeState,
         IsUnsaved
<1> QED BY <1>1, <1>2, <1>3, <1>4 DEF AInv

(* The file that could be opened is empty until it is written.             *)
LEMMA ATruncate == ASSUME AInv, Truncate PROVE AInv'
<1> USE DEF Truncate, startup, threads, plugins
<1>0. NoState \in States /\ States' = States
  BY AgentAssumption DEF AInv, CoreTyped, States, NoState
<1>1. CoreTyped'
  BY <1>0 DEF AInv, CoreTyped, MainSteps
<1>2. BootsCounted'
  BY DEF AInv, BootsCounted, BeforeState, StateIsKnown
<1>3. PlacesKept' /\ ThreadsFollowMain' /\ LoadedRun'
  BY DEF AInv, PlacesKept, ThreadsFollowMain, LoadedRun, BeforePlugins, BeforeState
<1>4. \A i \in DOMAIN sent : sent[i].id # 0
  <2>1. \A i \in DOMAIN sent : sent[i].id \in 1 .. ids
    BY SentTyped DEF AInv
  <2> QED BY <2>1
<1>5. StateIsSaved' /\ FileIsAhead' /\ StateIsAhead' /\ Numbered'
  BY <1>4 DEF AInv, StateIsSaved, FileIsAhead, StateIsAhead, Numbered, AfterSave, StateIsKnown, BeforeState,
              IsUnsaved, NoState
<1> QED BY <1>1, <1>2, <1>3, <1>5 DEF AInv

(* What is written is the state the agent has, or the file stays empty.    *)
LEMMA AWrite == ASSUME AInv, Write PROVE AInv'
<1> USE DEF Write, startup, threads, plugins
<1>0. file' \in {state, NoState} /\ file = NoState /\ {state, NoState} \subseteq States /\ States' = States
  BY AgentAssumption DEF AInv, CoreTyped, States, NoState, StateIsSaved
<1>1. CoreTyped'
  BY <1>0 DEF AInv, CoreTyped, MainSteps
<1>2. BootsCounted'
  BY <1>0 DEF AInv, BootsCounted, BeforeState, StateIsKnown
<1>3. PlacesKept' /\ ThreadsFollowMain' /\ LoadedRun'
  BY DEF AInv, PlacesKept, ThreadsFollowMain, LoadedRun, BeforePlugins, BeforeState
<1>4. \A i \in DOMAIN sent : sent[i].id \in 1 .. ids /\ sent[i].major \in Nat
  BY SentTyped DEF AInv
<1>5. StateIsSaved' /\ StateIsAhead' /\ Numbered'
  BY <1>0 DEF AInv, StateIsSaved, StateIsAhead, Numbered, AfterSave, StateIsKnown, BeforeState, IsUnsaved
<1>6. FileIsAhead'
  <2>1. CASE file' = NoState
    BY <1>4, <2>1 DEF FileIsAhead, NoState
  <2>2. CASE file' = state
    <3>1. state.count \in Nat
      BY <1>0 DEF States
    <3>2. \A i \in DOMAIN sent : sent[i].id = state.id =>
            sent[i].major <= state.count \/ IsUnsaved(sent[i])
      BY <1>4, <3>1 DEF AInv, StateIsAhead, StateIsKnown, BeforeState
    <3> QED BY <2>2, <3>2 DEF FileIsAhead, IsUnsaved
  <2> QED BY <1>0, <2>1, <2>2
<1> QED BY <1>1, <1>2, <1>3, <1>5, <1>6 DEF AInv

(* The state, and what was sent, are not touched by what the main thread   *)
(* does after the state was saved, nor by the other threads.               *)
LEMMA AHistory ==
  ASSUME AInv, UNCHANGED <<disk, state, sent, minor>>,
         main' = main \/ (AfterSave /\ AfterSave'), main' \in MainSteps
  PROVE  BootsCounted' /\ StateIsSaved' /\ FileIsAhead' /\ StateIsAhead' /\ Numbered'
<1> USE DEF disk
<1>1. StateIsKnown' <=> StateIsKnown
  BY DEF StateIsKnown, AfterSave
<1>2. AfterSave' <=> AfterSave
  BY DEF StateIsKnown, AfterSave
<1>3. (main' \in BeforeState => main \in BeforeState) /\ (main' = "write" => main = "write")
  BY DEF AfterSave, StateIsKnown
<1> QED BY <1>1, <1>2, <1>3
        DEF AInv, BootsCounted, StateIsSaved, FileIsAhead, StateIsAhead, Numbered, IsUnsaved

(* The router is started on a state that was saved or could not be.        *)
LEMMA AStartRouter == ASSUME AInv, StartRouter PROVE AInv'
<1> USE DEF StartRouter, startup, plugins
<1>1. BootsCounted' /\ StateIsSaved' /\ FileIsAhead' /\ StateIsAhead' /\ Numbered'
  BY AHistory DEF AfterSave, StateIsKnown, BeforeState, MainSteps
<1>2. CoreTyped'
  BY DEF AInv, CoreTyped, States, disk, MainSteps
<1>3. PlacesKept' /\ ThreadsFollowMain' /\ LoadedRun'
  BY NothingLoaded DEF AInv, PlacesKept, ThreadsFollowMain, LoadedRun, BeforePlugins, BeforeState
<1> QED BY <1>1, <1>2, <1>3 DEF AInv

(* A plugin is loaded, and is running if it is listed.                     *)
LEMMA ALoadPlugin == ASSUME AInv, LoadPlugin PROVE AInv'
<1> DEFINE p == PluginDir[place]
<1> USE DEF LoadPlugin, startup
<1>0. /\ main = "plugins" /\ main' = main /\ place \in Nat /\ 1 <= place /\ place <= Len(PluginDir)
      /\ Len(PluginDir) \in Nat /\ p \in Plugins /\ place' = place + 1
      /\ loaded \in Seq(Plugins) /\ Len(loaded) \in Nat
  BY PluginPlaces, LenProperties DEF AInv, CoreTyped
<1>1. BootsCounted' /\ StateIsSaved' /\ FileIsAhead' /\ StateIsAhead' /\ Numbered'
  BY <1>0, AHistory DEF AfterSave, StateIsKnown, BeforeState, MainSteps, threads
<1>2. \/ loaded' = loaded /\ handler' = handler /\ running \subseteq running' /\ running' \subseteq running \union {p}
      \/ /\ loaded' = Append(loaded, p) /\ running' = running \union {p}
         /\ handler' = [t \in Types |-> IF t \in Handles[p] THEN p ELSE handler[t]]
  OBVIOUS
<1>3. /\ loaded' \in Seq(Plugins) /\ Len(loaded) <= Len(loaded') /\ Len(loaded') <= Len(loaded) + 1
      /\ ToSet(loaded) \subseteq ToSet(loaded') /\ Len(loaded') \in Nat
      /\ ToSet(loaded') \subseteq running'
      /\ \A t \in Types : handler'[t] \in ToSet(loaded') \union {None}
      /\ handler' \in [Types -> Plugins \union {None}]
  <2> HIDE DEF p
  <2>1. ToSet(loaded) \subseteq running /\ \A t \in Types : handler[t] \in ToSet(loaded) \union {None}
    BY <1>0 DEF AInv, LoadedRun
  <2>2. handler \in [Types -> Plugins \union {None}]
    BY DEF AInv, CoreTyped
  <2>3. CASE loaded' = loaded /\ handler' = handler /\ running \subseteq running'
    BY <1>0, <2>1, <2>2, <2>3
  <2>4. CASE /\ loaded' = Append(loaded, p) /\ running' = running \union {p}
             /\ handler' = [t \in Types |-> IF t \in Handles[p] THEN p ELSE handler[t]]
    <3>1. loaded' \in Seq(Plugins) /\ Len(loaded') = Len(loaded) + 1
      BY <1>0, <2>4, AppendProperties
    <3>2. ToSet(loaded') = ToSet(loaded) \union {p}
      BY <1>0, <2>4, ToSetAppend
    <3>3. /\ \A t \in Types : handler'[t] \in ToSet(loaded') \union {None}
          /\ handler' \in [Types -> Plugins \union {None}]
      BY <1>0, <2>1, <2>2, <2>4, <3>2
    <3> QED BY <1>0, <2>1, <2>4, <3>1, <3>2, <3>3
  <2> QED BY <1>2, <2>3, <2>4
<1>4. running' \subseteq Plugins
  BY <1>0, <1>2 DEF AInv, CoreTyped
<1> HIDE DEF p
<1>5. CoreTyped'
  BY SMTT(20), <1>0, <1>3, <1>4 DEF AInv, CoreTyped, States, disk, threads
<1>6. PlacesKept'
  BY <1>0, <1>3 DEF AInv, CoreTyped, PlacesKept, BeforePlugins, BeforeState, threads
<1>7. ThreadsFollowMain'
  BY <1>0 DEF AInv, ThreadsFollowMain, threads
<1>8. LoadedRun'
  BY <1>0, <1>3 DEF AInv, LoadedRun, threads, ThreadsFollowMain
<1> QED BY <1>1, <1>5, <1>6, <1>7, <1>8 DEF AInv

(* The heartbeat thread starts when the last plugin file was tried.        *)
LEMMA APluginsLoaded == ASSUME AInv, PluginsLoaded PROVE AInv'
<1> USE DEF PluginsLoaded, threads
<1>1. BootsCounted' /\ StateIsSaved' /\ FileIsAhead' /\ StateIsAhead' /\ Numbered'
  BY AHistory DEF AfterSave, StateIsKnown, BeforeState, MainSteps
<1>2. CoreTyped'
  BY SMTT(20), PluginPlaces DEF AInv, CoreTyped, States, disk, MainSteps
<1>3. PlacesKept' /\ ThreadsFollowMain' /\ LoadedRun'
  BY DEF AInv, PlacesKept, ThreadsFollowMain, LoadedRun, BeforePlugins, BeforeState
<1> QED BY <1>1, <1>2, <1>3 DEF AInv

(* The main thread goes on while the plugins stay as they are.             *)
LEMMA AOnward ==
  ASSUME AInv,
         \/ StartHeartbeat \/ SetCallback \/ Terminate \/ HeartbeatJoined \/ DestroySenders
         \/ RouterDestroyed \/ FreeHandlers
  PROVE  AInv'
<1> USE DEF StartHeartbeat, SetCallback, Terminate, HeartbeatJoined, DestroySenders,
            RouterDestroyed, FreeHandlers, After
<1>0. /\ UNCHANGED <<disk, state, sent, minor, asked, called, place, loaded, running, term>>
      /\ main \in {"beat", "callback", "serve", "join", "senders", "worker", "handlers"}
      /\ main' \in {"callback", "serve", "join", "senders", "worker", "handlers", "stop"}
  BY DEF plugins, threads
<1>1. BootsCounted' /\ StateIsSaved' /\ FileIsAhead' /\ StateIsAhead' /\ Numbered'
  BY <1>0, AHistory DEF AfterSave, StateIsKnown, BeforeState, MainSteps
<1>2. CoreTyped'
  <2>1. /\ main' \in MainSteps /\ callback' \in BOOLEAN /\ senders' \subseteq Plugins
        /\ beat' \in {"none", "wait", "status", "ended"} /\ worker' = worker
        /\ handler' \in [Types -> Plugins \union {None}]
    BY DEF AInv, CoreTyped, MainSteps, plugins, threads, NoHandlers
  <2>2. file \in States => file' \in States'
    BY <1>0 DEF States, disk
  <2>3. state \in States => state' \in States'
    BY <1>0 DEF States, disk
  <2> QED BY <1>0, <2>1, <2>2, <2>3 DEF AInv, CoreTyped, disk
<1>3. PlacesKept'
  BY <1>0 DEF AInv, PlacesKept, BeforePlugins, BeforeState, CoreTyped
<1>4. ThreadsFollowMain'
  BY <1>0 DEF AInv, ThreadsFollowMain, threads, BeforePlugins, BeforeState
<1>5. LoadedRun'
  BY <1>0 DEF AInv, LoadedRun, plugins, threads, NoHandlers
<1> QED BY <1>1, <1>2, <1>3, <1>4, <1>5 DEF AInv

(* The plugins are stopped in the order they were loaded in.               *)
LEMMA AStopPlugin == ASSUME AInv, StopPlugin PROVE AInv'
<1> USE DEF StopPlugin, threads
<1>1. BootsCounted' /\ StateIsSaved' /\ FileIsAhead' /\ StateIsAhead' /\ Numbered'
  BY AHistory DEF AInv, CoreTyped
<1>2. loaded \in Seq(Plugins) /\ Len(loaded) \in Nat /\ Len(PluginDir) \in Nat /\ Len(loaded) <= Len(PluginDir)
  BY PluginPlaces, LenProperties DEF AInv, CoreTyped, PlacesKept
<1>3. CoreTyped'
  BY SMTT(20), <1>2 DEF AInv, CoreTyped, States, disk
<1>4. PlacesKept' /\ ThreadsFollowMain' /\ LoadedRun'
  BY <1>2 DEF AInv, CoreTyped, PlacesKept, ThreadsFollowMain, LoadedRun, BeforePlugins, BeforeState
<1> QED BY <1>1, <1>3, <1>4 DEF AInv

(* The heartbeat thread waits, asks, or ends; the socket worker calls a    *)
(* handler, returns from it, or ends.                                      *)
LEMMA AThreads ==
  ASSUME AInv,
         \/ Beat \/ AskPlugin \/ HeartbeatEnds \/ HandlerReturns \/ WorkerEnds
         \/ \E t \in Types : Dispatch(t)
  PROVE  AInv'
<1> USE DEF Beat, AskPlugin, HeartbeatEnds, HandlerReturns, WorkerEnds, Dispatch, CanDispatch, startup, plugins
<1>0. UNCHANGED <<disk, state, sent, minor, main, place, loaded, running, handler, callback, senders, term>>
  OBVIOUS
<1>1. BootsCounted' /\ StateIsSaved' /\ FileIsAhead' /\ StateIsAhead' /\ Numbered'
  BY <1>0, AHistory DEF AInv, CoreTyped
<1>2. /\ loaded \in Seq(Plugins) /\ Len(loaded) \in Nat /\ Len(PluginDir) \in Nat /\ Len(loaded) <= Len(PluginDir)
      /\ asked \in Nat
  BY PluginPlaces, LenProperties DEF AInv, CoreTyped, PlacesKept
<1>3. asked' \in 1 .. Len(loaded) + 1
  BY <1>2 DEF AInv, CoreTyped, PlacesKept
<1>4. /\ beat' \in {"none", "wait", "status", "ended"} /\ worker' \in {"none", "poll", "handle", "ended"}
      /\ called' \in Plugins \union {None}
  BY DEF AInv, CoreTyped
<1>5. CoreTyped'
  BY SMTT(20), <1>0, <1>2, <1>3, <1>4 DEF AInv, CoreTyped, States, disk
<1>6. PlacesKept'
  BY <1>0, <1>2, <1>3 DEF AInv, PlacesKept
<1>7. ThreadsFollowMain'
  BY <1>0, AgentAssumption
  DEF AInv, CoreTyped, ThreadsFollowMain, BeforePlugins, BeforeState, Stopping, MainSteps
<1>8. LoadedRun'
  BY <1>0 DEF AInv, LoadedRun, NoHandlers
<1> QED BY <1>1, <1>5, <1>6, <1>7, <1>8 DEF AInv

(* A heartbeat is numbered higher than all before it, but for those of a   *)
(* boot whose number was never saved.                                      *)
LEMMA ASendHeartbeat == ASSUME AInv, SendHeartbeat PROVE AInv'
<1> DEFINE S == [id : 1 .. ids, major : 1 .. boots, minor : 1 .. MaxBeats]
           m == [id |-> state.id, major |-> state.count, minor |-> minor + 1]
<1> USE DEF SendHeartbeat, startup, plugins
<1>1. /\ UNCHANGED <<disk, state, main, ids, boots, unsaved, file>> /\ sent' = Append(sent, m) /\ minor' = minor + 1
      /\ beat = "status" /\ AfterSave /\ StateIsKnown /\ minor \in Nat /\ minor < MaxBeats
  BY AgentAssumption
  DEF AInv, CoreTyped, ThreadsFollowMain, BeforePlugins, BeforeState, AfterSave, StateIsKnown, disk
<1>2. /\ state.id \in 1 .. ids /\ state.count \in 1 .. boots /\ m \in S
  <2>1. state \in States /\ ids \in Nat /\ boots \in Nat
    BY AgentAssumption DEF AInv, CoreTyped
  <2>2. state.id >= 1 /\ state.count >= 1
    BY <1>1 DEF AInv, BootsCounted
  <2>3. state.id \in 1 .. ids /\ state.count \in 1 .. boots
    BY <2>1, <2>2 DEF States
  <2>4. minor + 1 \in 1 .. MaxBeats
    BY <1>1, AgentAssumption
  <2> QED BY <2>3, <2>4
<1>3. /\ sent \in Seq(S) /\ sent' \in Seq(S) /\ Len(sent') = Len(sent) + 1 /\ sent'[Len(sent) + 1] = m
      /\ \A i \in 1 .. Len(sent) : sent'[i] = sent[i]
      /\ Len(sent) \in Nat /\ DOMAIN sent = 1 .. Len(sent) /\ DOMAIN sent' = 1 .. Len(sent) + 1
  <2>1. sent \in Seq(S)
    BY DEF AInv, CoreTyped
  <2> HIDE DEF S, m
  <2>2. Len(sent) \in Nat /\ DOMAIN sent = 1 .. Len(sent)
    BY <2>1, LenProperties
  <2>3. sent' \in Seq(S)
    BY <1>1, <1>2, <2>1, AppendProperties
  <2>4. Len(sent') = Len(sent) + 1 /\ sent'[Len(sent) + 1] = m /\ \A i \in 1 .. Len(sent) : sent'[i] = sent[i]
    BY <1>1, <1>2, <2>1, AppendProperties
  <2>5. DOMAIN sent' = 1 .. Len(sent) + 1
    BY <2>3, <2>4, LenProperties
  <2> QED BY <2>1, <2>2, <2>3, <2>4, <2>5
<1>4. \A i \in DOMAIN sent' : (i \in DOMAIN sent /\ sent'[i] = sent[i]) \/ (i = Len(sent) + 1 /\ sent'[i] = m)
  <2> DEFINE n == Len(sent)
  <2>1. \A i \in 1 .. n + 1 : i \in 1 .. n \/ i = n + 1
    BY <1>3
  <2> HIDE DEF m
  <2> QED BY <1>3, <2>1
<1>5. \A i \in DOMAIN sent : sent[i].major \in Nat /\ sent[i].minor \in Nat
  BY SentTyped DEF AInv
<1> HIDE DEF S
<1>6. CoreTyped'
  BY SMTT(20), <1>1, <1>3 DEF AInv, CoreTyped, States, disk, S
<1>7. BootsCounted' /\ StateIsSaved'
  BY <1>1 DEF AInv, BootsCounted, StateIsSaved, StateIsKnown, AfterSave
<1>8. PlacesKept' /\ ThreadsFollowMain' /\ LoadedRun'
  BY <1>1 DEF AInv, PlacesKept, ThreadsFollowMain, LoadedRun
<1>9. FileIsAhead'
  <2>1. m.id = file.id => m.major <= file.count \/ IsUnsaved(m)
    BY <1>1, <1>2 DEF AInv, StateIsSaved, NoState, IsUnsaved
  <2>2. \A i \in DOMAIN sent' : sent'[i].id = file.id => sent'[i].major <= file.count \/ IsUnsaved(sent'[i])
    BY <1>4, <2>1 DEF AInv, FileIsAhead
  <2> QED BY <1>1, <2>2 DEF FileIsAhead, IsUnsaved
<1>10. StateIsAhead'
  <2>1. \A i \in DOMAIN sent : sent[i].id = state.id =>
          \/ sent[i].major < state.count
          \/ sent[i].major = state.count /\ sent[i].minor <= minor + 1
          \/ IsUnsaved(sent[i])
    BY <1>1, <1>5 DEF AInv, StateIsAhead
  <2>2. m.major = state.count /\ m.minor <= minor + 1
    BY <1>1
  <2>3. \A i \in DOMAIN sent' : sent'[i].id = state.id =>
          \/ sent'[i].major < state.count
          \/ sent'[i].major = state.count /\ sent'[i].minor <= minor + 1
          \/ IsUnsaved(sent'[i])
    BY <1>4, <2>1, <2>2
  <2> QED BY <1>1, <2>3 DEF StateIsAhead, IsUnsaved
<1>11. Numbered'
  <2> SUFFICES ASSUME NEW i \in DOMAIN sent', NEW j \in DOMAIN sent', i < j, sent'[i].id = sent'[j].id
               PROVE  Before(sent'[i], sent'[j]) \/ IsUnsaved(sent'[i])
    BY <1>1 DEF Numbered, IsUnsaved
  <2>1. i \in DOMAIN sent /\ sent'[i] = sent[i]
    BY <1>3
  <2>2. CASE j \in DOMAIN sent /\ sent'[j] = sent[j]
    BY <2>1, <2>2 DEF AInv, Numbered, IsUnsaved
  <2>3. CASE sent'[j] = m
    <3>1. \/ sent[i].major < state.count
          \/ sent[i].major = state.count /\ sent[i].minor <= minor
          \/ IsUnsaved(sent[i])
      BY <1>1, <2>1, <2>3 DEF AInv, StateIsAhead
    <3>2. m.major = state.count /\ m.minor = minor + 1
      OBVIOUS
    <3> HIDE DEF m
    <3> QED BY <1>1, <1>5, <2>1, <2>3, <3>1, <3>2 DEF Before
  <2> QED BY <1>4, <2>2, <2>3
<1> QED BY <1>6, <1>7, <1>8, <1>9, <1>10, <1>11 DEF AInv

(* Every step of the agent keeps AInv.                                     *)
LEMMA ANext == AInv /\ [Next]_vars => AInv'
<1> SUFFICES ASSUME AInv, [Next]_vars PROVE AInv'
  OBVIOUS
<1>1. ASSUME \/ LoadSettings \/ LookAtDir \/ DirsReady \/ Hang \/ Signal
             \/ (MakeDir /\ ~Exit) \/ (\E d \in OwnDirs : Meddle(d)) \/ (\E p \in Plugins : PluginSends(p))
             \/ UNCHANGED vars
      PROVE  AInv'
  <2>1. /\ UNCHANGED <<disk, threads, plugins, state, callback, sent>>
        /\ main' = main \/ {main, main'} \subseteq BeforeState
    BY <1>1 DEF LoadSettings, LookAtDir, DirsReady, Hang, Signal, MakeDir, Meddle, PluginSends, BeforeState,
                startup, disk, threads, plugins, vars
  <2>2. senders' \subseteq Plugins /\ term' \in BOOLEAN
    BY <1>1 DEF LoadSettings, LookAtDir, DirsReady, Hang, Signal, MakeDir, Meddle, PluginSends,
                startup, disk, threads, plugins, vars, AInv, CoreTyped
  <2> QED BY <2>1, <2>2, AQuiet
<1>2. ASSUME \/ Crash \/ NoDir \/ NoRouter \/ RouterFails \/ (MakeDir /\ Exit)
             \/ (\E p \in Plugins : MemoryIsLost(p))
      PROVE  AInv'
  BY <1>2, AExit DEF Crash, NoDir, NoRouter, RouterFails, MakeDir, MemoryIsLost
<1>3. CASE PluginsStopped
  BY <1>3, AExit DEF PluginsStopped, After
<1>4. CASE Next
  BY <1>1, <1>2, <1>3, <1>4, ABoot, AKeepState, AResetState, AOpenFails, ATruncate, AWrite, AStartRouter,
     ALoadPlugin, APluginsLoaded, AOnward, AStopPlugin, AThreads, ASendHeartbeat
  DEF Next
<1> QED BY <1>1, <1>4

-----------------------------------------------------------------------------
(* The theorems                                                            *)

(* AInv, the invariant the two theorems below rest on, holds throughout:   *)
(* agent.c and saved_state.c keep the file of the state, the state in      *)
(* memory and the numbers of what was sent in step.                        *)
THEOREM AInvHolds == Spec => []AInv
BY AInit, ANext, PTL DEF Spec

(* Whatever crashed between two steps of the agent, and whatever of its    *)
(* state could not be written, two heartbeats with the same identifier are *)
(* numbered in the order in which they were sent, except for those of a    *)
(* boot whose number could not be saved.  (agent.c:135, saved_state.c:240) *)
THEOREM HeartbeatsAreNumbered == Spec => []Numbered
<1>1. AInv => Numbered
  BY DEF AInv
<1> QED BY <1>1, AInvHolds, PTL

(* A plugin's handler and status are called only between its start and its *)
(* stop, whatever plugins there are and whichever of them fail.            *)
(* (agent.c:129, 302, 441)                                                 *)
THEOREM PluginsRunWhenCalled == Spec => []PluginsAlive
<1>1. AInv => PluginsAlive
  BY DEF AInv, CoreTyped, LoadedRun, ThreadsFollowMain, PluginsAlive, NoHandlers
<1> QED BY <1>1, AInvHolds, PTL

-----------------------------------------------------------------------------
(* Settings                                                                *)

(* The settings there may be, of what type and of what values.  A text of  *)
(* a directory ends with a separator and has no two that follow each other.*)
DirKeys == {"data-dir", "spool-dir", "plugin-dir", "bin-dir"}
TextKeys == {"config-file", "router", "heartbeat-recipient"}
SizeKeys == {"max-spool-partition-size", "max-message-size"}
AgentUints == {"max-spool-partitions", "heartbeat-seconds", "start-connection-seconds",
               "reconnect-timeout-seconds", "poll-milliseconds"}
FileUints == {"max-spool-dbs", "fs-monitor-latency-seconds", "send-latency-seconds", "max-queued-jobs"}

Keys ==
  {<<"agent", key>> : key \in DirKeys \union TextKeys \union SizeKeys \union AgentUints}
    \union {<<"file", key>> : key \in {"data-dir"} \union FileUints}

KeyType(key) ==
  IF key \in DirKeys THEN "dir" ELSE IF key \in TextKeys THEN "text"
  ELSE IF key \in SizeKeys THEN "byte_size" ELSE "uint"

NoDoubles(t) == \A i \in 2 .. Len(t) : t[i] = Sep => t[i - 1] # Sep

Texts == Seq(Characters)
DirTexts == {t \in Texts : NoDoubles(t) /\ (t # << >> => t[Len(t)] = Sep)}

ValuesOf(type) == IF type = "text" THEN Texts ELSE IF type = "dir" THEN DirTexts ELSE Nat

SettingEntries == [value : Texts \union Nat, type : SettingTypes]

WellSet(s) ==
  /\ s = [k \in DOMAIN s |-> s[k]] /\ DOMAIN s \subseteq Keys
  /\ \A k \in DOMAIN s : s[k] \in SettingEntries /\ s[k].type = KeyType(k[2]) /\ s[k].value \in ValuesOf(KeyType(k[2]))

(* What a key of a section is, and its type.                               *)
LEMMA KeyFacts ==
  ASSUME NEW sct, NEW key, <<sct, key>> \in Keys
  PROVE  /\ sct \in {"agent", "file"} /\ KeyType(key) \in SettingTypes
         /\ ValuesOf(KeyType(key)) \subseteq Texts \union Nat
         /\ <<sct, key>>[1] = sct /\ <<sct, key>>[2] = key
<1>1. sct \in {"agent", "file"}
  BY DEF Keys
<1>2. KeyType(key) \in SettingTypes
  BY DEF KeyType, SettingTypes
<1>3. ValuesOf(KeyType(key)) \subseteq Texts \union Nat
  BY DEF ValuesOf, DirTexts
<1> QED BY <1>1, <1>2, <1>3

(* t is s with val as the value of a key.                                  *)
IsSet(t, s, sct, key, val) ==
  /\ WellSet(t) /\ DOMAIN t = DOMAIN s \union {<<sct, key>>}
  /\ t[<<sct, key>>] = [value |-> val, type |-> KeyType(key)]
  /\ \A k \in DOMAIN s : k # <<sct, key>> => t[k] = s[k]

(* A value that is set is the one of its key, with the key's type; the     *)
(* other settings are left alone.                                          *)
LEMMA SetIs ==
  ASSUME NEW s, WellSet(s), NEW sct, NEW key, <<sct, key>> \in Keys,
         NEW val \in ValuesOf(KeyType(key)), NEW type, type = KeyType(key) \/ <<sct, key>> \in DOMAIN s
  PROVE  IsSet(Set(s, sct, key, val, type), s, sct, key, val)
<1> DEFINE k == <<sct, key>>
           v == [value |-> val, type |-> KeyType(key)]
           t == [j \in DOMAIN s \union {k} |-> IF j = k THEN v ELSE s[j]]
<1>1. k[2] = key /\ KeyType(key) \in SettingTypes /\ val \in Texts \union Nat
  BY KeyFacts
<1>2. k \in DOMAIN s => s[k].type = KeyType(key)
  BY <1>1 DEF WellSet
<1>3. Valued(s, k, val, type) = v
  BY <1>2 DEF Valued
<1>4. Set(s, sct, key, val, type) = t
  BY <1>3 DEF Set
<1>5. DOMAIN t = DOMAIN s \union {k} /\ t[k] = v /\ \A j \in DOMAIN s : j # k => t[j] = s[j]
  OBVIOUS
<1>6. v \in SettingEntries /\ v.type = KeyType(k[2]) /\ v.value \in ValuesOf(KeyType(k[2]))
  BY <1>1 DEF SettingEntries
<1>7. t = [j \in DOMAIN t |-> t[j]]
  OBVIOUS
<1>8. k \in Keys
  OBVIOUS
<1> HIDE DEF t, v, k
<1>9. WellSet(t)
  BY <1>5, <1>6, <1>7, <1>8 DEF WellSet
<1> QED BY <1>4, <1>5, <1>9 DEF k, v, IsSet

(* A getter finds what is set, if it asks for the type of its key.         *)
LEMMA GetIs ==
  ASSUME NEW s, WellSet(s), NEW sct, NEW key, <<sct, key>> \in DOMAIN s
  PROVE  /\ Get(s, sct, key, KeyType(key)) = s[<<sct, key>>].value
         /\ Get(s, sct, key, KeyType(key)) \in ValuesOf(KeyType(key))
         /\ Get(s, sct, key, KeyType(key)) # Null
<1> DEFINE k == <<sct, key>>
<1>1. k \in Keys /\ k[2] = key
  BY DEF WellSet
<1>2. s[k].type = KeyType(key) /\ s[k].value \in ValuesOf(KeyType(key))
  BY <1>1 DEF WellSet
<1>3. Get(s, sct, key, KeyType(key)) = s[k].value
  BY <1>2 DEF Get
<1>4. Null \notin Texts \union Nat
  BY SettingsAssumption DEF Texts
<1>5. ValuesOf(KeyType(key)) \subseteq Texts \union Nat
  BY <1>1, KeyFacts
<1> QED BY <1>2, <1>3, <1>4, <1>5

-----------------------------------------------------------------------------
(* Numbers and sizes                                                       *)

LEMMA DigitsAre ==
  /\ ToSet(Digits) = {"0", "1", "2", "3", "4", "5", "6", "7", "8", "9"}
  /\ DOMAIN DigitValues = {"0", "1", "2", "3", "4", "5", "6", "7", "8", "9"}
  /\ \A d \in DOMAIN DigitValues : DigitValues[d] \in 0 .. 9
  /\ DigitValues["1"] = 1 /\ DigitValues["2"] = 2
<1>1. DOMAIN Digits = 1 .. 10
  BY DEF Digits
<1>2. ToSet(Digits) = {"0", "1", "2", "3", "4", "5", "6", "7", "8", "9"}
  <2>1. ToSet(Digits) = {Digits[i] : i \in 1 .. 10}
    BY <1>1 DEF ToSet
  <2>2. 1 .. 10 = {1, 2, 3, 4, 5, 6, 7, 8, 9, 10}
    OBVIOUS
  <2> QED BY <2>1, <2>2 DEF Digits
<1>3. \A m, n \in 0 .. 9 : Digits[m + 1] = Digits[n + 1] => m = n
  BY DEF Digits
<1>4. ASSUME NEW n \in 0 .. 9 PROVE Digits[n + 1] \in ToSet(Digits) /\ DigitValues[Digits[n + 1]] = n
  <2>1. n + 1 \in DOMAIN Digits
    BY <1>1
  <2>2. Digits[n + 1] \in ToSet(Digits)
    BY <2>1 DEF ToSet
  <2>3. (CHOOSE m \in 0 .. 9 : Digits[m + 1] = Digits[n + 1]) = n
    BY <1>3
  <2> QED BY <2>2, <2>3 DEF DigitValues
<1>5. Digits[1 + 1] = "1" /\ Digits[2 + 1] = "2" /\ 1 \in 0 .. 9 /\ 2 \in 0 .. 9
  BY DEF Digits
<1>6. \A d \in DOMAIN DigitValues : DigitValues[d] \in 0 .. 9
  <2> SUFFICES ASSUME NEW d \in ToSet(Digits) PROVE DigitValues[d] \in 0 .. 9
    BY DEF DigitValues
  <2>1. PICK i \in 1 .. 10 : d = Digits[i]
    BY <1>1 DEF ToSet
  <2>2. i - 1 \in 0 .. 9 /\ d = Digits[(i - 1) + 1]
    BY <2>1
  <2> QED BY <1>4, <2>2
<1> QED BY <1>2, <1>4, <1>5, <1>6 DEF DigitValues

(* A text begins with some characters of a set, then with another one.     *)
LEMMA LeadingIs ==
  ASSUME NEW t, Len(t) \in Nat, NEW C
  PROVE  /\ Leading(t, C) \in 0 .. Len(t)
         /\ \A i \in 1 .. Leading(t, C) : t[i] \in C
         /\ Leading(t, C) < Len(t) => t[Leading(t, C) + 1] \notin C
<1> DEFINE Is(n) == (\A i \in 1 .. n : t[i] \in C) /\ (n < Len(t) => t[n + 1] \notin C)
           T == {n \in 0 .. Len(t) : n < Len(t) => t[n + 1] \notin C}
<1>1. Leading(t, C) = CHOOSE n \in 0 .. Len(t) : Is(n)
  BY DEF Leading
<1>2. \E n \in 0 .. Len(t) : Is(n)
  <2>1. T \in SUBSET Nat /\ Len(t) \in T
    OBVIOUS
  <2>2. PICK n \in T : \A m \in T : n <= m
    <3> HIDE DEF T
    <3>1. T # {}
      BY <2>1
    <3> QED BY <2>1, <3>1, NatMinimum
  <2>3. ASSUME NEW i \in 1 .. n PROVE t[i] \in C
    <3>1. i - 1 \in 0 .. Len(t) /\ ~ (n <= i - 1) /\ i - 1 < Len(t) /\ (i - 1) + 1 = i
      OBVIOUS
    <3>2. i - 1 \notin T
      BY <2>2, <3>1
    <3> QED BY <3>1, <3>2
  <2> QED BY <2>2, <2>3
<1> HIDE DEF Is
<1>3. Leading(t, C) \in 0 .. Len(t) /\ Is(Leading(t, C))
  BY <1>1, <1>2
<1> QED BY <1>3 DEF Is

(* A text begins with some digits.                                         *)
LEMMA DigitCountIs ==
  ASSUME NEW t, Len(t) \in Nat
  PROVE  /\ DigitCount(t) \in 0 .. Len(t)
         /\ \A i \in 1 .. DigitCount(t) : t[i] \in DOMAIN DigitValues
         /\ DigitCount(t) < Len(t) => t[DigitCount(t) + 1] \notin DOMAIN DigitValues
BY LeadingIs DEF DigitCount

(* A text of exactly n digits first has n.                                 *)
LEMMA DigitCountOnly ==
  ASSUME NEW t, Len(t) \in Nat, NEW n \in 0 .. Len(t), \A i \in 1 .. n : t[i] \in DOMAIN DigitValues,
         n < Len(t) => t[n + 1] \notin DOMAIN DigitValues
  PROVE  DigitCount(t) = n
<1> DEFINE m == DigitCount(t)
<1>1. /\ m \in 0 .. Len(t) /\ \A i \in 1 .. m : t[i] \in DOMAIN DigitValues
      /\ m < Len(t) => t[m + 1] \notin DOMAIN DigitValues
  BY DigitCountIs
<1> HIDE DEF m
<1>2. ~ m < n
  <2> SUFFICES ASSUME m < n PROVE FALSE
    OBVIOUS
  <2>1. m + 1 \in 1 .. n /\ m < Len(t)
    BY <1>1
  <2> QED BY <1>1, <2>1
<1>3. ~ n < m
  <2> SUFFICES ASSUME n < m PROVE FALSE
    OBVIOUS
  <2>1. n + 1 \in 1 .. m /\ n < Len(t)
    BY <1>1
  <2> QED BY <1>1, <2>1
<1> QED BY <1>1, <1>2, <1>3 DEF m

(* The number a text begins with: g has it digit by digit.                 *)
Counts(g, t, n) == g = [k \in 0 .. n |-> IF k = 0 THEN 0 ELSE 10 * g[k - 1] + DigitValues[t[k]]]

LEMMA NumberSteps ==
  ASSUME NEW t, Len(t) \in Nat
  PROVE  \E g \in [0 .. DigitCount(t) -> Nat] :
           /\ Number(t) = g[DigitCount(t)] /\ g[0] = 0
           /\ \A k \in 1 .. DigitCount(t) : g[k] = 10 * g[k - 1] + DigitValues[t[k]]
<1> DEFINE n == DigitCount(t)
<1>1. n \in Nat /\ \A k \in 1 .. n : DigitValues[t[k]] \in Nat
  <2>1. n \in 0 .. Len(t) /\ \A k \in 1 .. n : t[k] \in DOMAIN DigitValues
    BY DigitCountIs
  <2> QED BY <2>1, DigitsAre
<1> DEFINE step == [k \in 1 .. n |-> [x \in Nat |-> 10 * x + DigitValues[t[k]]]]
           K(g) == Counts(g, t, n)
           number == CHOOSE g : K(g)
<1>2. Number(t) = number[n]
  BY DEF Number, Counts
<1> HIDE DEF n
<1>3. step \in [1 .. n -> [Nat -> Nat]]
  BY <1>1
<1>4. PICK f \in [0 .. n -> Nat] : Recurs(f, n, 0, step)
  <2> HIDE DEF step
  <2> QED BY <1>1, <1>3, RecursionExists
<1>5. f[0] = 0 /\ \A k \in 1 .. n : f[k] = 10 * f[k - 1] + DigitValues[t[k]]
  <2>1. ASSUME NEW k \in 1 .. n PROVE f[k] = 10 * f[k - 1] + DigitValues[t[k]]
    <3>1. k - 1 \in 0 .. n
      BY <1>1
    <3>2. f[k - 1] \in Nat /\ f[k] = step[k][f[k - 1]]
      BY <1>4, <3>1 DEF Recurs
    <3> QED BY <3>2
  <2> QED BY <1>4, <2>1 DEF Recurs
<1>6. K(f)
  <2>1. f = [k \in 0 .. n |-> f[k]]
    OBVIOUS
  <2>2. \A k \in 0 .. n : k = 0 \/ k \in 1 .. n
    BY <1>1
  <2> QED BY <1>5, <2>1, <2>2 DEF Counts
<1>7. K(number)
  <2> HIDE DEF K
  <2> QED BY <1>6
<1> HIDE DEF number
<1>8. ASSUME NEW k \in 0 .. n PROVE number[k] = IF k = 0 THEN 0 ELSE 10 * number[k - 1] + DigitValues[t[k]]
  <2> DEFINE h == [j \in 0 .. n |-> IF j = 0 THEN 0 ELSE 10 * number[j - 1] + DigitValues[t[j]]]
  <2>1. h[k] = IF k = 0 THEN 0 ELSE 10 * number[k - 1] + DigitValues[t[k]]
    OBVIOUS
  <2>2. number = h
    BY <1>7 DEF Counts
  <2> HIDE DEF h
  <2> QED BY <2>1, <2>2
<1> DEFINE P == {k \in Nat : number[k] = f[k]}
<1>9. 0 \in P
  BY <1>1, <1>5, <1>8
<1>10. ASSUME NEW k \in 0 .. n - 1, k \in P PROVE k + 1 \in P
  <2>1. k + 1 \in 0 .. n /\ k + 1 \in 1 .. n /\ k + 1 # 0 /\ (k + 1) - 1 = k
    BY <1>1
  <2> QED BY <1>5, <1>8, <1>10, <2>1
<1>11. n \in P
  <2> HIDE DEF P
  <2>1. \A k \in 0 .. n : k \in P
    BY <1>1, <1>9, <1>10, UptoInduction
  <2> QED BY <1>1, <2>1
<1> QED BY <1>2, <1>5, <1>11 DEF n

(* The digits a text begins with are a number.                             *)
LEMMA NumberIsNat ==
  ASSUME NEW t, Len(t) \in Nat
  PROVE  Number(t) \in Nat
<1>1. PICK g \in [0 .. DigitCount(t) -> Nat] : Number(t) = g[DigitCount(t)]
  BY NumberSteps
<1>2. DigitCount(t) \in 0 .. DigitCount(t)
  BY DigitCountIs
<1> QED BY <1>1, <1>2

-----------------------------------------------------------------------------
(* Sizes                                                                   *)

(* A remainder of what is less than the divisor is that.                   *)
LEMMA SmallRemainder ==
  ASSUME NEW m \in Nat \ {0}, NEW n \in 0 .. m - 1
  PROVE  n % m = n
<1> DEFINE r == n % m
<1>1. r \in 0 .. m - 1 /\ \E q \in Int : n = m * q + r
  <2>1. n \in Int
    OBVIOUS
  <2>2. n % m \in 0 .. m - 1 /\ \E q \in Int : n = m * q + (n % m)
    BY <2>1, Division
  <2> QED BY <2>2
<1> HIDE DEF r
<1>2. PICK q \in Int : n = m * q + r
  BY <1>1
<1>3. m * 0 + n = m * q + r
  BY <1>2
<1>4. n = r
  BY <1>1, <1>3, OneRemainder
<1> QED BY <1>4 DEF r

LEMMA UnitsAre ==
  /\ Kilo \in Nat /\ Kilo >= 2 /\ Mega \in Nat /\ Mega >= 2 /\ Giga \in Nat /\ Giga >= 2 * Mega
  /\ DOMAIN Units = {"b", "B", "k", "K", "m", "M", "g", "G"}
  /\ \A u \in DOMAIN Units : Units[u] \in Nat
  /\ Units["M"] = Mega
<1>1. Kilo \in Nat /\ Kilo >= 2
  BY SettingsAssumption
<1>2. Mega \in Nat /\ Mega >= 2
  <2>1. \A k, l \in Nat : k >= 2 /\ l >= 2 => k * l \in Nat /\ k * l >= 2 * l
    OBVIOUS
  <2> QED BY <1>1, <2>1 DEF Mega
<1>3. Giga \in Nat /\ Giga >= 2 * Mega
  <2>1. \A k, l \in Nat : k >= 2 /\ l >= 2 => k * l \in Nat /\ k * l >= 2 * l
    OBVIOUS
  <2> QED BY <1>1, <1>2, <2>1 DEF Giga
<1>4. /\ DOMAIN Units = {"b", "B", "k", "K", "m", "M", "g", "G"}
      /\ \A u \in DOMAIN Units : Units[u] \in {1, Kilo, Mega, Giga}
      /\ Units["M"] = Mega
  BY DEF Units
<1> QED BY <1>1, <1>2, <1>3, <1>4

(* strtoull returns a number for every text.                               *)
LEMMA StrtoullIsNat ==
  ASSUME NEW t \in Texts
  PROVE  Strtoull(t) \in Nat
<1> DEFINE rest == SubSeq(t, Leading(t, {" "}) + 1, Len(t))
           signed == rest # << >> /\ rest[1] \in {"+", "-"}
           digits == IF signed THEN Tail(rest) ELSE rest
           n == Number(digits)
           m == UInt64
<1>1. rest \in Seq(Characters)
  <2> DEFINE k == Leading(t, {" "})
             len == Len(t)
  <2>1. t \in Seq(Characters) /\ len \in Nat
    BY LenProperties DEF Texts
  <2>2. k \in 0 .. len
    BY <2>1, LeadingIs
  <2> HIDE DEF k
  <2>3. k + 1 \in 1 .. len + 1 /\ len \in (k + 1) - 1 .. len
    BY <2>1, <2>2
  <2>4. SubSeq(t, k + 1, len) \in Seq(Characters)
    BY <2>1, <2>3, SubSeqProperties
  <2> QED BY <2>4 DEF k
<1> HIDE DEF rest
<1>2. digits \in Seq(Characters)
  BY <1>1, HeadTailProperties
<1>3. n \in Nat
  <2> HIDE DEF digits
  <2>1. Len(digits) \in Nat
    BY <1>2, LenProperties
  <2> QED BY <2>1, NumberIsNat
<1>4. m \in Nat \ {0}
  <2>1. 4 * Giga \in Nat \ {0}
    BY UnitsAre
  <2>2. \A k, l \in Nat \ {0} : k * l \in Nat \ {0}
    OBVIOUS
  <2> QED BY <2>1, <2>2 DEF UInt64
<1>5. Strtoull(t) = IF n >= m THEN m - 1 ELSE IF signed /\ rest[1] = "-" THEN (m - n) % m ELSE n
  BY DEF Strtoull, rest
<1> HIDE DEF n, m, signed
<1>6. (m - n) % m \in 0 .. m - 1
  <2>1. m - n \in Int
    BY <1>3, <1>4
  <2> QED BY <1>4, <2>1, Division
<1> QED BY <1>3, <1>4, <1>5, <1>6

(* A byte size is a number, whatever it is written as.                     *)
LEMMA ByteSizeIsNat ==
  ASSUME NEW t, Len(t) \in Nat
  PROVE  ByteSize(t) \in Nat
<1> DEFINE suffix == SubSeq(t, DigitCount(t) + 1, Len(t))
           valid == /\ Len(suffix) < 3 /\ suffix[1] \in DOMAIN Units
                    /\ Len(suffix) = 2 => Units[suffix[1]] > 1 /\ suffix[2] \in {"b", "B"}
           n == Number(t)
           m == 4 * Giga
           x == Units[suffix[1]]
<1>1. m \in Nat \ {0} /\ \A u \in DOMAIN Units : Units[u] \in Nat
  BY UnitsAre
<1>2. n \in Nat
  BY NumberIsNat
<1>3. \/ ByteSize(t) = 0 \/ ByteSize(t) = n % m
      \/ valid /\ ByteSize(t) = (n * x) % m
  BY DEF ByteSize
<1>4. valid => x \in Nat
  <2> HIDE DEF suffix
  <2> QED BY <1>1
<1> HIDE DEF valid, n, m, x
<1>5. \A k \in Int : k % m \in Nat
  <2> SUFFICES ASSUME NEW k \in Int PROVE k % m \in Nat
    OBVIOUS
  <2>1. k % m \in 0 .. m - 1
    BY <1>1, Division
  <2> QED BY <1>1, <2>1
<1>6. \A k, l \in Nat : k * l \in Int /\ k \in Int
  OBVIOUS
<1> QED BY <1>2, <1>3, <1>4, <1>5, <1>6

(* A few megabytes are a size.                                             *)
LEMMA Megabytes ==
  ASSUME NEW d, d \in {"1", "2"}
  PROVE  ByteSize(<<d, "M">>) # 0
<1> DEFINE t == <<d, "M">>
           suffix == SubSeq(t, 2, 2)
<1>1. Len(t) = 2 /\ t[1] = d /\ t[2] = "M"
  OBVIOUS
<1>2. DigitCount(t) = 1
  <2>1. d \in DOMAIN DigitValues /\ "M" \notin DOMAIN DigitValues
    BY DigitsAre
  <2>2. 1 \in 0 .. Len(t) /\ (\A i \in 1 .. 1 : t[i] \in DOMAIN DigitValues) /\ t[1 + 1] \notin DOMAIN DigitValues
    BY <1>1, <2>1
  <2> HIDE DEF t
  <2>3. Len(t) \in Nat
    BY <1>1
  <2> QED BY <2>2, <2>3, DigitCountOnly
<1>3. Number(t) \in 1 .. 2
  <2>1. DigitValues[d] \in 1 .. 2
    BY DigitsAre
  <2> HIDE DEF t
  <2>2. PICK g \in [0 .. DigitCount(t) -> Nat] :
          /\ Number(t) = g[DigitCount(t)] /\ g[0] = 0
          /\ \A k \in 1 .. DigitCount(t) : g[k] = 10 * g[k - 1] + DigitValues[t[k]]
    BY <1>1, NumberSteps
  <2>3. g[1] = 10 * g[1 - 1] + DigitValues[t[1]]
    BY <1>2, <2>2
  <2>4. 1 - 1 = 0 /\ g[0] = 0
    BY <2>2
  <2> QED BY <1>1, <1>2, <2>1, <2>2, <2>3, <2>4
<1>4. suffix # << >> /\ Len(suffix) = 1 /\ suffix[1] = "M"
  OBVIOUS
<1>5. SubSeq(t, DigitCount(t) + 1, Len(t)) = suffix
  BY <1>1, <1>2
<1> HIDE DEF t, suffix
<1>6. "M" \in DOMAIN Units /\ Units["M"] = Mega
  BY UnitsAre
<1>7. ByteSize(t) = (Number(t) * Mega) % (4 * Giga)
  <2> DEFINE k == DigitCount(t)
             u == SubSeq(t, k + 1, Len(t))
  <2>1. k # 0 /\ u # << >> /\ Len(u) < 3 /\ Len(u) # 2 /\ u[1] \in DOMAIN Units /\ Units[u[1]] = Mega
    <3>1. u = suffix /\ k = 1
      BY <1>2, <1>5
    <3> HIDE DEF u, k
    <3> QED BY <1>4, <1>6, <3>1
  <2>2. ByteSize(t) = IF k = 0 THEN 0 ELSE IF u = << >> THEN Number(t) % (4 * Giga)
                      ELSE IF ~ (Len(u) < 3 /\ u[1] \in DOMAIN Units
                                   /\ (Len(u) = 2 => Units[u[1]] > 1 /\ u[2] \in {"b", "B"})) THEN 0
                      ELSE (Number(t) * Units[u[1]]) % (4 * Giga)
    BY DEF ByteSize
  <2> HIDE DEF k, u
  <2> QED BY <2>1, <2>2
<1>8. 4 * Giga \in Nat \ {0} /\ Number(t) * Mega \in 0 .. (4 * Giga) - 1 /\ Number(t) * Mega # 0
  <2>1. Mega \in Nat /\ Mega >= 2 /\ Giga \in Nat /\ Giga >= 2 * Mega
    BY UnitsAre
  <2>2. Number(t) = 1 \/ Number(t) = 2
    BY <1>3
  <2>3. 1 * Mega = Mega /\ 2 * Mega \in Nat
    BY <2>1
  <2> QED BY <2>1, <2>2, <2>3
<1>9. ByteSize(t) = Number(t) * Mega
  <2> DEFINE m == 4 * Giga
             n == Number(t) * Mega
  <2>1. m \in Nat \ {0} /\ n \in 0 .. m - 1 /\ ByteSize(t) = n % m
    BY <1>7, <1>8
  <2> HIDE DEF m, n
  <2>2. ByteSize(t) = n
    BY <2>1, SmallRemainder
  <2> QED BY <2>2 DEF n
<1> QED BY <1>8, <1>9 DEF t

-----------------------------------------------------------------------------
(* Names of directories                                                    *)

(* The last value of it is what is gathered.                               *)
LEMMA GatheredIs ==
  ASSUME NEW s, NEW keep, Len(s) \in Nat
  PROVE  \E f : Keeps(f, s, keep, Len(s)) /\ Gathered(s, keep) = f[Len(s)]
<1> DEFINE n == Len(s)
           K(f) == Keeps(f, s, keep, n)
           kept == CHOOSE f : K(f)
<1>1. Gathered(s, keep) = kept[n]
  BY DEF Gathered, Keeps
<1>2. \E f : K(f)
  BY KeepsExist
<1> HIDE DEF K
<1>3. K(kept)
  BY <1>2
<1> HIDE DEF kept
<1> QED BY <1>1, <1>3 DEF K

(* What is left of a name has no two separators that follow each other,    *)
(* and ends with its last character.                                       *)
LEMMA SingleSeparators ==
  ASSUME NEW t \in Texts
  PROVE  /\ RemoveDuplicateDirSeps(t) \in Texts /\ NoDoubles(RemoveDuplicateDirSeps(t))
         /\ t # << >> => RemoveDuplicateDirSeps(t) # << >>
<1> DEFINE n == Len(t)
           keep == {k \in DOMAIN t : k > 1 /\ t[k] = Sep => t[k - 1] # Sep}
<1>1. n \in Nat /\ DOMAIN t = 1 .. n /\ \A k \in 1 .. n : t[k] \in Characters
  BY LenProperties, ElementOfSeq DEF Texts
<1>2. RemoveDuplicateDirSeps(t) = Gathered(t, keep)
  BY DEF RemoveDuplicateDirSeps
<1>3. \A k \in 1 .. n : k \notin keep => k > 1 /\ t[k] = Sep /\ t[k - 1] = Sep
  BY <1>1
<1>4. \A k \in 1 .. n : k \in keep /\ k > 1 /\ t[k] = Sep => t[k - 1] # Sep
  OBVIOUS
<1> HIDE DEF keep
<1>5. PICK f : Keeps(f, t, keep, Len(t)) /\ Gathered(t, keep) = f[Len(t)]
  BY <1>1, GatheredIs
<1> DEFINE Single(s) == s \in Texts /\ NoDoubles(s)
           P == {k \in Nat : /\ Single(f[k]) /\ (k # 0 => f[k] # << >> /\ f[k][Len(f[k])] = t[k])}
<1> HIDE DEF n
<1>6. 0 \in P
  <2>1. f[0] = << >>
    BY <1>1, <1>5, KeepsAt DEF n
  <2>2. << >> \in Texts /\ NoDoubles(<< >>)
    BY EmptySeq DEF Texts, NoDoubles
  <2> QED BY <2>1, <2>2
<1>7. ASSUME NEW k \in 0 .. n - 1, k \in P PROVE k + 1 \in P
  <2>1. k + 1 \in 0 .. n /\ k + 1 \in 1 .. n /\ k + 1 # 0 /\ (k + 1) - 1 = k /\ k \in Nat
    BY <1>1
  <2>2. f[k + 1] = IF k + 1 \in keep THEN Append(f[k], t[k + 1]) ELSE f[k]
    BY <1>5, <2>1, KeepsAt DEF n
  <2>3. f[k] \in Texts /\ NoDoubles(f[k]) /\ (k # 0 => f[k] # << >> /\ f[k][Len(f[k])] = t[k])
    BY <1>7
  <2>4. t[k + 1] \in Characters
    BY <1>1, <2>1
  <2>5. CASE k + 1 \in keep
    <3> DEFINE s == f[k]
               e == t[k + 1]
               a == Append(s, e)
    <3>1. f[k + 1] = a
      BY <2>2, <2>5
    <3>2. e = Sep /\ k # 0 => t[k] # Sep
      <4>1. k # 0 => k + 1 > 1
        BY <2>1
      <4> QED BY <1>4, <2>1, <2>5, <4>1
    <3>3. s \in Texts /\ NoDoubles(s) /\ e \in Characters /\ (k # 0 => s # << >> /\ s[Len(s)] = t[k])
      BY <2>3, <2>4
    <3>4. k = 0 => s = << >>
      BY <1>1, <1>5, KeepsAt DEF n
    <3> HIDE DEF s, e
    <3>5. Len(s) \in Nat /\ (s = << >> => Len(s) = 0)
      BY <3>3, LenProperties DEF Texts
    <3>6. /\ a \in Texts /\ Len(a) = Len(s) + 1 /\ a[Len(s) + 1] = e
          /\ \A i \in 1 .. Len(s) : a[i] = s[i]
      BY <3>3, AppendProperties DEF Texts
    <3> HIDE DEF a
    <3>7. a # << >> /\ a[Len(a)] = e
      <4>1. Len(a) # 0
        BY <3>5, <3>6
      <4> QED BY <3>6, <4>1
    <3>8. NoDoubles(a)
      <4> SUFFICES ASSUME NEW i \in 2 .. Len(a), a[i] = Sep PROVE a[i - 1] # Sep
        BY DEF NoDoubles
      <4>1. CASE i \in 1 .. Len(s)
        <5>1. i \in 2 .. Len(s) /\ i - 1 \in 1 .. Len(s)
          BY <3>5, <4>1
        <5> QED BY <3>3, <3>6, <4>1, <5>1 DEF NoDoubles
      <4>2. CASE i \notin 1 .. Len(s)
        <5>1. i = Len(s) + 1 /\ Len(s) >= 1 /\ i - 1 = Len(s) /\ Len(s) \in 1 .. Len(s)
          BY <3>5, <3>6, <4>2
        <5>2. k # 0
          BY <3>4, <3>5, <5>1
        <5>3. a[i - 1] = t[k] /\ e = Sep
          BY <3>3, <3>6, <5>1, <5>2
        <5> QED BY <3>2, <5>2, <5>3
      <4> QED BY <4>1, <4>2
    <3> QED BY <2>1, <3>1, <3>6, <3>7, <3>8 DEF e
  <2>6. CASE k + 1 \notin keep
    <3>1. k # 0 /\ t[k + 1] = Sep /\ t[k] = Sep
      BY <1>3, <2>1, <2>6
    <3>2. f[k + 1] = f[k]
      BY <2>2, <2>6
    <3>3. Single(f[k + 1]) /\ f[k + 1] # << >> /\ f[k + 1][Len(f[k + 1])] = t[k + 1]
      BY <2>3, <3>1, <3>2
    <3> QED BY <2>1, <3>3
  <2> QED BY <2>5, <2>6
<1>8. n \in P
  <2> HIDE DEF P
  <2>1. \A k \in 0 .. n : k \in P
    BY <1>1, <1>6, <1>7, UptoInduction DEF n
  <2>2. n \in 0 .. n
    BY <1>1
  <2> QED BY <2>1, <2>2
<1>9. t # << >> => n # 0
  BY EmptySeq DEF n, Texts
<1> QED BY <1>2, <1>5, <1>8, <1>9 DEF n

LEMMA CharactersAre ==
  /\ Sep \in Characters /\ {"file", "yella.stethoscope", "1", "2", "M", "etc", "yella.yaml", "var", "lib", "spool",
                             "yella", "plugin", "bin"} \subseteq Characters
  /\ Prefix \in Texts
BY AgentAssumption DEF Texts

(* yella_settings_set_dir makes a directory's text of every one.           *)
LEMMA DirTextIs ==
  ASSUME NEW t \in Texts
  PROVE  DirText(t) \in DirTexts /\ (t # << >> => DirText(t) # << >>)
<1> DEFINE s == RemoveDuplicateDirSeps(t)
           a == Append(s, Sep)
<1>1. s \in Texts /\ NoDoubles(s) /\ (t # << >> => s # << >>)
  BY SingleSeparators
<1> HIDE DEF s
<1>2. Len(s) \in Nat
  BY <1>1, LenProperties DEF Texts
<1>3. CASE s = << >> \/ s[Len(s)] = Sep
  <2>1. DirText(t) = s
    BY <1>3 DEF DirText, s, Last
  <2> QED BY <1>1, <1>3, <2>1 DEF DirTexts
<1>4. CASE s # << >> /\ s[Len(s)] # Sep
  <2>1. DirText(t) = a
    BY <1>4 DEF DirText, s, Last
  <2>2. /\ a \in Texts /\ Len(a) = Len(s) + 1 /\ a[Len(s) + 1] = Sep
        /\ \A i \in 1 .. Len(s) : a[i] = s[i]
    BY <1>1, CharactersAre, AppendProperties DEF Texts
  <2> HIDE DEF a
  <2>3. NoDoubles(a)
    <3> SUFFICES ASSUME NEW i \in 2 .. Len(a), a[i] = Sep PROVE a[i - 1] # Sep
      BY DEF NoDoubles
    <3>1. CASE i \in 1 .. Len(s)
      <4>1. i \in 2 .. Len(s) /\ i - 1 \in 1 .. Len(s)
        BY <1>2, <3>1
      <4> QED BY <1>1, <2>2, <3>1, <4>1 DEF NoDoubles
    <3>2. CASE i \notin 1 .. Len(s)
      <4>1. i - 1 = Len(s) /\ Len(s) \in 1 .. Len(s)
        BY <1>2, <2>2, <3>2
      <4> QED BY <1>4, <2>2, <4>1
    <3> QED BY <3>1, <3>2
  <2>4. Len(a) # 0
    BY <1>2, <2>2
  <2>5. a # << >>
    BY <2>4
  <2> QED BY <2>1, <2>2, <2>3, <2>5 DEF DirTexts
<1> QED BY <1>3, <1>4

-----------------------------------------------------------------------------
(* What is read is set                                                     *)

(* What is described may be set: with the type it has, or, for a size,     *)
(* with another one when it is there.                                      *)
MaySet(s, sct, d) ==
  /\ <<sct, d.key>> \in Keys
  /\ \/ d.type = KeyType(d.key)
     \/ d.type = "uint" /\ KeyType(d.key) = "byte_size" /\ <<sct, d.key>> \in DOMAIN s

(* u has the settings s has, and those of other sections unchanged.        *)
Extends(u, s, sct) ==
  DOMAIN s \subseteq DOMAIN u /\ \A k \in DOMAIN s : k[1] # sct => u[k] = s[k]

LEMMA ExtendsFurther ==
  ASSUME NEW s, NEW u, NEW v, NEW sct, Extends(u, s, sct), Extends(v, u, sct)
  PROVE  Extends(v, s, sct)
BY DEF Extends

LEMMA SetExtends ==
  ASSUME NEW s, WellSet(s), NEW sct, NEW key, <<sct, key>> \in Keys,
         NEW val \in ValuesOf(KeyType(key)), NEW type, type = KeyType(key) \/ <<sct, key>> \in DOMAIN s
  PROVE  WellSet(Set(s, sct, key, val, type)) /\ Extends(Set(s, sct, key, val, type), s, sct)
<1> DEFINE u == Set(s, sct, key, val, type)
<1>1. /\ WellSet(u) /\ DOMAIN u = DOMAIN s \union {<<sct, key>>}
      /\ \A k \in DOMAIN s : k # <<sct, key>> => u[k] = s[k]
  <2> HIDE DEF u
  <2>1. IsSet(Set(s, sct, key, val, type), s, sct, key, val)
    BY SetIs
  <2>2. IsSet(u, s, sct, key, val)
    BY <2>1 DEF u
  <2> QED BY <2>2 DEF IsSet
<1> HIDE DEF u
<1>2. <<sct, key>>[1] = sct
  OBVIOUS
<1>3. \A k \in DOMAIN s : k[1] # sct => u[k] = s[k]
  BY <1>1, <1>2
<1>4. Extends(u, s, sct)
  BY <1>1, <1>3 DEF Extends
<1> QED BY <1>1, <1>4 DEF u

LEMMA SetScalarIs ==
  ASSUME NEW s, WellSet(s), NEW sct, NEW d, MaySet(s, sct, d), NEW t \in Texts
  PROVE  WellSet(SetScalar(s, sct, d, t)) /\ Extends(SetScalar(s, sct, d, t), s, sct)
<1> DEFINE k == <<sct, d.key>>
           type == KeyType(d.key)
<1>1. k \in Keys /\ k[1] = sct /\ Len(t) \in Nat
  BY LenProperties DEF MaySet, Texts
<1>2. ASSUME NEW val \in ValuesOf(type), NEW ty, ty = type \/ k \in DOMAIN s
      PROVE  WellSet(Set(s, sct, d.key, val, ty)) /\ Extends(Set(s, sct, d.key, val, ty), s, sct)
  <2>1. <<sct, d.key>> \in Keys /\ val \in ValuesOf(KeyType(d.key))
    BY <1>1, <1>2
  <2>2. ty = KeyType(d.key) \/ <<sct, d.key>> \in DOMAIN s
    BY <1>2
  <2> HIDE DEF type, k
  <2> QED BY <2>1, <2>2, SetExtends
<1>3. WellSet(s) /\ Extends(s, s, sct)
  BY DEF Extends
<1>4. \/ d.type = type
      \/ d.type = "uint" /\ type = "byte_size" /\ k \in DOMAIN s
  BY DEF MaySet
<1>5. type \in {"byte_size", "dir", "text", "uint"}
  BY DEF KeyType
<1>6. ByteSize(t) \in Nat /\ Strtoull(t) \in Nat /\ DirText(t) \in DirTexts
  BY <1>1, ByteSizeIsNat, StrtoullIsNat, DirTextIs
<1>7. CASE d.type = "byte_size"
  <2>1. type = "byte_size" /\ ByteSize(t) \in ValuesOf(type)
    BY <1>4, <1>6, <1>7 DEF ValuesOf
  <2>2. SetScalar(s, sct, d, t) = IF ByteSize(t) = 0 THEN s ELSE Set(s, sct, d.key, ByteSize(t), "byte_size")
    BY <1>7 DEF SetScalar, SetByteSize
  <2>3. /\ WellSet(Set(s, sct, d.key, ByteSize(t), "byte_size"))
        /\ Extends(Set(s, sct, d.key, ByteSize(t), "byte_size"), s, sct)
    BY <1>2, <2>1
  <2> QED BY <1>3, <2>2, <2>3
<1>8. CASE d.type = "dir"
  <2>1. type = "dir" /\ DirText(t) \in ValuesOf(type)
    BY <1>4, <1>6, <1>8 DEF ValuesOf
  <2>2. SetScalar(s, sct, d, t) = Set(s, sct, d.key, DirText(t), "dir")
    BY <1>8 DEF SetScalar, SetDir
  <2> QED BY <1>2, <2>1, <2>2
<1>9. CASE d.type = "text"
  <2>1. type = "text" /\ t \in ValuesOf(type)
    BY <1>4, <1>9 DEF ValuesOf
  <2>2. SetScalar(s, sct, d, t) = Set(s, sct, d.key, t, "text")
    BY <1>9 DEF SetScalar, SetText
  <2> QED BY <1>2, <2>1, <2>2
<1>10. CASE d.type = "uint"
  <2>1. Strtoull(t) \in ValuesOf(type) /\ (type = "uint" \/ k \in DOMAIN s)
    BY <1>4, <1>6, <1>10 DEF ValuesOf
  <2>2. SetScalar(s, sct, d, t) = Set(s, sct, d.key, Strtoull(t), "uint")
    BY <1>10 DEF SetScalar, SetUint
  <2> QED BY <1>2, <2>1, <2>2
<1> QED BY <1>4, <1>5, <1>7, <1>8, <1>9, <1>10

SettingMaps == UNION {[D -> SettingEntries] : D \in SUBSET Keys}

LEMMA WellSetIsMap ==
  ASSUME NEW s, WellSet(s)
  PROVE  s \in SettingMaps
<1>1. s \in [DOMAIN s -> SettingEntries] /\ DOMAIN s \in SUBSET Keys
  BY DEF WellSet
<1> QED BY <1>1 DEF SettingMaps

(* What is read, one after another.                                        *)
Readings(descs) == [desc : descs, text : Texts]

Sets(g, s, sct, reads, n) ==
  g = [k \in 0 .. n |-> IF k = 0 THEN s ELSE SetScalar(g[k - 1], sct, reads[k].desc, reads[k].text)]

(* Each step sets what may be set.                                         *)
SetSteps(g, s, sct, descs, reads, n) ==
  /\ g[0] = s
  /\ \A k \in 0 .. n : WellSet(g[k]) /\ Extends(g[k], s, sct)
  /\ \A k \in 1 .. n :
       /\ reads[k].desc \in descs /\ reads[k].text \in Texts
       /\ MaySet(g[k - 1], sct, reads[k].desc)
       /\ g[k] = SetScalar(g[k - 1], sct, reads[k].desc, reads[k].text)

LEMMA ReadingsAreSet ==
  ASSUME NEW s, WellSet(s), NEW sct, NEW descs, \A d \in descs : MaySet(s, sct, d),
         NEW reads \in Seq(Readings(descs)), NEW g, Sets(g, s, sct, reads, Len(reads))
  PROVE  Len(reads) \in Nat /\ SetSteps(g, s, sct, descs, reads, Len(reads))
<1> DEFINE n == Len(reads)
           P == {k \in Nat : WellSet(g[k]) /\ Extends(g[k], s, sct)}
<1>1. n \in Nat /\ \A k \in 1 .. n : reads[k].desc \in descs /\ reads[k].text \in Texts
  <2>1. n \in Nat /\ \A k \in 1 .. n : reads[k] \in Readings(descs)
    BY LenProperties, ElementOfSeq
  <2> QED BY <2>1 DEF Readings
<1>2. \A k \in 0 .. n : g[k] = IF k = 0 THEN s ELSE SetScalar(g[k - 1], sct, reads[k].desc, reads[k].text)
  <2> DEFINE h == [k \in 0 .. n |-> IF k = 0 THEN s ELSE SetScalar(g[k - 1], sct, reads[k].desc, reads[k].text)]
  <2>1. \A k \in 0 .. n : h[k] = IF k = 0 THEN s ELSE SetScalar(g[k - 1], sct, reads[k].desc, reads[k].text)
    OBVIOUS
  <2>2. g = h
    BY DEF Sets
  <2> HIDE DEF h
  <2> QED BY <2>1, <2>2
<1> HIDE DEF n
<1>3. 0 \in P
  <2>1. g[0] = s
    BY <1>1, <1>2
  <2> QED BY <2>1 DEF Extends
<1>4. ASSUME NEW k \in 0 .. n - 1, k \in P PROVE k + 1 \in P
  <2>1. k + 1 \in 0 .. n /\ k + 1 \in 1 .. n /\ k + 1 # 0 /\ (k + 1) - 1 = k /\ k + 1 \in Nat
    BY <1>1
  <2> DEFINE u == g[k]
             d == reads[k + 1].desc
             t == reads[k + 1].text
  <2>2. g[k + 1] = SetScalar(u, sct, d, t) /\ d \in descs /\ t \in Texts
    BY <1>1, <1>2, <2>1
  <2>3. WellSet(u) /\ Extends(u, s, sct)
    BY <1>4
  <2> HIDE DEF u, d, t
  <2>4. MaySet(u, sct, d)
    BY <2>2, <2>3 DEF MaySet, Extends
  <2>5. WellSet(SetScalar(u, sct, d, t)) /\ Extends(SetScalar(u, sct, d, t), u, sct)
    BY <2>2, <2>3, <2>4, SetScalarIs
  <2>6. Extends(SetScalar(u, sct, d, t), s, sct)
    BY <2>3, <2>5, ExtendsFurther
  <2> QED BY <2>1, <2>2, <2>5, <2>6
<1>5. \A k \in 0 .. n : k \in P
  <2> HIDE DEF P
  <2> QED BY <1>1, <1>3, <1>4, UptoInduction
<1>6. ASSUME NEW k \in 1 .. n
      PROVE  /\ MaySet(g[k - 1], sct, reads[k].desc)
             /\ g[k] = SetScalar(g[k - 1], sct, reads[k].desc, reads[k].text)
  <2>1. k \in 0 .. n /\ k # 0 /\ k - 1 \in 0 .. n
    BY <1>1
  <2>2. WellSet(g[k - 1]) /\ Extends(g[k - 1], s, sct)
    BY <1>5, <2>1
  <2> QED BY <1>1, <1>2, <2>1, <2>2 DEF MaySet, Extends
<1>7. g[0] = s
  BY <1>1, <1>2
<1>8. \A k \in 0 .. n : WellSet(g[k]) /\ Extends(g[k], s, sct)
  BY <1>5
<1> QED BY <1>1, <1>6, <1>7, <1>8 DEF n, SetSteps

LEMMA SetsExist ==
  ASSUME NEW s, WellSet(s), NEW sct, NEW descs, \A d \in descs : MaySet(s, sct, d),
         NEW reads \in Seq(Readings(descs))
  PROVE  \E g : Sets(g, s, sct, reads, Len(reads))
<1> DEFINE n == Len(reads)
           T == {u \in SettingMaps : WellSet(u) /\ Extends(u, s, sct)}
           step == [k \in 1 .. n |-> [u \in T |-> SetScalar(u, sct, reads[k].desc, reads[k].text)]]
<1>1. n \in Nat /\ \A k \in 1 .. n : reads[k].desc \in descs /\ reads[k].text \in Texts
  <2>1. n \in Nat /\ \A k \in 1 .. n : reads[k] \in Readings(descs)
    BY LenProperties, ElementOfSeq
  <2> QED BY <2>1 DEF Readings
<1> HIDE DEF n
<1>2. ASSUME NEW k \in 1 .. n, NEW u \in T PROVE SetScalar(u, sct, reads[k].desc, reads[k].text) \in T
  <2> DEFINE d == reads[k].desc
             t == reads[k].text
  <2>1. d \in descs /\ t \in Texts /\ WellSet(u) /\ Extends(u, s, sct)
    BY <1>1
  <2> HIDE DEF d, t
  <2>2. MaySet(u, sct, d)
    BY <2>1 DEF MaySet, Extends
  <2> DEFINE v == SetScalar(u, sct, d, t)
  <2>3. WellSet(v) /\ Extends(v, u, sct)
    BY <2>1, <2>2, SetScalarIs
  <2> HIDE DEF v
  <2>4. Extends(v, s, sct) /\ v \in SettingMaps
    BY <2>1, <2>3, ExtendsFurther, WellSetIsMap
  <2> QED BY <2>3, <2>4 DEF v, d, t
<1>3. s \in T /\ step \in [1 .. n -> [T -> T]]
  <2>1. s \in T
    BY WellSetIsMap DEF Extends
  <2>2. \A k \in 1 .. n : [u \in T |-> SetScalar(u, sct, reads[k].desc, reads[k].text)] \in [T -> T]
    <3> HIDE DEF T
    <3> QED BY <1>2
  <2> HIDE DEF T
  <2> QED BY <2>1, <2>2
<1>4. PICK f \in [0 .. n -> T] : Recurs(f, n, s, step)
  <2> HIDE DEF step, T
  <2> QED BY <1>1, <1>3, RecursionExists
<1> HIDE DEF T
<1>5. ASSUME NEW k \in 0 .. n PROVE f[k] = IF k = 0 THEN s ELSE SetScalar(f[k - 1], sct, reads[k].desc, reads[k].text)
  <2>1. CASE k = 0
    BY <1>4, <2>1 DEF Recurs
  <2>2. CASE k # 0
    <3>1. k \in 1 .. n /\ k - 1 \in 0 .. n
      BY <1>1, <2>2
    <3>2. f[k - 1] \in T /\ f[k] = step[k][f[k - 1]]
      BY <1>4, <3>1 DEF Recurs
    <3> QED BY <2>2, <3>1, <3>2
  <2> QED BY <2>1, <2>2
<1>6. f = [k \in 0 .. n |-> f[k]]
  OBVIOUS
<1>7. Sets(f, s, sct, reads, n)
  BY <1>5, <1>6 DEF Sets
<1> QED BY <1>7 DEF n

-----------------------------------------------------------------------------
(* Documents                                                               *)

LEMMA LevelsAre ==
  ASSUME NEW yaml, Len(yaml) \in Nat
  PROVE  \A k \in 0 .. Len(yaml) :
           Levels(yaml)[k] = IF k = 0 THEN {} ELSE {n \in DOMAIN yaml : NodesIn(yaml, n) \subseteq Levels(yaml)[k - 1]}
<1> DEFINE N == Len(yaml)
           Over(b) == {n \in DOMAIN yaml : NodesIn(yaml, n) \subseteq b}
           T == SUBSET DOMAIN yaml
           step == [k \in 1 .. N |-> [b \in T |-> Over(b)]]
           K(g) == g = [k \in 0 .. N |-> IF k = 0 THEN {} ELSE Over(g[k - 1])]
           levels == CHOOSE g : K(g)
<1>1. Levels(yaml) = levels
  BY DEF Levels
<1>2. {} \in T /\ step \in [1 .. N -> [T -> T]]
  OBVIOUS
<1>3. PICK f \in [0 .. N -> T] : Recurs(f, N, {}, step)
  <2> HIDE DEF step, T, N
  <2> QED BY <1>2, RecursionExists DEF N
<1>4. ASSUME NEW k \in 0 .. N PROVE f[k] = IF k = 0 THEN {} ELSE Over(f[k - 1])
  <2>1. CASE k = 0
    BY <1>3, <2>1 DEF Recurs
  <2>2. CASE k # 0
    <3>1. k \in 1 .. N /\ k - 1 \in 0 .. N
      BY <2>2
    <3>2. f[k - 1] \in T /\ f[k] = step[k][f[k - 1]]
      BY <1>3, <3>1 DEF Recurs
    <3> QED BY <2>2, <3>1, <3>2
  <2> QED BY <2>1, <2>2
<1>5. K(f)
  <2> DEFINE h == [k \in 0 .. N |-> IF k = 0 THEN {} ELSE Over(f[k - 1])]
  <2> HIDE DEF N, Next
  <2>1. \A k \in 0 .. N : h[k] = f[k]
    BY <1>4
  <2>2. h = [k \in 0 .. N |-> h[k]] /\ f = [k \in 0 .. N |-> f[k]]
    OBVIOUS
  <2>3. f = h
    <3> HIDE DEF h
    <3> QED BY <2>1, <2>2
  <2> QED BY <2>3
<1>6. K(levels)
  <2> HIDE DEF K
  <2> QED BY <1>5
<1> HIDE DEF levels
<1>7. ASSUME NEW k \in 0 .. N PROVE levels[k] = IF k = 0 THEN {} ELSE Over(levels[k - 1])
  <2> DEFINE h == [j \in 0 .. N |-> IF j = 0 THEN {} ELSE Over(levels[j - 1])]
  <2> HIDE DEF N, Next
  <2>1. h[k] = IF k = 0 THEN {} ELSE Over(levels[k - 1])
    OBVIOUS
  <2>2. levels = h
    BY <1>6
  <2> HIDE DEF h
  <2> QED BY <2>1, <2>2
<1> QED BY <1>1, <1>7

(* What is in the nodes of a document.                                     *)
LEMMA NodesAre ==
  ASSUME NEW yaml, IsDocument(yaml), NEW n \in DOMAIN yaml
  PROVE  /\ NodesIn(yaml, n) \subseteq DOMAIN yaml
         /\ \A m \in NodesIn(yaml, n) : yaml[m].kind = "scalar" => yaml[m].text \in Texts
         /\ yaml[n].kind = "mapping" =>
              /\ Len(yaml[n].pairs) \in Nat /\ DOMAIN yaml[n].pairs = 1 .. Len(yaml[n].pairs)
              /\ \A i \in DOMAIN yaml[n].pairs : yaml[n].pairs[i].value \in NodesIn(yaml, n)
         /\ yaml[n].kind = "sequence" =>
              /\ Len(yaml[n].items) \in Nat /\ DOMAIN yaml[n].items = 1 .. Len(yaml[n].items)
              /\ \A i \in DOMAIN yaml[n].items : yaml[n].items[i] \in NodesIn(yaml, n)
<1> DEFINE pairs == yaml[n].pairs
           items == yaml[n].items
           D == DOMAIN yaml
           S == [key : D, value : D]
<1>1. /\ yaml[n].kind = "mapping" => pairs \in Seq(S)
      /\ yaml[n].kind = "sequence" => items \in Seq(D)
      /\ \A m \in NodesIn(yaml, n) : yaml[m].kind = "scalar" => yaml[m].text \in Texts
  BY DEF IsDocument, Texts
<1>2. yaml[n].kind = "mapping" =>
        /\ NodesIn(yaml, n) = {p.value : p \in ToSet(pairs)}
        /\ Len(pairs) \in Nat /\ DOMAIN pairs = 1 .. Len(pairs)
        /\ \A i \in DOMAIN pairs : pairs[i] \in ToSet(pairs)
        /\ ToSet(pairs) \subseteq S
  <2>1. yaml[n].kind = "mapping" => NodesIn(yaml, n) = {p.value : p \in ToSet(pairs)}
    BY DEF NodesIn
  <2> HIDE DEF pairs, S
  <2>2. ASSUME yaml[n].kind = "mapping"
        PROVE  /\ Len(pairs) \in Nat /\ DOMAIN pairs = 1 .. Len(pairs)
               /\ \A i \in DOMAIN pairs : pairs[i] \in ToSet(pairs)
               /\ ToSet(pairs) \subseteq S
    BY <1>1, <2>2, LenProperties, ElementOfSeq DEF ToSet
  <2> QED BY <2>1, <2>2
<1>3. yaml[n].kind = "sequence" =>
        /\ NodesIn(yaml, n) = ToSet(items)
        /\ Len(items) \in Nat /\ DOMAIN items = 1 .. Len(items)
        /\ \A i \in DOMAIN items : items[i] \in ToSet(items)
        /\ ToSet(items) \subseteq D
  <2> HIDE DEF items, D
  <2>1. ASSUME yaml[n].kind = "sequence"
        PROVE  /\ Len(items) \in Nat /\ DOMAIN items = 1 .. Len(items)
               /\ \A i \in DOMAIN items : items[i] \in ToSet(items)
               /\ ToSet(items) \subseteq D
    BY <1>1, <2>1, LenProperties, ElementOfSeq DEF ToSet
  <2> QED BY <2>1 DEF NodesIn, items
<1>4. NodesIn(yaml, n) \subseteq D
  <2>1. CASE yaml[n].kind = "mapping"
    <3>1. \A p \in S : p.value \in D
      OBVIOUS
    <3> HIDE DEF D, S, pairs
    <3> QED BY <1>2, <2>1, <3>1
  <2>2. CASE yaml[n].kind = "sequence"
    BY <1>3, <2>2
  <2>3. CASE yaml[n].kind \notin {"mapping", "sequence"}
    BY <2>3 DEF NodesIn
  <2> QED BY <2>1, <2>2, <2>3
<1> QED BY <1>1, <1>2, <1>3, <1>4

(* What holds of a node if it does of the nodes in it holds of all.        *)
LEMMA NodeInduction ==
  ASSUME NEW yaml, IsDocument(yaml), NEW P,
         \A n \in DOMAIN yaml : NodesIn(yaml, n) \subseteq P => n \in P
  PROVE  DOMAIN yaml \subseteq P
<1> DEFINE N == Len(yaml)
           D == DOMAIN yaml
           L == Levels(yaml)
           Q == {k \in Nat : L[k] \subseteq P}
<1>1. N \in Nat /\ L[N] = D
  BY DEF IsDocument
<1>2. \A k \in 0 .. N : L[k] = IF k = 0 THEN {} ELSE {n \in D : NodesIn(yaml, n) \subseteq L[k - 1]}
  BY <1>1, LevelsAre
<1> HIDE DEF N, L
<1>3. 0 \in Q
  <2>1. 0 \in 0 .. N
    BY <1>1
  <2>2. L[0] = IF 0 = 0 THEN {} ELSE {n \in D : NodesIn(yaml, n) \subseteq L[0 - 1]}
    BY <1>2, <2>1
  <2> QED BY <2>2
<1>4. ASSUME NEW k \in 0 .. N - 1, k \in Q PROVE k + 1 \in Q
  <2>1. k + 1 \in 0 .. N /\ k + 1 # 0 /\ (k + 1) - 1 = k /\ k + 1 \in Nat
    BY <1>1
  <2>2. L[k + 1] = {n \in D : NodesIn(yaml, n) \subseteq L[k]}
    <3>1. L[k + 1] = IF k + 1 = 0 THEN {} ELSE {n \in D : NodesIn(yaml, n) \subseteq L[(k + 1) - 1]}
      BY <1>2, <2>1
    <3> QED BY <2>1, <3>1
  <2>3. L[k] \subseteq P
    BY <1>4
  <2>4. ASSUME NEW n \in L[k + 1] PROVE n \in P
    <3>1. n \in D /\ NodesIn(yaml, n) \subseteq P
      BY <2>2, <2>3
    <3> QED BY <3>1
  <2> QED BY <2>1, <2>4
<1>5. N \in Q
  <2> HIDE DEF Q
  <2>1. \A k \in 0 .. N : k \in Q
    BY <1>1, <1>3, <1>4, UptoInduction
  <2> QED BY <1>1, <2>1
<1> QED BY <1>1, <1>5

(* A recursion from node to node, in which what is made of a node depends  *)
(* on the nodes in it only, makes a function of the nodes.                 *)
NodeSteps(step, yaml, T) ==
  /\ step \in [DOMAIN yaml -> [[DOMAIN yaml -> T] -> T]]
  /\ \A n \in DOMAIN yaml : \A f, g \in [DOMAIN yaml -> T] :
       (\A m \in NodesIn(yaml, n) : f[m] = g[m]) => step[n][f] = step[n][g]

NodeRecurs(f, step, yaml, T) == f \in [DOMAIN yaml -> T] /\ \A n \in DOMAIN yaml : f[n] = step[n][f]

LEMMA NodeRecursion ==
  ASSUME NEW yaml, IsDocument(yaml), NEW T, NEW base \in T, NEW step, NodeSteps(step, yaml, T)
  PROVE  \E f : NodeRecurs(f, step, yaml, T)
<1> DEFINE N == Len(yaml)
           D == DOMAIN yaml
           L == Levels(yaml)
           F == [D -> T]
           Q == {k \in Nat : \E f \in F : \A n \in L[k] : f[n] = step[n][f]}
<1>0. /\ step \in [D -> [[D -> T] -> T]]
      /\ \A n \in D : \A f, g \in F : (\A m \in NodesIn(yaml, n) : f[m] = g[m]) => step[n][f] = step[n][g]
  BY DEF NodeSteps
<1>1. N \in Nat /\ L[N] = D
  BY DEF IsDocument
<1>2. \A k \in 0 .. N : L[k] = IF k = 0 THEN {} ELSE {n \in D : NodesIn(yaml, n) \subseteq L[k - 1]}
  BY <1>1, LevelsAre
<1> HIDE DEF N, L
<1>3. 0 \in Q
  <2>1. 0 \in 0 .. N
    BY <1>1
  <2>2. L[0] = IF 0 = 0 THEN {} ELSE {n \in D : NodesIn(yaml, n) \subseteq L[0 - 1]}
    BY <1>2, <2>1
  <2>3. [n \in D |-> base] \in F /\ L[0] = {}
    BY <2>2
  <2> QED BY <2>3
<1>4. ASSUME NEW k \in 0 .. N - 1, k \in Q PROVE k + 1 \in Q
  <2>1. k + 1 \in 0 .. N /\ k + 1 # 0 /\ (k + 1) - 1 = k /\ k + 1 \in Nat
    BY <1>1
  <2>2. L[k + 1] = {n \in D : NodesIn(yaml, n) \subseteq L[k]}
    <3>1. L[k + 1] = IF k + 1 = 0 THEN {} ELSE {n \in D : NodesIn(yaml, n) \subseteq L[(k + 1) - 1]}
      BY <1>2, <2>1
    <3> QED BY <2>1, <3>1
  <2>3. PICK f \in F : \A n \in L[k] : f[n] = step[n][f]
    BY <1>4
  <2> DEFINE g == [n \in D |-> step[n][f]]
  <2>4. g \in F /\ \A n \in D : g[n] = step[n][f]
    BY <1>0
  <2> HIDE DEF g
  <2>5. ASSUME NEW n \in L[k + 1] PROVE g[n] = step[n][g]
    <3>1. n \in D /\ NodesIn(yaml, n) \subseteq L[k] /\ NodesIn(yaml, n) \subseteq D
      BY <2>2, NodesAre
    <3>2. \A m \in NodesIn(yaml, n) : f[m] = g[m]
      BY <2>3, <2>4, <3>1
    <3>3. step[n][f] = step[n][g]
      <4> HIDE DEF F
      <4> QED BY <1>0, <2>4, <3>1, <3>2
    <3> QED BY <2>4, <3>1, <3>3
  <2> QED BY <2>1, <2>4, <2>5
<1>5. N \in Q
  <2> HIDE DEF Q
  <2>1. \A k \in 0 .. N : k \in Q
    BY <1>1, <1>3, <1>4, UptoInduction
  <2> QED BY <1>1, <2>1
<1> QED BY <1>1, <1>5 DEF NodeRecurs

(* A document that is not empty has a first node.                          *)
LEMMA FirstNode ==
  ASSUME NEW yaml, IsDocument(yaml), yaml # << >>
  PROVE  1 \in DOMAIN yaml
<1> DEFINE N == Len(yaml)
<1>1. yaml = [n \in 1 .. N |-> yaml[n]] /\ N \in Nat
  BY DEF IsDocument
<1> HIDE DEF N
<1>2. N # 0
  <2>1. CASE N = 0
    BY <1>1, <2>1
  <2> QED BY <2>1
<1> QED BY <1>1, <1>2

(* What is read of a node depends on the nodes in it only.                 *)
LEMMA ReadAtDepends ==
  ASSUME NEW yaml, IsDocument(yaml), NEW sct, NEW descs, NEW n \in DOMAIN yaml, NEW f, NEW g,
         \A m \in NodesIn(yaml, n) : f[m] = g[m]
  PROVE  ReadAt(yaml, sct, descs, n, f) = ReadAt(yaml, sct, descs, n, g)
<1> DEFINE pairs == yaml[n].pairs
           items == yaml[n].items
           FromPair(p, r) ==
             LET key == yaml[p.key] IN
             IF key.kind # "scalar" THEN << >>
             ELSE IF key.text = sct THEN r[p.value]
             ELSE Read(descs, key.text, yaml[p.value])
           P(r) == [i \in DOMAIN pairs |-> FromPair(pairs[i], r)]
           I(r) == [i \in DOMAIN items |-> r[items[i]]]
<1>1. CASE yaml[n].kind = "mapping"
  <2>1. P(f) = P(g)
    BY <1>1, NodesAre
  <2>2. ReadAt(yaml, sct, descs, n, f) = FlattenSeq(P(f)) /\ ReadAt(yaml, sct, descs, n, g) = FlattenSeq(P(g))
    BY <1>1 DEF ReadAt
  <2> HIDE DEF P
  <2> QED BY <2>1, <2>2
<1>2. CASE yaml[n].kind = "sequence"
  <2>1. I(f) = I(g)
    BY <1>2, NodesAre
  <2>2. ReadAt(yaml, sct, descs, n, f) = FlattenSeq(I(f)) /\ ReadAt(yaml, sct, descs, n, g) = FlattenSeq(I(g))
    BY <1>2 DEF ReadAt
  <2> HIDE DEF I
  <2> QED BY <2>1, <2>2
<1>3. CASE yaml[n].kind \notin {"mapping", "sequence"}
  BY <1>3 DEF ReadAt
<1> QED BY <1>1, <1>2, <1>3

(* What is read of one node.                                               *)
LEMMA ReadIsReading ==
  ASSUME NEW descs, NEW k, NEW node, node.kind = "scalar" => node.text \in Texts
  PROVE  Read(descs, k, node) \in Seq(Readings(descs))
<1> DEFINE described == {d \in descs : d.key = k}
           c == CHOOSE d \in described : TRUE
           r == [desc |-> c, text |-> node.text]
           R == Readings(descs)
<1>1. Read(descs, k, node) = IF described = {} \/ node.kind # "scalar" THEN << >> ELSE <<r>>
  BY DEF Read
<1>2. ASSUME described # {}, node.kind = "scalar" PROVE r \in R
  <2>1. c \in described
    BY <1>2
  <2>2. c \in descs
    BY <2>1
  <2> QED BY <1>2, <2>2 DEF Readings
<1> HIDE DEF r, described, R
<1>3. << >> \in Seq(R) /\ \A x \in R : <<x>> \in Seq(R)
  OBVIOUS
<1> QED BY <1>1, <1>2, <1>3 DEF R

(* It is a sequence of descriptions with texts, if what is read of those   *)
(* nodes is.                                                               *)
LEMMA ReadAtIsReadings ==
  ASSUME NEW yaml, IsDocument(yaml), NEW sct, NEW descs, NEW n \in DOMAIN yaml, NEW f,
         \A m \in NodesIn(yaml, n) : f[m] \in Seq(Readings(descs))
  PROVE  ReadAt(yaml, sct, descs, n, f) \in Seq(Readings(descs))
<1> DEFINE pairs == yaml[n].pairs
           items == yaml[n].items
           R == Readings(descs)
           FromPair(p) ==
             LET key == yaml[p.key] IN
             IF key.kind # "scalar" THEN << >>
             ELSE IF key.text = sct THEN f[p.value]
             ELSE Read(descs, key.text, yaml[p.value])
           P == [i \in DOMAIN pairs |-> FromPair(pairs[i])]
           I == [i \in DOMAIN items |-> f[items[i]]]
<1>1. << >> \in Seq(R)
  OBVIOUS
<1>2. ASSUME NEW m \in NodesIn(yaml, n), NEW k PROVE Read(descs, k, yaml[m]) \in Seq(R)
  <2>1. yaml[m].kind = "scalar" => yaml[m].text \in Texts
    BY NodesAre
  <2> QED BY <2>1, ReadIsReading
<1>3. CASE yaml[n].kind = "mapping"
  <2>1. \A i \in DOMAIN pairs : FromPair(pairs[i]) \in Seq(R)
    <3> HIDE DEF R
    <3> QED BY <1>1, <1>2, <1>3, NodesAre DEF R
  <2>2. ReadAt(yaml, sct, descs, n, f) = FlattenSeq(P)
    BY <1>3 DEF ReadAt
  <2>3. Len(pairs) \in Nat /\ DOMAIN pairs = 1 .. Len(pairs)
    BY <1>3, NodesAre
  <2>4. P \in [1 .. Len(pairs) -> Seq(R)]
    <3> HIDE DEF FromPair, R
    <3> QED BY <2>1, <2>3
  <2> HIDE DEF P, R, pairs
  <2> QED BY <2>2, <2>3, <2>4, FlattenIsSeq DEF R
<1>4. CASE yaml[n].kind = "sequence"
  <2>1. \A i \in DOMAIN items : f[items[i]] \in Seq(R)
    BY <1>4, NodesAre
  <2>2. ReadAt(yaml, sct, descs, n, f) = FlattenSeq(I)
    BY <1>4 DEF ReadAt
  <2>3. Len(items) \in Nat /\ DOMAIN items = 1 .. Len(items)
    BY <1>4, NodesAre
  <2>4. I \in [1 .. Len(items) -> Seq(R)]
    <3> HIDE DEF R
    <3> QED BY <2>1, <2>3
  <2> HIDE DEF I, R, items
  <2> QED BY <2>2, <2>3, <2>4, FlattenIsSeq DEF R
<1>5. CASE yaml[n].kind \notin {"mapping", "sequence"}
  BY <1>1, <1>5 DEF ReadAt
<1> QED BY <1>3, <1>4, <1>5

LEMMA PairsAre ==
  ASSUME NEW yaml, IsDocument(yaml), NEW n \in DOMAIN yaml, yaml[n].kind = "mapping"
  PROVE  \A i \in DOMAIN yaml[n].pairs : yaml[n].pairs[i].key \in DOMAIN yaml
<1> DEFINE pairs == yaml[n].pairs
           S == [key : DOMAIN yaml, value : DOMAIN yaml]
<1>1. pairs \in Seq(S)
  BY DEF IsDocument
<1>2. \A p \in S : p.key \in DOMAIN yaml
  OBVIOUS
<1> HIDE DEF pairs, S
<1>3. \A i \in DOMAIN pairs : pairs[i] \in S
  BY <1>1, LenProperties, ElementOfSeq
<1> QED BY <1>2, <1>3 DEF pairs

(* handle_yaml_node returns for every document: the nodes are read from    *)
(* the innermost on.                                                       *)
LEMMA HandleYamlNodeReads ==
  ASSUME NEW yaml, IsDocument(yaml), NEW sct, NEW descs
  PROVE  \E read \in [DOMAIN yaml -> Seq(Readings(descs))] :
           /\ \A n \in DOMAIN yaml : read[n] = ReadAt(yaml, sct, descs, n, read)
           /\ HandleYamlNode(yaml, sct, descs) = IF yaml = << >> THEN << >> ELSE read[1]
<1> DEFINE D == DOMAIN yaml
           At(n, f) == ReadAt(yaml, sct, descs, n, f)
           K(f) == f = [n \in D |-> At(n, f)]
           read == CHOOSE f : K(f)
           R == Seq(Readings(descs))
           step == [n \in D |-> [f \in [D -> R] |-> At(n, f)]]
<1>1. \E f : K(f)
  <2>1. ASSUME NEW n \in D, NEW f \in [D -> R] PROVE At(n, f) \in R
    <3>1. \A m \in NodesIn(yaml, n) : f[m] \in Seq(Readings(descs))
      BY NodesAre
    <3> QED BY <3>1, ReadAtIsReadings
  <2>2. ASSUME NEW n \in D, NEW f \in [D -> R], NEW g \in [D -> R], \A m \in NodesIn(yaml, n) : f[m] = g[m]
        PROVE  At(n, f) = At(n, g)
    BY <2>2, ReadAtDepends
  <2>3. << >> \in R
    OBVIOUS
  <2> HIDE DEF At, R
  <2>4. /\ step \in [D -> [[D -> R] -> R]]
        /\ \A n \in D : \A f \in [D -> R] : step[n][f] = At(n, f)
    BY <2>1
  <2> HIDE DEF step
  <2>5. \E f \in [D -> R] : \A n \in D : f[n] = step[n][f]
    <3> DEFINE e == << >>
    <3>1. ASSUME NEW n \in D, NEW f \in [D -> R], NEW g \in [D -> R], \A m \in NodesIn(yaml, n) : f[m] = g[m]
          PROVE  step[n][f] = step[n][g]
      <4>1. At(n, f) = At(n, g)
        BY <2>2, <3>1
      <4> HIDE DEF NodesIn
      <4> QED BY <2>4, <4>1
    <3>2. \A n \in D : \A f, g \in [D -> R] :
            (\A m \in NodesIn(yaml, n) : f[m] = g[m]) => step[n][f] = step[n][g]
      BY <3>1
    <3>3. e \in R
      BY <2>3
    <3>4. NodeSteps(step, yaml, R)
      BY <2>4, <3>2 DEF NodeSteps
    <3> HIDE DEF e
    <3>5. \E f : NodeRecurs(f, step, yaml, R)
      BY <3>3, <3>4, NodeRecursion
    <3> QED BY <3>5 DEF NodeRecurs
  <2>6. PICK f \in [D -> R] : \A n \in D : f[n] = At(n, f)
    BY <2>4, <2>5
  <2> HIDE DEF D
  <2>7. f = [n \in D |-> At(n, f)]
    BY <2>6
  <2> QED BY <2>7
<1>2. K(read)
  <2> HIDE DEF K
  <2> QED BY <1>1
<1>3. HandleYamlNode(yaml, sct, descs) = IF yaml = << >> THEN << >> ELSE read[1]
  BY DEF HandleYamlNode
<1> HIDE DEF read
<1>4. ASSUME NEW n \in D PROVE read[n] = At(n, read)
  <2> DEFINE h == [m \in D |-> At(m, read)]
  <2> HIDE DEF At, D
  <2>1. h[n] = At(n, read)
    OBVIOUS
  <2>2. read = h
    BY <1>2
  <2> HIDE DEF h
  <2> QED BY <2>1, <2>2
<1>5. D \subseteq {n \in D : read[n] \in R}
  <2> DEFINE P == {n \in D : read[n] \in R}
  <2>1. ASSUME NEW n \in D, NodesIn(yaml, n) \subseteq P PROVE n \in P
    <3>1. \A m \in NodesIn(yaml, n) : read[m] \in R
      BY <2>1
    <3>2. At(n, read) \in R
      BY <3>1, ReadAtIsReadings
    <3> QED BY <1>4, <3>2
  <2> HIDE DEF P
  <2>2. D \subseteq P
    BY <2>1, NodeInduction
  <2> QED BY <2>2 DEF P
<1>6. read \in [D -> R]
  <2>1. read = [n \in D |-> read[n]]
    <3> HIDE DEF At, D
    <3>1. DOMAIN read = D /\ read = [n \in DOMAIN read |-> read[n]]
      BY <1>2
    <3> QED BY <3>1
  <2> HIDE DEF D, R, K, At
  <2> QED BY <1>5, <2>1
<1> QED BY <1>3, <1>4, <1>6

LEMMA HandleYamlNodeIs ==
  ASSUME NEW yaml, IsDocument(yaml), NEW sct, NEW descs
  PROVE  HandleYamlNode(yaml, sct, descs) \in Seq(Readings(descs))
<1> DEFINE R == Seq(Readings(descs))
<1>1. PICK read \in [DOMAIN yaml -> R] : HandleYamlNode(yaml, sct, descs) = IF yaml = << >> THEN << >> ELSE read[1]
  BY HandleYamlNodeReads
<1>2. << >> \in R
  OBVIOUS
<1> HIDE DEF R
<1>3. yaml # << >> => 1 \in DOMAIN yaml
  BY FirstNode
<1> QED BY <1>1, <1>2, <1>3 DEF R

(* Reading a document, or none, leaves the settings well and loses none.   *)
LEMMA RetrieveIs ==
  ASSUME NEW s, WellSet(s), NEW yaml, yaml = Null \/ IsDocument(yaml), NEW sct, NEW descs,
         \A d \in descs : MaySet(s, sct, d)
  PROVE  /\ WellSet(RetrieveSettings(s, yaml, sct, descs))
         /\ Extends(RetrieveSettings(s, yaml, sct, descs), s, sct)
<1>1. CASE yaml = Null
  <2>1. RetrieveSettings(s, yaml, sct, descs) = s
    BY <1>1 DEF RetrieveSettings
  <2> QED BY <2>1 DEF Extends
<1>2. CASE yaml # Null
  <2> DEFINE reads == HandleYamlNode(yaml, sct, descs)
             n == Len(reads)
             K(g) == Sets(g, s, sct, reads, n)
             after == CHOOSE g : K(g)
  <2>1. RetrieveSettings(s, yaml, sct, descs) = after[n]
    BY <1>2 DEF RetrieveSettings, Sets
  <2>2. reads \in Seq(Readings(descs))
    BY <1>2, HandleYamlNodeIs
  <2> HIDE DEF reads
  <2>3. \E g : K(g)
    BY <2>2, SetsExist
  <2>4. K(after)
    <3> HIDE DEF K
    <3> QED BY <2>3
  <2> HIDE DEF after
  <2>5. WellSet(after[n]) /\ Extends(after[n], s, sct)
    <3>1. n \in Nat /\ SetSteps(after, s, sct, descs, reads, n)
      BY <2>2, <2>4, ReadingsAreSet
    <3> QED BY <3>1 DEF SetSteps
  <2> QED BY <2>1, <2>5
<1> QED BY <1>1, <1>2

-----------------------------------------------------------------------------
(* The lines of a document                                                 *)

StepsOf(yaml) == {KeyStep(yaml[n]) : n \in DOMAIN yaml} \union {ItemStep}
LinesOf(yaml) == [path : Seq(StepsOf(yaml)), text : {yaml[n].text : n \in DOMAIN yaml}]
DeepLines(yaml) == {l \in LinesOf(yaml) : l.path # << >>}

(* The lines of a node are under its key, and deep.                        *)
LEMMA UnderIs ==
  ASSUME NEW yaml, NEW step \in StepsOf(yaml), NEW ls \in Seq(LinesOf(yaml))
  PROVE  /\ Under(step, ls) \in Seq(DeepLines(yaml)) /\ Len(Under(step, ls)) = Len(ls) /\ Len(ls) \in Nat
         /\ \A i \in 1 .. Len(ls) :
              /\ ls[i] \in LinesOf(yaml)
              /\ Under(step, ls)[i] = [path |-> <<step>> \o ls[i].path, text |-> ls[i].text]
<1> DEFINE u == [i \in 1 .. Len(ls) |-> [path |-> <<step>> \o ls[i].path, text |-> ls[i].text]]
           n == Len(ls)
<1>1. n \in Nat /\ DOMAIN ls = 1 .. n /\ \A i \in 1 .. n : ls[i] \in LinesOf(yaml)
  BY LenProperties, ElementOfSeq
<1>2. Under(step, ls) = u
  BY <1>1 DEF Under
<1>3. ASSUME NEW i \in 1 .. n PROVE [path |-> <<step>> \o ls[i].path, text |-> ls[i].text] \in DeepLines(yaml)
  <2> DEFINE p == ls[i].path
  <2>1. p \in Seq(StepsOf(yaml)) /\ ls[i].text \in {yaml[k].text : k \in DOMAIN yaml}
    BY <1>1 DEF LinesOf
  <2>2. <<step>> \in Seq(StepsOf(yaml)) /\ Len(<<step>>) = 1
    OBVIOUS
  <2> HIDE DEF p
  <2>3. <<step>> \o p \in Seq(StepsOf(yaml)) /\ Len(<<step>> \o p) = 1 + Len(p) /\ Len(p) \in Nat
    BY <2>1, <2>2, ConcatProperties, LenProperties
  <2>4. <<step>> \o p # << >>
    BY <2>3
  <2> QED BY <2>1, <2>3, <2>4 DEF LinesOf, DeepLines, p
<1>4. \A i \in 1 .. n : u[i] = [path |-> <<step>> \o ls[i].path, text |-> ls[i].text]
  OBVIOUS
<1>5. u \in [1 .. n -> DeepLines(yaml)]
  BY <1>3
<1> HIDE DEF u, n
<1>6. u \in Seq(DeepLines(yaml)) /\ Len(u) = n
  BY <1>1, <1>5, FunctionIsSeq
<1> QED BY <1>1, <1>2, <1>4, <1>6 DEF n

LEMMA LinesAtDepends ==
  ASSUME NEW yaml, IsDocument(yaml), NEW n \in DOMAIN yaml, NEW f, NEW g, \A m \in NodesIn(yaml, n) : f[m] = g[m]
  PROVE  LinesAt(yaml, n, f) = LinesAt(yaml, n, g)
<1> DEFINE pairs == yaml[n].pairs
           items == yaml[n].items
           P(r) == [i \in DOMAIN pairs |-> Under(KeyStep(yaml[pairs[i].key]), r[pairs[i].value])]
           I(r) == [i \in DOMAIN items |-> Under(ItemStep, r[items[i]])]
<1>1. CASE yaml[n].kind = "mapping"
  <2>1. P(f) = P(g)
    BY <1>1, NodesAre
  <2>2. LinesAt(yaml, n, f) = FlattenSeq(P(f)) /\ LinesAt(yaml, n, g) = FlattenSeq(P(g))
    BY <1>1 DEF LinesAt
  <2> HIDE DEF P
  <2> QED BY <2>1, <2>2
<1>2. CASE yaml[n].kind = "sequence"
  <2>1. I(f) = I(g)
    BY <1>2, NodesAre
  <2>2. LinesAt(yaml, n, f) = FlattenSeq(I(f)) /\ LinesAt(yaml, n, g) = FlattenSeq(I(g))
    BY <1>2 DEF LinesAt
  <2> HIDE DEF I
  <2> QED BY <2>1, <2>2
<1>3. CASE yaml[n].kind \notin {"mapping", "sequence"}
  BY <1>3 DEF LinesAt
<1> QED BY <1>1, <1>2, <1>3

(* The lines of a node are lines, and deep ones if it is no scalar.        *)
LEMMA LinesAtIsLines ==
  ASSUME NEW yaml, IsDocument(yaml), NEW n \in DOMAIN yaml, NEW f,
         \A m \in NodesIn(yaml, n) : f[m] \in Seq(LinesOf(yaml))
  PROVE  /\ LinesAt(yaml, n, f) \in Seq(LinesOf(yaml))
         /\ yaml[n].kind # "scalar" => LinesAt(yaml, n, f) \in Seq(DeepLines(yaml))
<1> DEFINE pairs == yaml[n].pairs
           items == yaml[n].items
           P == [i \in DOMAIN pairs |-> Under(KeyStep(yaml[pairs[i].key]), f[pairs[i].value])]
           I == [i \in DOMAIN items |-> Under(ItemStep, f[items[i]])]
           S == DeepLines(yaml)
<1>1. \A t : t \in Seq(DeepLines(yaml)) => t \in Seq(LinesOf(yaml))
  <2>1. DeepLines(yaml) \subseteq LinesOf(yaml)
    BY DEF DeepLines
  <2> QED BY <2>1
<1>2. CASE yaml[n].kind = "mapping"
  <2>1. Len(pairs) \in Nat /\ DOMAIN pairs = 1 .. Len(pairs) /\ \A i \in DOMAIN pairs : pairs[i].value \in NodesIn(yaml, n)
    BY <1>2, NodesAre
  <2>2. \A i \in DOMAIN pairs : pairs[i].key \in DOMAIN yaml
    BY <1>2, PairsAre
  <2>3. LinesAt(yaml, n, f) = FlattenSeq(P)
    BY <1>2 DEF LinesAt
  <2> HIDE DEF pairs, S
  <2>4. ASSUME NEW i \in DOMAIN pairs PROVE Under(KeyStep(yaml[pairs[i].key]), f[pairs[i].value]) \in Seq(S)
    <3>1. KeyStep(yaml[pairs[i].key]) \in StepsOf(yaml)
      BY <2>2 DEF StepsOf
    <3>2. f[pairs[i].value] \in Seq(LinesOf(yaml))
      BY <2>1
    <3> QED BY <3>1, <3>2, UnderIs DEF S
  <2>5. P \in [1 .. Len(pairs) -> Seq(S)]
    BY <2>1, <2>4
  <2> HIDE DEF P
  <2>6. FlattenSeq(P) \in Seq(S)
    BY <2>1, <2>5, FlattenIsSeq
  <2> QED BY <1>1, <2>3, <2>6 DEF S
<1>3. CASE yaml[n].kind = "sequence"
  <2>1. Len(items) \in Nat /\ DOMAIN items = 1 .. Len(items) /\ \A i \in DOMAIN items : items[i] \in NodesIn(yaml, n)
    BY <1>3, NodesAre
  <2>2. LinesAt(yaml, n, f) = FlattenSeq(I)
    BY <1>3 DEF LinesAt
  <2> HIDE DEF items, S
  <2>3. ASSUME NEW i \in DOMAIN items PROVE Under(ItemStep, f[items[i]]) \in Seq(S)
    <3>1. ItemStep \in StepsOf(yaml)
      BY DEF StepsOf
    <3>2. f[items[i]] \in Seq(LinesOf(yaml))
      BY <2>1
    <3> QED BY <3>1, <3>2, UnderIs DEF S
  <2>4. I \in [1 .. Len(items) -> Seq(S)]
    BY <2>1, <2>3
  <2> HIDE DEF I
  <2>5. FlattenSeq(I) \in Seq(S)
    BY <2>1, <2>4, FlattenIsSeq
  <2> QED BY <1>1, <2>2, <2>5 DEF S
<1>4. CASE yaml[n].kind \notin {"mapping", "sequence"}
  <2> DEFINE l == [path |-> << >>, text |-> yaml[n].text]
  <2>1. yaml[n].kind = "scalar"
    BY <1>4 DEF IsDocument
  <2>2. LinesAt(yaml, n, f) = <<l>>
    BY <1>4 DEF LinesAt
  <2>3. l \in LinesOf(yaml)
    BY DEF LinesOf
  <2> HIDE DEF l
  <2>4. <<l>> \in Seq(LinesOf(yaml))
    BY <2>3
  <2> QED BY <2>1, <2>2, <2>4
<1> QED BY <1>2, <1>3, <1>4

(* Every document has lines.                                               *)
LEMMA LinesAre ==
  ASSUME NEW yaml, IsDocument(yaml), yaml # Null
  PROVE  \E lines \in [DOMAIN yaml -> Seq(LinesOf(yaml))] :
           /\ \A n \in DOMAIN yaml : lines[n] = LinesAt(yaml, n, lines)
           /\ Lines(yaml) = IF yaml = << >> THEN << >> ELSE lines[1]
<1> DEFINE D == DOMAIN yaml
           At(n, f) == LinesAt(yaml, n, f)
           K(f) == f = [n \in D |-> At(n, f)]
           lines == CHOOSE f : K(f)
           R == Seq(LinesOf(yaml))
           step == [n \in D |-> [f \in [D -> R] |-> At(n, f)]]
<1>1. \E f : K(f)
  <2>1. ASSUME NEW n \in D, NEW f \in [D -> R] PROVE At(n, f) \in R
    <3>1. \A m \in NodesIn(yaml, n) : f[m] \in Seq(LinesOf(yaml))
      BY NodesAre
    <3> QED BY <3>1, LinesAtIsLines
  <2>2. ASSUME NEW n \in D, NEW f \in [D -> R], NEW g \in [D -> R], \A m \in NodesIn(yaml, n) : f[m] = g[m]
        PROVE  At(n, f) = At(n, g)
    BY <2>2, LinesAtDepends
  <2>3. << >> \in R
    OBVIOUS
  <2> HIDE DEF At, R
  <2>4. /\ step \in [D -> [[D -> R] -> R]]
        /\ \A n \in D : \A f \in [D -> R] : step[n][f] = At(n, f)
    BY <2>1
  <2> HIDE DEF step
  <2>5. \E f \in [D -> R] : \A n \in D : f[n] = step[n][f]
    <3> DEFINE e == << >>
    <3>1. ASSUME NEW n \in D, NEW f \in [D -> R], NEW g \in [D -> R], \A m \in NodesIn(yaml, n) : f[m] = g[m]
          PROVE  step[n][f] = step[n][g]
      <4>1. At(n, f) = At(n, g)
        BY <2>2, <3>1
      <4> HIDE DEF NodesIn
      <4> QED BY <2>4, <4>1
    <3>2. \A n \in D : \A f, g \in [D -> R] :
            (\A m \in NodesIn(yaml, n) : f[m] = g[m]) => step[n][f] = step[n][g]
      BY <3>1
    <3>3. e \in R
      BY <2>3
    <3>4. NodeSteps(step, yaml, R)
      BY <2>4, <3>2 DEF NodeSteps
    <3> HIDE DEF e
    <3>5. \E f : NodeRecurs(f, step, yaml, R)
      BY <3>3, <3>4, NodeRecursion
    <3> QED BY <3>5 DEF NodeRecurs
  <2>6. PICK f \in [D -> R] : \A n \in D : f[n] = At(n, f)
    BY <2>4, <2>5
  <2> HIDE DEF D
  <2>7. f = [n \in D |-> At(n, f)]
    BY <2>6
  <2> QED BY <2>7
<1>2. K(lines)
  <2> HIDE DEF K
  <2> QED BY <1>1
<1>3. Lines(yaml) = IF yaml = << >> THEN << >> ELSE lines[1]
  BY DEF Lines
<1> HIDE DEF lines
<1>4. ASSUME NEW n \in D PROVE lines[n] = At(n, lines)
  <2> DEFINE h == [m \in D |-> At(m, lines)]
  <2> HIDE DEF At, D
  <2>1. h[n] = At(n, lines)
    OBVIOUS
  <2>2. lines = h
    BY <1>2
  <2> HIDE DEF h
  <2> QED BY <2>1, <2>2
<1>5. D \subseteq {n \in D : lines[n] \in R}
  <2> DEFINE P == {n \in D : lines[n] \in R}
  <2>1. ASSUME NEW n \in D, NodesIn(yaml, n) \subseteq P PROVE n \in P
    <3>1. \A m \in NodesIn(yaml, n) : lines[m] \in R
      BY <2>1
    <3>2. At(n, lines) \in R
      BY <3>1, LinesAtIsLines
    <3> QED BY <1>4, <3>2
  <2> HIDE DEF P
  <2>2. D \subseteq P
    BY <2>1, NodeInduction
  <2> QED BY <2>2 DEF P
<1>6. lines \in [D -> R]
  <2>1. lines = [n \in D |-> lines[n]]
    <3> HIDE DEF At, D
    <3>1. DOMAIN lines = D /\ lines = [n \in DOMAIN lines |-> lines[n]]
      BY <1>2
    <3> QED BY <3>1
  <2> HIDE DEF D, R, K, At
  <2> QED BY <1>5, <2>1
<1> QED BY <1>3, <1>4, <1>6

(* The ways of a line.                                                     *)
LEMMA InPlaceIs ==
  ASSUME NEW S, NEW p \in Seq(S), NEW sct, NEW key
  PROVE  InPlace(p, sct, key) <=>
           /\ Len(p) # 0 /\ p[Len(p)] = <<"key", key>>
           /\ \A i \in 1 .. Len(p) - 1 : p[i] \in {<<"key", sct>>, ItemStep}
<1>1. Len(p) \in Nat /\ (p # << >> <=> Len(p) # 0)
  BY LenProperties, EmptySeq
<1>2. ASSUME p # << >> PROVE ToSet(Front(p)) = {p[i] : i \in 1 .. Len(p) - 1}
  <2> DEFINE n == Len(p) - 1
             f == [i \in 1 .. n |-> p[i]]
  <2>1. n \in Nat
    BY <1>1, <1>2
  <2>2. f \in [1 .. n -> S]
    <3>1. \A i \in 1 .. n : i \in 1 .. Len(p)
      BY <1>1
    <3>2. \A i \in 1 .. n : p[i] \in S
      BY <3>1, ElementOfSeq
    <3> QED BY <3>2
  <2>3. Front(p) = f
    <3>1. 1 \in Nat /\ n + 1 - 1 = n
      BY <2>1
    <3> QED BY <1>1, <1>2 DEF Front
  <2>4. DOMAIN f = 1 .. n /\ \A i \in 1 .. n : f[i] = p[i]
    OBVIOUS
  <2> HIDE DEF f, n
  <2>5. ToSet(f) = {p[i] : i \in 1 .. n}
    BY <2>4 DEF ToSet
  <2> QED BY <2>3, <2>5 DEF n
<1>3. Last(p) = p[Len(p)]
  BY DEF Last
<1> QED BY <1>1, <1>2, <1>3 DEF InPlace

LEMMA StepsDiffer ==
  ASSUME NEW a, NEW b
  PROVE  /\ <<"key", a>> # ItemStep /\ <<"key", a>> # <<"no key">> /\ ItemStep # <<"no key">>
         /\ <<"key", a>> = <<"key", b>> <=> a = b
<1>1. Len(<<"key", a>>) = 2 /\ Len(<<"item">>) = 1 /\ Len(<<"no key">>) = 1
  OBVIOUS
<1>2. <<"item">>[1] = "item" /\ <<"no key">>[1] = "no key"
  OBVIOUS
<1>3. <<"key", a>>[2] = a /\ <<"key", b>>[2] = b
  OBVIOUS
<1>4. <<"key", a>> # <<"item">> /\ <<"key", a>> # <<"no key">>
  BY <1>1
<1>5. <<"item">> # <<"no key">>
  BY <1>2
<1> QED BY <1>3, <1>4, <1>5 DEF ItemStep

LEMMA InPlaceUnder ==
  ASSUME NEW S, NEW step \in S, NEW p \in Seq(S), NEW sct, NEW key, sct # key
  PROVE  InPlace(<<step>> \o p, sct, key) <=>
           IF p = << >> THEN step = <<"key", key>>
                        ELSE step \in {<<"key", sct>>, ItemStep} /\ InPlace(p, sct, key)
<1> DEFINE q == <<step>> \o p
           n == Len(p)
           Ok == {<<"key", sct>>, ItemStep}
<1>1. n \in Nat /\ (p = << >> <=> n = 0)
  BY LenProperties, EmptySeq
<1>2. q \in Seq(S) /\ Len(q) = n + 1 /\ q[1] = step /\ \A i \in 1 .. n : q[i + 1] = p[i]
  <2> DEFINE a == <<step>>
  <2>1. a \in Seq(S) /\ Len(a) = 1 /\ a[1] = step
    OBVIOUS
  <2> HIDE DEF a
  <2>2. /\ a \o p \in Seq(S) /\ Len(a \o p) = 1 + n
        /\ \A i \in 1 .. 1 + n : (a \o p)[i] = IF i <= 1 THEN a[i] ELSE p[i - 1]
    <3>1. /\ a \o p \in Seq(S) /\ Len(a \o p) = Len(a) + Len(p)
          /\ \A i \in 1 .. Len(a) + Len(p) : (a \o p)[i] = IF i <= Len(a) THEN a[i] ELSE p[i - Len(a)]
      BY <2>1, ConcatProperties
    <3> QED BY <2>1, <3>1
  <2>3. 1 \in 1 .. 1 + n /\ 1 + n = n + 1
    BY <1>1
  <2>4. ASSUME NEW i \in 1 .. n PROVE (a \o p)[i + 1] = p[i]
    <3>1. i + 1 \in 1 .. 1 + n /\ ~ (i + 1 <= 1) /\ (i + 1) - 1 = i
      BY <1>1
    <3>2. (a \o p)[i + 1] = p[(i + 1) - 1]
      BY <2>2, <3>1
    <3> QED BY <3>1, <3>2
  <2> QED BY <2>1, <2>2, <2>3, <2>4 DEF a
<1> HIDE DEF q, n, Ok
<1>3. InPlace(q, sct, key) <=>
        Len(q) # 0 /\ q[Len(q)] = <<"key", key>> /\ \A i \in 1 .. Len(q) - 1 : q[i] \in Ok
  BY <1>2, InPlaceIs DEF Ok
<1>4. InPlace(p, sct, key) <=>
        n # 0 /\ p[n] = <<"key", key>> /\ \A i \in 1 .. n - 1 : p[i] \in Ok
  BY InPlaceIs DEF Ok, n
<1>5. InPlace(q, sct, key) <=>
        q[n + 1] = <<"key", key>> /\ \A i \in 1 .. n : q[i] \in Ok
  <2>1. Len(q) # 0 /\ Len(q) - 1 = n
    BY <1>1, <1>2
  <2> QED BY <1>2, <1>3, <2>1
<1>6. CASE n = 0
  <2>1. 1 .. n = {} /\ n + 1 = 1
    BY <1>6
  <2> QED BY <1>1, <1>2, <1>5, <1>6, <2>1 DEF q
<1>7. CASE n # 0
  <2>1. n \in 1 .. n /\ q[n + 1] = p[n]
    BY <1>1, <1>2, <1>7
  <2>2. ASSUME step \in Ok, \A i \in 1 .. n - 1 : p[i] \in Ok, NEW i \in 1 .. n PROVE q[i] \in Ok
    <3>1. CASE i = 1
      BY <1>2, <2>2, <3>1
    <3>2. CASE i # 1
      <4>1. i - 1 \in 1 .. n - 1 /\ i - 1 \in 1 .. n /\ (i - 1) + 1 = i
        BY <1>1, <3>2
      <4>2. q[(i - 1) + 1] = p[i - 1]
        BY <1>2, <4>1
      <4> QED BY <2>2, <4>1, <4>2
    <3> QED BY <3>1, <3>2
  <2>3. ASSUME \A i \in 1 .. n : q[i] \in Ok PROVE step \in Ok /\ \A i \in 1 .. n - 1 : p[i] \in Ok
    <3>1. 1 \in 1 .. n
      BY <1>1, <1>7
    <3>2. ASSUME NEW i \in 1 .. n - 1 PROVE p[i] \in Ok
      <4>1. i \in 1 .. n /\ i + 1 \in 1 .. n
        BY <1>1
      <4>2. q[i + 1] = p[i]
        BY <1>2, <4>1
      <4> QED BY <2>3, <4>1, <4>2
    <3> QED BY <1>2, <2>3, <3>1, <3>2
  <2> QED BY <1>1, <1>4, <1>5, <1>7, <2>1, <2>2, <2>3 DEF q, Ok
<1> QED BY <1>6, <1>7

ReadsOf(descs, key) == {r \in Readings(descs) : r.desc.key = key}
LinesFor(yaml, sct, key) == {l \in LinesOf(yaml) : InPlace(l.path, sct, key)}

(* Lines under a step that leads to the section stay what they are for a   *)
(* key; under another one, none is for it, but for the one of a scalar     *)
(* whose key it is.                                                        *)
LEMMA UnderFor ==
  ASSUME NEW yaml, NEW step \in StepsOf(yaml), NEW ls \in Seq(LinesOf(yaml)), NEW sct, NEW key, sct # key
  PROVE  /\ step \in {<<"key", sct>>, ItemStep} =>
              /\ NoneOf(Under(step, ls), LinesFor(yaml, sct, key)) <=> NoneOf(ls, LinesFor(yaml, sct, key))
              /\ \A x : LastOf(Under(step, ls), LinesFor(yaml, sct, key), x) =>
                   \E y : LastOf(ls, LinesFor(yaml, sct, key), y) /\ y.text = x.text
         /\ step \notin {<<"key", sct>>, ItemStep, <<"key", key>>} => NoneOf(Under(step, ls), LinesFor(yaml, sct, key))
         /\ step \notin {<<"key", sct>>, ItemStep} /\ ls \in Seq(DeepLines(yaml)) =>
              NoneOf(Under(step, ls), LinesFor(yaml, sct, key))
<1> DEFINE u == Under(step, ls)
           n == Len(ls)
           For == LinesFor(yaml, sct, key)
           S == StepsOf(yaml)
<1>1. /\ Len(u) = n /\ n \in Nat
      /\ \A i \in 1 .. n : ls[i] \in LinesOf(yaml) /\ u[i] = [path |-> <<step>> \o ls[i].path, text |-> ls[i].text]
  <2>1. /\ Len(Under(step, ls)) = Len(ls) /\ Len(ls) \in Nat
        /\ \A i \in 1 .. Len(ls) :
             /\ ls[i] \in LinesOf(yaml)
             /\ Under(step, ls)[i] = [path |-> <<step>> \o ls[i].path, text |-> ls[i].text]
    BY UnderIs
  <2> QED BY <2>1
<1>2. \A i \in 1 .. n : u[i] \in LinesOf(yaml)
  <2>1. u \in Seq(DeepLines(yaml)) /\ DeepLines(yaml) \subseteq LinesOf(yaml)
    BY UnderIs DEF DeepLines
  <2> HIDE DEF u
  <2>2. \A i \in 1 .. Len(u) : u[i] \in DeepLines(yaml)
    BY <2>1, ElementOfSeq
  <2> QED BY <1>1, <2>1, <2>2
<1> HIDE DEF u, n
<1>3. ASSUME NEW i \in 1 .. n
      PROVE  u[i] \in For <=>
               IF ls[i].path = << >> THEN step = <<"key", key>>
                                     ELSE step \in {<<"key", sct>>, ItemStep} /\ ls[i] \in For
  <2> DEFINE p == ls[i].path
  <2>1. p \in Seq(S)
    BY <1>1 DEF LinesOf
  <2>2. u[i].path = <<step>> \o p
    BY <1>1
  <2>3. (u[i] \in For <=> InPlace(u[i].path, sct, key)) /\ (ls[i] \in For <=> InPlace(ls[i].path, sct, key))
    BY <1>1, <1>2 DEF LinesFor
  <2> HIDE DEF p, For, S
  <2>4. InPlace(<<step>> \o p, sct, key) <=>
          IF p = << >> THEN step = <<"key", key>>
                       ELSE step \in {<<"key", sct>>, ItemStep} /\ InPlace(p, sct, key)
    <3>1. step \in S
      BY DEF S
    <3> QED BY <2>1, <3>1, InPlaceUnder
  <2> QED BY <2>2, <2>3, <2>4 DEF p
<1>4. ASSUME step \in {<<"key", sct>>, ItemStep}, NEW i \in 1 .. n
      PROVE  (u[i] \in For <=> ls[i] \in For) /\ u[i].text = ls[i].text
  <2>1. step # <<"key", key>>
    BY <1>4, StepsDiffer
  <2>2. ls[i].path = << >> => ls[i] \notin For
    BY DEF LinesFor, InPlace
  <2>3. u[i].text = ls[i].text
    BY <1>1
  <2> HIDE DEF For
  <2> QED BY <1>3, <1>4, <2>1, <2>2, <2>3
<1>5. ls \in Seq(DeepLines(yaml)) => \A i \in 1 .. n : ls[i].path # << >>
  <2>1. ASSUME ls \in Seq(DeepLines(yaml)), NEW i \in 1 .. n PROVE ls[i] \in DeepLines(yaml)
    BY <2>1, ElementOfSeq DEF n
  <2> QED BY <2>1 DEF DeepLines
<1> HIDE DEF For
<1>6. ASSUME step \in {<<"key", sct>>, ItemStep} PROVE NoneOf(u, For) <=> NoneOf(ls, For)
  BY <1>1, <1>4, <1>6 DEF NoneOf, n
<1>7. ASSUME step \in {<<"key", sct>>, ItemStep}, NEW x, LastOf(u, For, x)
      PROVE  \E y : LastOf(ls, For, y) /\ y.text = x.text
  <2>1. PICK i \in 1 .. n : u[i] = x /\ x \in For /\ \A j \in i + 1 .. n : u[j] \notin For
    BY <1>1, <1>7 DEF LastOf
  <2>2. ls[i] \in For /\ ls[i].text = x.text
    BY <1>4, <1>7, <2>1
  <2>3. ASSUME NEW j \in i + 1 .. n PROVE ls[j] \notin For
    <3>1. j \in 1 .. n
      BY <1>1
    <3> QED BY <1>4, <1>7, <2>1, <3>1
  <2>4. LastOf(ls, For, ls[i])
    BY <2>2, <2>3 DEF LastOf, n
  <2> QED BY <2>2, <2>4
<1>8. ASSUME step \notin {<<"key", sct>>, ItemStep, <<"key", key>>} PROVE NoneOf(u, For)
  BY <1>1, <1>3, <1>8 DEF NoneOf
<1>9. ASSUME step \notin {<<"key", sct>>, ItemStep}, ls \in Seq(DeepLines(yaml)) PROVE NoneOf(u, For)
  BY <1>1, <1>3, <1>5, <1>9 DEF NoneOf
<1> QED BY <1>6, <1>7, <1>8, <1>9 DEF u, For

(* What is read of a section's node has the same last text as its lines.   *)
LEMMA SameLastUnder ==
  ASSUME NEW yaml, NEW step \in StepsOf(yaml), NEW ls \in Seq(LinesOf(yaml)), NEW sct, NEW key, sct # key,
         step \in {<<"key", sct>>, ItemStep}, NEW a, NEW M, SameLast(a, M, ls, LinesFor(yaml, sct, key))
  PROVE  SameLast(a, M, Under(step, ls), LinesFor(yaml, sct, key))
<1> DEFINE u == Under(step, ls)
           For == LinesFor(yaml, sct, key)
<1>1. /\ NoneOf(u, For) <=> NoneOf(ls, For)
      /\ \A x : LastOf(u, For, x) => \E y : LastOf(ls, For, y) /\ y.text = x.text
  BY UnderFor
<1> HIDE DEF u, For
<1>2. SameLast(a, M, ls, For)
  BY DEF For
<1>3. SameLast(a, M, u, For)
  BY <1>1, <1>2 DEF SameLast
<1> QED BY <1>3 DEF u, For

(* A scalar under a described key is read, and nothing else is.            *)
LEMMA SameLastRead ==
  ASSUME NEW yaml, NEW v \in DOMAIN yaml, NEW k, NEW ls \in Seq(LinesOf(yaml)),
         yaml[v].kind = "scalar" => ls = <<[path |-> << >>, text |-> yaml[v].text]>> /\ yaml[v].text \in Texts,
         yaml[v].kind # "scalar" => ls \in Seq(DeepLines(yaml)),
         <<"key", k>> \in StepsOf(yaml),
         NEW sct, sct # k, NEW descs, NEW key, sct # key, \E d \in descs : d.key = key
  PROVE  SameLast(Read(descs, k, yaml[v]), ReadsOf(descs, key), Under(<<"key", k>>, ls), LinesFor(yaml, sct, key))
<1> DEFINE described == {d \in descs : d.key = k}
           c == CHOOSE d \in described : TRUE
           r == [desc |-> c, text |-> yaml[v].text]
           a == Read(descs, k, yaml[v])
           step == <<"key", k>>
           u == Under(step, ls)
           For == LinesFor(yaml, sct, key)
           Of == ReadsOf(descs, key)
<1>1. a = IF described = {} \/ yaml[v].kind # "scalar" THEN << >> ELSE <<r>>
  BY DEF Read
<1>2. step \in StepsOf(yaml) /\ step # <<"key", sct>> /\ step # ItemStep /\ (step = <<"key", key>> <=> k = key)
  BY StepsDiffer
<1>3. described # {} => c \in descs /\ c.key = k
  <2>1. described # {} => c \in described
    OBVIOUS
  <2> QED BY <2>1
<1>4. ASSUME k # key \/ yaml[v].kind # "scalar" PROVE NoneOf(a, Of) /\ NoneOf(u, For)
  <2>1. NoneOf(u, For)
    <3>1. CASE k # key
      BY <1>2, <3>1, UnderFor
    <3>2. CASE yaml[v].kind # "scalar"
      BY <1>2, <3>2, UnderFor
    <3> QED BY <1>4, <3>1, <3>2
  <2>2. CASE a = << >>
    BY <2>1, <2>2 DEF NoneOf
  <2>3. CASE a # << >>
    <3>1. a = <<r>> /\ c.key = k /\ k # key
      BY <1>1, <1>3, <1>4, <2>3
    <3>2. r.desc = c
      OBVIOUS
    <3> HIDE DEF a, r, c, described
    <3>3. r \notin Of
      BY <3>1, <3>2 DEF ReadsOf
    <3>4. Len(a) = 1 /\ a[1] = r
      BY <3>1
    <3>5. NoneOf(a, Of)
      BY <3>3, <3>4 DEF NoneOf
    <3> QED BY <2>1, <3>5
  <2> QED BY <2>2, <2>3
<1>5. ASSUME k = key, yaml[v].kind = "scalar"
      PROVE  \E x, y : /\ a = <<x>> /\ x \in Of /\ u = <<y>> /\ y \in For /\ x.text = y.text
  <2> DEFINE l == [path |-> << >>, text |-> yaml[v].text]
             y == [path |-> <<step>> \o << >>, text |-> yaml[v].text]
  <2>1. described # {}
    BY <1>5
  <2>2. a = <<r>> /\ r \in Of /\ r.text = yaml[v].text
    <3>1. c \in descs /\ c.key = key
      BY <1>3, <1>5, <2>1
    <3> HIDE DEF c, described
    <3>2. r \in Readings(descs) /\ r.desc = c
      BY <1>5, <3>1 DEF Readings
    <3> QED BY <1>1, <1>5, <2>1, <3>1, <3>2 DEF ReadsOf
  <2>3. ls = <<l>> /\ Len(ls) = 1 /\ ls[1] = l
    BY <1>5
  <2>4. u = <<y>>
    <3>1. DOMAIN ls = 1 .. 1
      BY <2>3
    <3>2. ls[1].path = << >> /\ ls[1].text = yaml[v].text
      BY <2>3
    <3>3. u = [i \in 1 .. 1 |-> [path |-> <<step>> \o ls[i].path, text |-> ls[i].text]]
      BY <3>1 DEF Under
    <3> HIDE DEF step
    <3>4. u = [i \in 1 .. 1 |-> y]
      <4>1. \A i \in 1 .. 1 : [path |-> <<step>> \o ls[i].path, text |-> ls[i].text] = y
        BY <3>2
      <4> HIDE DEF u, y
      <4> QED BY <3>3, <4>1
    <3> QED BY <3>4
  <2>5. y \in For /\ y.text = yaml[v].text
    <3>1. y \in LinesOf(yaml)
      <4>1. u \in Seq(DeepLines(yaml)) /\ Len(u) = 1
        <5> HIDE DEF step
        <5>1. u \in Seq(DeepLines(yaml)) /\ Len(u) = Len(ls)
          BY <1>2, UnderIs
        <5> QED BY <2>3, <5>1
      <4> HIDE DEF u, y
      <4>2. u[1] = y /\ u[1] \in DeepLines(yaml)
        BY <2>4, <4>1, ElementOfSeq
      <4> QED BY <4>2 DEF DeepLines
    <3>2. InPlace(<<step>> \o << >>, sct, key)
      <4> DEFINE p == << >>
                 S == StepsOf(yaml)
      <4>1. p \in Seq(S) /\ step \in S /\ step = <<"key", key>> /\ p = << >>
        BY <1>2, <1>5
      <4> HIDE DEF p, S, step
      <4>2. InPlace(<<step>> \o p, sct, key)
        BY <4>1, InPlaceUnder
      <4> QED BY <4>2 DEF p
    <3> QED BY <3>1, <3>2 DEF LinesFor
  <2> HIDE DEF a, r, u, y, For, Of
  <2> QED BY <2>2, <2>4, <2>5
<1> HIDE DEF a, u, For, Of
<1>6. CASE k # key \/ yaml[v].kind # "scalar"
  <2>1. SameLast(a, Of, u, For)
    BY <1>4, <1>6, LastIsOne DEF SameLast
  <2> QED BY <2>1 DEF a, u, For, Of
<1>7. CASE k = key /\ yaml[v].kind = "scalar"
  <2>1. PICK x, y : a = <<x>> /\ x \in Of /\ u = <<y>> /\ y \in For /\ x.text = y.text
    BY <1>5, <1>7
  <2>2. Len(a) = 1 /\ a[1] = x /\ Len(u) = 1 /\ u[1] = y
    <3>1. \A z : Len(<<z>>) = 1 /\ <<z>>[1] = z
      OBVIOUS
    <3> QED BY <2>1, <3>1
  <2>3. ~ NoneOf(a, Of) /\ ~ NoneOf(u, For)
    <3>1. 1 \in 1 .. 1
      OBVIOUS
    <3>2. (\E i \in 1 .. Len(a) : a[i] \in Of) /\ \E i \in 1 .. Len(u) : u[i] \in For
      BY <2>1, <2>2, <3>1
    <3> QED BY <3>2 DEF NoneOf
  <2>4. \A z : (LastOf(a, Of, z) => z = x) /\ (LastOf(u, For, z) => z = y)
    <3>1. \A i \in 1 .. 1 : i = 1
      OBVIOUS
    <3> QED BY <2>2, <3>1 DEF LastOf
  <2>5. SameLast(a, Of, u, For)
    BY <2>1, <2>3, <2>4 DEF SameLast
  <2> QED BY <2>5 DEF a, u, For, Of
<1> QED BY <1>6, <1>7

(* Of what is in a node, the last that is read for a key is the last that  *)
(* is written for it.                                                      *)
LEMMA SameLastAt ==
  ASSUME NEW yaml, IsDocument(yaml), NEW sct, NEW descs, NEW key, sct # key, \E d \in descs : d.key = key,
         NEW read \in [DOMAIN yaml -> Seq(Readings(descs))],
         NEW lines \in [DOMAIN yaml -> Seq(LinesOf(yaml))],
         \A m \in DOMAIN yaml : lines[m] = LinesAt(yaml, m, lines),
         NEW n \in DOMAIN yaml,
         \A m \in NodesIn(yaml, n) : SameLast(read[m], ReadsOf(descs, key), lines[m], LinesFor(yaml, sct, key))
  PROVE  SameLast(ReadAt(yaml, sct, descs, n, read), ReadsOf(descs, key),
                  LinesAt(yaml, n, lines), LinesFor(yaml, sct, key))
<1> DEFINE pairs == yaml[n].pairs
           items == yaml[n].items
           R == Readings(descs)
           T == LinesOf(yaml)
           Of == ReadsOf(descs, key)
           For == LinesFor(yaml, sct, key)
           FromPair(p) ==
             LET k == yaml[p.key] IN
             IF k.kind # "scalar" THEN << >>
             ELSE IF k.text = sct THEN read[p.value]
             ELSE Read(descs, k.text, yaml[p.value])
           OfPair(p) == Under(KeyStep(yaml[p.key]), lines[p.value])
           OfItem(m) == Under(ItemStep, lines[m])
<1>1. NoneOf(<< >>, Of)
  BY DEF NoneOf
<1>2. \A m \in DOMAIN yaml : lines[m] \in Seq(T) /\ read[m] \in Seq(R)
  OBVIOUS
<1>3. \A u \in Seq(DeepLines(yaml)) : u \in Seq(T)
  <2>1. DeepLines(yaml) \subseteq T
    BY DEF DeepLines
  <2> QED BY <2>1
<1>4. CASE yaml[n].kind = "mapping"
  <2>1. /\ Len(pairs) \in Nat /\ DOMAIN pairs = 1 .. Len(pairs) /\ NodesIn(yaml, n) \subseteq DOMAIN yaml
        /\ \A i \in DOMAIN pairs : pairs[i].value \in NodesIn(yaml, n) /\ pairs[i].key \in DOMAIN yaml
    BY <1>4, NodesAre, PairsAre
  <2> HIDE DEF pairs
  <2>2. ASSUME NEW i \in DOMAIN pairs
        PROVE  /\ FromPair(pairs[i]) \in Seq(R) /\ OfPair(pairs[i]) \in Seq(T)
               /\ SameLast(FromPair(pairs[i]), Of, OfPair(pairs[i]), For)
    <3> DEFINE k == yaml[pairs[i].key]
               v == pairs[i].value
               step == KeyStep(k)
               ls == lines[v]
               from == FromPair(pairs[i])
               of == OfPair(pairs[i])
    <3>1. v \in NodesIn(yaml, n) /\ v \in DOMAIN yaml /\ step \in StepsOf(yaml) /\ ls \in Seq(T)
      BY <1>2, <2>1 DEF StepsOf
    <3>2. /\ of = Under(step, ls)
          /\ from = IF k.kind # "scalar" THEN << >>
                    ELSE IF k.text = sct THEN read[v] ELSE Read(descs, k.text, yaml[v])
      OBVIOUS
    <3>3. step = IF k.kind = "scalar" THEN <<"key", k.text>> ELSE <<"no key">>
      BY DEF KeyStep
    <3>4. yaml[v].kind = "scalar" => ls = <<[path |-> << >>, text |-> yaml[v].text]>> /\ yaml[v].text \in Texts
      <4>1. lines[v] = LinesAt(yaml, v, lines)
        BY <3>1
      <4> QED BY <3>1, <4>1, NodesAre DEF LinesAt
    <3>5. yaml[v].kind # "scalar" => ls \in Seq(DeepLines(yaml))
      <4>1. lines[v] = LinesAt(yaml, v, lines) /\ \A m \in NodesIn(yaml, v) : lines[m] \in Seq(LinesOf(yaml))
        BY <3>1, NodesAre
      <4>2. yaml[v].kind # "scalar" => LinesAt(yaml, v, lines) \in Seq(DeepLines(yaml))
        BY <3>1, <4>1, LinesAtIsLines
      <4> QED BY <4>1, <4>2
    <3>6. SameLast(read[v], Of, ls, For)
      BY <3>1
    <3>7. read[v] \in Seq(R)
      BY <1>2, <3>1
    <3> HIDE DEF from, of, k, v, step, ls
    <3>8. of \in Seq(T)
      <4>1. of \in Seq(DeepLines(yaml))
        BY <3>1, <3>2, UnderIs
      <4> QED BY <1>3, <4>1
    <3>9. CASE k.kind # "scalar"
      <4>1. step \notin {<<"key", sct>>, ItemStep, <<"key", key>>}
        BY <3>3, <3>9, StepsDiffer
      <4>2. NoneOf(of, For)
        BY <3>1, <3>2, <4>1, UnderFor
      <4>3. from = << >>
        BY <3>2, <3>9
      <4> HIDE DEF Of, For
      <4>4. SameLast(from, Of, of, For)
        BY <1>1, <4>2, <4>3, LastIsOne DEF SameLast
      <4>5. from \in Seq(R)
        BY <4>3
      <4> QED BY <3>8, <4>4, <4>5 DEF from, of
    <3>10. CASE k.kind = "scalar" /\ k.text = sct
      <4>1. from = read[v] /\ step = <<"key", sct>>
        BY <3>2, <3>3, <3>10
      <4>2. SameLast(from, Of, of, For)
        BY <3>1, <3>2, <3>6, <4>1, SameLastUnder
      <4> QED BY <3>7, <3>8, <4>1, <4>2 DEF from, of
    <3>11. CASE k.kind = "scalar" /\ k.text # sct
      <4>1. from = Read(descs, k.text, yaml[v]) /\ step = <<"key", k.text>>
        BY <3>2, <3>3, <3>11
      <4> DEFINE t == k.text
      <4>2. from = Read(descs, t, yaml[v]) /\ <<"key", t>> \in StepsOf(yaml) /\ sct # t /\ of = Under(<<"key", t>>, ls)
        BY <3>1, <3>2, <3>11, <4>1
      <4> HIDE DEF t
      <4>3. SameLast(from, Of, of, For)
        BY <3>1, <3>4, <3>5, <4>2, SameLastRead
      <4>4. from \in Seq(R)
        BY <3>4, <4>2, ReadIsReading
      <4> QED BY <3>8, <4>3, <4>4 DEF from, of
    <3> QED BY <3>9, <3>10, <3>11
  <2> DEFINE rs == [i \in DOMAIN pairs |-> FromPair(pairs[i])]
             ls == [i \in DOMAIN pairs |-> OfPair(pairs[i])]
             N == Len(pairs)
  <2>3. ReadAt(yaml, sct, descs, n, read) = FlattenSeq(rs) /\ LinesAt(yaml, n, lines) = FlattenSeq(ls)
    BY <1>4 DEF ReadAt, LinesAt, pairs
  <2> HIDE DEF FromPair, OfPair, R, T, Of, For
  <2>4. /\ rs \in [1 .. N -> Seq(R)] /\ ls \in [1 .. N -> Seq(T)]
        /\ \A i \in 1 .. N : SameLast(rs[i], Of, ls[i], For)
    BY <2>1, <2>2
  <2>5. N \in Nat
    BY <2>1
  <2> HIDE DEF rs, ls, N
  <2>6. SameLast(FlattenSeq(rs), Of, FlattenSeq(ls), For)
    BY <2>4, <2>5, SameLastOfAll
  <2> QED BY <2>3, <2>6 DEF Of, For
<1>5. CASE yaml[n].kind = "sequence"
  <2>1. /\ Len(items) \in Nat /\ DOMAIN items = 1 .. Len(items) /\ NodesIn(yaml, n) \subseteq DOMAIN yaml
        /\ \A i \in DOMAIN items : items[i] \in NodesIn(yaml, n)
    BY <1>5, NodesAre
  <2> HIDE DEF items
  <2>2. ASSUME NEW i \in DOMAIN items
        PROVE  /\ read[items[i]] \in Seq(R) /\ OfItem(items[i]) \in Seq(T)
               /\ SameLast(read[items[i]], Of, OfItem(items[i]), For)
    <3> DEFINE m == items[i]
               ls == lines[m]
    <3>1. m \in NodesIn(yaml, n) /\ read[m] \in Seq(R) /\ ls \in Seq(T) /\ ItemStep \in StepsOf(yaml)
      BY <1>2, <2>1 DEF StepsOf
    <3>2. SameLast(read[m], Of, ls, For)
      BY <3>1
    <3> HIDE DEF m, ls
    <3>3. Under(ItemStep, ls) \in Seq(DeepLines(yaml))
      BY <3>1, UnderIs
    <3>4. SameLast(read[m], Of, Under(ItemStep, ls), For)
      BY <3>1, <3>2, SameLastUnder
    <3> QED BY <1>3, <3>1, <3>3, <3>4 DEF m, ls
  <2> DEFINE rs == [i \in DOMAIN items |-> read[items[i]]]
             ls == [i \in DOMAIN items |-> OfItem(items[i])]
             N == Len(items)
  <2>3. ReadAt(yaml, sct, descs, n, read) = FlattenSeq(rs) /\ LinesAt(yaml, n, lines) = FlattenSeq(ls)
    BY <1>5 DEF ReadAt, LinesAt, items
  <2> HIDE DEF OfItem, R, T, Of, For
  <2>4. /\ rs \in [1 .. N -> Seq(R)] /\ ls \in [1 .. N -> Seq(T)]
        /\ \A i \in 1 .. N : SameLast(rs[i], Of, ls[i], For)
    BY <2>1, <2>2
  <2>5. N \in Nat
    BY <2>1
  <2> HIDE DEF rs, ls, N
  <2>6. SameLast(FlattenSeq(rs), Of, FlattenSeq(ls), For)
    BY <2>4, <2>5, SameLastOfAll
  <2> QED BY <2>3, <2>6 DEF Of, For
<1>6. CASE yaml[n].kind \notin {"mapping", "sequence"}
  <2> DEFINE l == [path |-> << >>, text |-> yaml[n].text]
             r == ReadAt(yaml, sct, descs, n, read)
             u == LinesAt(yaml, n, lines)
  <2>1. r = << >>
    BY <1>6 DEF ReadAt
  <2>2. u = <<l>>
    BY <1>6 DEF LinesAt
  <2>3. l \notin For
    BY DEF LinesFor, InPlace
  <2> HIDE DEF l, r, u, Of, For
  <2>4. Len(u) = 1 /\ u[1] = l
    BY <2>2
  <2>5. NoneOf(u, For)
    BY <2>3, <2>4 DEF NoneOf
  <2>6. NoneOf(r, Of)
    BY <1>1, <2>1
  <2>7. SameLast(r, Of, u, For)
    BY <2>5, <2>6, LastIsOne DEF SameLast
  <2> QED BY <2>7 DEF r, u, Of, For
<1> QED BY <1>4, <1>5, <1>6

(* Of a document, the last that is read for a key is the last that is      *)
(* written for it.                                                         *)
LEMMA LastReadIsLastWritten ==
  ASSUME NEW yaml, IsDocument(yaml), yaml # Null, NEW sct, NEW descs, NEW key, sct # key, \E d \in descs : d.key = key
  PROVE  /\ Lines(yaml) \in Seq(LinesOf(yaml))
         /\ SameLast(HandleYamlNode(yaml, sct, descs), ReadsOf(descs, key), Lines(yaml), LinesFor(yaml, sct, key))
<1> DEFINE D == DOMAIN yaml
           Of == ReadsOf(descs, key)
           For == LinesFor(yaml, sct, key)
<1>1. PICK read \in [D -> Seq(Readings(descs))] :
        /\ \A n \in D : read[n] = ReadAt(yaml, sct, descs, n, read)
        /\ HandleYamlNode(yaml, sct, descs) = IF yaml = << >> THEN << >> ELSE read[1]
  BY HandleYamlNodeReads
<1>2. PICK lines \in [D -> Seq(LinesOf(yaml))] :
        /\ \A n \in D : lines[n] = LinesAt(yaml, n, lines)
        /\ Lines(yaml) = IF yaml = << >> THEN << >> ELSE lines[1]
  BY LinesAre
<1>3. D \subseteq {n \in D : SameLast(read[n], Of, lines[n], For)}
  <2> DEFINE P == {n \in D : SameLast(read[n], Of, lines[n], For)}
  <2>1. ASSUME NEW n \in D, NodesIn(yaml, n) \subseteq P PROVE n \in P
    <3>1. \A m \in NodesIn(yaml, n) : SameLast(read[m], ReadsOf(descs, key), lines[m], LinesFor(yaml, sct, key))
      BY <2>1
    <3>2. SameLast(ReadAt(yaml, sct, descs, n, read), Of, LinesAt(yaml, n, lines), For)
      BY <1>2, <3>1, SameLastAt
    <3>3. SameLast(read[n], Of, lines[n], For)
      BY <1>1, <1>2, <3>2
    <3> QED BY <3>3
  <2> HIDE DEF P
  <2>2. D \subseteq P
    BY <2>1, NodeInduction
  <2> QED BY <2>2 DEF P
<1>4. CASE yaml = << >>
  <2>1. HandleYamlNode(yaml, sct, descs) = << >> /\ Lines(yaml) = << >>
    BY <1>1, <1>2, <1>4
  <2>2. NoneOf(<< >>, Of) /\ NoneOf(<< >>, For)
    BY DEF NoneOf
  <2> HIDE DEF Of, For
  <2>3. SameLast(<< >>, Of, << >>, For)
    BY <2>2, LastIsOne DEF SameLast
  <2> QED BY <2>1, <2>3 DEF Of, For
<1>5. CASE yaml # << >>
  <2>1. 1 \in D
    BY <1>5, FirstNode
  <2>2. HandleYamlNode(yaml, sct, descs) = read[1] /\ Lines(yaml) = lines[1]
    BY <1>1, <1>2, <1>5
  <2>3. SameLast(read[1], Of, lines[1], For) /\ lines[1] \in Seq(LinesOf(yaml))
    BY <1>3, <2>1
  <2> QED BY <2>2, <2>3
<1> QED BY <1>4, <1>5

-----------------------------------------------------------------------------
(* What is written last is set                                             *)

(* What a described scalar sets.                                           *)
LEMMA ScalarIsSet ==
  ASSUME NEW s, WellSet(s), NEW sct, NEW d, MaySet(s, sct, d), d.type \in {"dir", "text", "uint"}, NEW t \in Texts
  PROVE  IsSet(SetScalar(s, sct, d, t), s, sct, d.key, Meaning(d.type, t))
<1> DEFINE key == d.key
           type == KeyType(key)
           val == Meaning(d.type, t)
<1>1. <<sct, key>> \in Keys /\ (d.type = type \/ <<sct, key>> \in DOMAIN s)
  BY DEF MaySet
<1>2. Strtoull(t) \in Nat /\ DirText(t) \in DirTexts
  BY StrtoullIsNat, DirTextIs
<1>3. val = IF d.type = "uint" THEN Strtoull(t) ELSE IF d.type = "dir" THEN DirText(t) ELSE t
  BY DEF Meaning
<1>4. SetScalar(s, sct, d, t) = Set(s, sct, key, val, d.type)
  BY <1>3 DEF SetScalar, SetDir, SetText, SetUint
<1> HIDE DEF val
<1>5. val \in ValuesOf(type)
  BY <1>2, <1>3 DEF MaySet, ValuesOf
<1> HIDE DEF key
<1>6. IsSet(Set(s, sct, key, val, d.type), s, sct, key, val)
  BY <1>1, <1>5, SetIs
<1> QED BY <1>4, <1>6 DEF key, val

(* A setting is as it was, or has a value.                                 *)
SameAt(u, s, k) == (k \in DOMAIN u <=> k \in DOMAIN s) /\ (k \in DOMAIN s => u[k] = s[k])
HasValue(u, k, val) == k \in DOMAIN u /\ u[k].value = val

(* What can be described: each key once, and no size.                      *)
Described(s, sct, descs) ==
  /\ \A d \in descs : MaySet(s, sct, d) /\ d.type \in {"dir", "text", "uint"}
  /\ \A d, e \in descs : d.key = e.key => d = e

(* Of what is read for a key the last stays.                               *)
LEMMA LastReadIsSet ==
  ASSUME NEW s, WellSet(s), NEW sct, NEW descs, Described(s, sct, descs), NEW d \in descs,
         NEW reads \in Seq(Readings(descs)), NEW g, Sets(g, s, sct, reads, Len(reads))
  PROVE  /\ NoneOf(reads, ReadsOf(descs, d.key)) => SameAt(g[Len(reads)], s, <<sct, d.key>>)
         /\ \A x : LastOf(reads, ReadsOf(descs, d.key), x) =>
              HasValue(g[Len(reads)], <<sct, d.key>>, Meaning(d.type, x.text))
<1> DEFINE n == Len(reads)
           key == <<sct, d.key>>
           For(i) == reads[i].desc.key = d.key
           Of == ReadsOf(descs, d.key)
           Untouched(k) == (\A i \in 1 .. k : ~ For(i)) => SameAt(g[k], s, key)
           Touched(k) == \A i \in 1 .. k :
             For(i) /\ (\A j \in i + 1 .. k : ~ For(j)) => HasValue(g[k], key, Meaning(d.type, reads[i].text))
           P == {k \in Nat : Untouched(k) /\ Touched(k)}
<1>1. /\ n \in Nat /\ g[0] = s
      /\ \A k \in 0 .. n : WellSet(g[k]) /\ Extends(g[k], s, sct)
      /\ \A k \in 1 .. n :
           /\ reads[k].desc \in descs /\ reads[k].text \in Texts
           /\ MaySet(g[k - 1], sct, reads[k].desc)
           /\ g[k] = SetScalar(g[k - 1], sct, reads[k].desc, reads[k].text)
  <2>1. \A e \in descs : MaySet(s, sct, e)
    BY DEF Described
  <2>2. Len(reads) \in Nat /\ SetSteps(g, s, sct, descs, reads, Len(reads))
    BY <2>1, ReadingsAreSet
  <2> QED BY <2>2 DEF SetSteps
<1>2. \A i \in 1 .. n : reads[i] \in Of <=> For(i)
  <2>1. \A i \in 1 .. n : reads[i] \in Readings(descs)
    BY ElementOfSeq
  <2> QED BY <2>1 DEF ReadsOf
<1> HIDE DEF n, Of
<1>3. 0 \in P
  BY <1>1 DEF SameAt
<1>4. ASSUME NEW k \in 0 .. n - 1, k \in P PROVE k + 1 \in P
  <2> DEFINE m == k + 1
             u == g[k]
             v == g[m]
             e == reads[m].desc
             t == reads[m].text
             val == Meaning(e.type, t)
  <2>1. m \in 1 .. n /\ m - 1 = k /\ k \in 0 .. n /\ m \in Nat /\ m + 1 .. m = {} /\ 1 .. m = 1 .. k \union {m}
    BY <1>1
  <2>2. /\ WellSet(u) /\ e \in descs /\ t \in Texts /\ MaySet(u, sct, e)
        /\ v = SetScalar(u, sct, e, t) /\ e.type \in {"dir", "text", "uint"}
        /\ (e.key = d.key => e = d)
    BY <1>1, <2>1 DEF Described
  <2> HIDE DEF u, v, e, t
  <2>3. IsSet(v, u, sct, e.key, val)
    BY <2>2, ScalarIsSet
  <2> HIDE DEF val
  <2>4. For(m) <=> e.key = d.key
    BY DEF e
  <2>5. CASE e.key = d.key
    <3>1. HasValue(v, key, Meaning(d.type, t))
      <4>1. val = Meaning(d.type, t)
        BY <2>2, <2>5 DEF val
      <4>2. key \in DOMAIN v /\ v[key].value = val
        BY <2>3, <2>5 DEF IsSet
      <4> QED BY <4>1, <4>2 DEF HasValue
    <3>2. \A i \in 1 .. k : m \in i + 1 .. m
      BY <2>1
    <3>3. Touched(m)
      BY <2>1, <2>4, <2>5, <3>1, <3>2 DEF v, t
    <3>4. Untouched(m)
      BY <2>1, <2>4, <2>5
    <3> QED BY <2>1, <3>3, <3>4
  <2>6. CASE e.key # d.key
    <3>1. SameAt(v, u, key)
      <4>1. <<sct, e.key>> # key
        BY <2>6
      <4> HIDE DEF key
      <4> QED BY <2>3, <4>1 DEF IsSet, SameAt
    <3>2. Untouched(m)
      <4>1. SUFFICES ASSUME \A i \in 1 .. m : ~ For(i) PROVE SameAt(v, s, key)
        BY DEF v
      <4>2. SameAt(u, s, key)
        <5>1. \A i \in 1 .. k : ~ For(i)
          BY <2>1, <4>1
        <5> QED BY <1>4, <5>1 DEF u
      <4> QED BY <3>1, <4>2 DEF SameAt
    <3>3. Touched(m)
      <4>1. SUFFICES ASSUME NEW i \in 1 .. m, For(i), \A j \in i + 1 .. m : ~ For(j)
                     PROVE  HasValue(v, key, Meaning(d.type, reads[i].text))
        BY DEF v
      <4>2. i \in 1 .. k /\ \A j \in i + 1 .. k : j \in i + 1 .. m
        BY <2>1, <2>4, <2>6, <4>1
      <4>3. HasValue(u, key, Meaning(d.type, reads[i].text))
        BY <1>4, <4>1, <4>2 DEF u
      <4> QED BY <3>1, <4>3 DEF SameAt, HasValue
    <3> QED BY <2>1, <3>2, <3>3
  <2> QED BY <2>5, <2>6
<1>5. n \in P
  <2> HIDE DEF P
  <2>1. \A k \in 0 .. n : k \in P
    BY <1>1, <1>3, <1>4, UptoInduction
  <2> QED BY <1>1, <2>1
<1>6. NoneOf(reads, Of) => SameAt(g[n], s, key)
  BY <1>2, <1>5 DEF NoneOf, n
<1>7. ASSUME NEW x, LastOf(reads, Of, x) PROVE HasValue(g[n], key, Meaning(d.type, x.text))
  <2>1. PICK i \in 1 .. n : reads[i] = x /\ x \in Of /\ \A j \in i + 1 .. n : reads[j] \notin Of
    BY <1>7 DEF LastOf, n
  <2>2. For(i) /\ \A j \in i + 1 .. n : ~ For(j)
    <3>1. \A j \in i + 1 .. n : j \in 1 .. n
      BY <1>1
    <3> QED BY <1>2, <2>1, <3>1
  <2>3. HasValue(g[n], key, Meaning(d.type, reads[i].text))
    BY <1>5, <2>2
  <2> QED BY <2>1, <2>3
<1> QED BY <1>6, <1>7 DEF n, Of

(* After the file is read, each setting is as written, or as it was.       *)
LEMMA RetrievedAsWritten ==
  ASSUME NEW s, WellSet(s), NEW yaml, yaml = Null \/ IsDocument(yaml), NEW sct, NEW descs,
         Described(s, sct, descs), NEW d \in descs, d.key # sct
  PROVE  AsWritten(RetrieveSettings(s, yaml, sct, descs), s, Lines(yaml), sct, d)
<1> DEFINE lines == Lines(yaml)
           u == RetrieveSettings(s, yaml, sct, descs)
           written == Written(lines, sct, d.key)
           key == <<sct, d.key>>
<1>1. CASE yaml = Null
  <2>1. u = s /\ lines = << >>
    BY <1>1 DEF RetrieveSettings, Lines
  <2> HIDE DEF u, lines
  <2>2. written = {}
    BY <2>1 DEF Written
  <2>3. AsWritten(u, s, lines, sct, d)
    BY <2>1, <2>2 DEF AsWritten
  <2> QED BY <2>3 DEF u, lines
<1>2. CASE yaml # Null
  <2> DEFINE reads == HandleYamlNode(yaml, sct, descs)
             n == Len(reads)
             K(g) == Sets(g, s, sct, reads, n)
             after == CHOOSE g : K(g)
             Of == ReadsOf(descs, d.key)
             For == LinesFor(yaml, sct, d.key)
             all == Len(lines)
  <2>1. u = after[n]
    BY <1>2 DEF RetrieveSettings, Sets
  <2>2. reads \in Seq(Readings(descs))
    BY <1>2, HandleYamlNodeIs
  <2>3. lines \in Seq(LinesOf(yaml)) /\ SameLast(reads, Of, lines, For)
    <3>1. \E e \in descs : e.key = d.key
      OBVIOUS
    <3> DEFINE k == d.key
    <3>2. sct # k /\ \E e \in descs : e.key = k
      BY <3>1
    <3> HIDE DEF k
    <3>3. /\ Lines(yaml) \in Seq(LinesOf(yaml))
          /\ SameLast(HandleYamlNode(yaml, sct, descs), ReadsOf(descs, k), Lines(yaml), LinesFor(yaml, sct, k))
      BY <1>2, <3>2, LastReadIsLastWritten
    <3> QED BY <3>3 DEF k
  <2> HIDE DEF reads, u, lines
  <2>4. \E g : K(g)
    <3>1. \A e \in descs : MaySet(s, sct, e)
      BY DEF Described
    <3> QED BY <2>2, <3>1, SetsExist
  <2>5. K(after)
    <3> HIDE DEF K
    <3> QED BY <2>4
  <2> HIDE DEF after
  <2>6. /\ NoneOf(reads, Of) => SameAt(after[n], s, key)
        /\ \A x : LastOf(reads, Of, x) => HasValue(after[n], key, Meaning(d.type, x.text))
    BY <2>2, <2>5, LastReadIsSet
  <2>7. all \in Nat /\ DOMAIN lines = 1 .. all /\ \A i \in 1 .. all : lines[i] \in LinesOf(yaml)
    BY <2>3, LenProperties, ElementOfSeq
  <2>8. written = {i \in 1 .. all : lines[i] \in For}
    BY <2>7 DEF Written, LinesFor
  <2> HIDE DEF Of, For, n, key
  <2>9. CASE written = {}
    <3>1. NoneOf(lines, For)
      BY <2>8, <2>9 DEF NoneOf
    <3>2. SameAt(u, s, key)
      BY <2>1, <2>3, <2>6, <3>1 DEF SameLast
    <3>3. key \in DOMAIN s => u[key] = s[key]
      BY <3>2 DEF SameAt
    <3>4. key \notin DOMAIN s => key \notin DOMAIN u
      BY <3>2 DEF SameAt
    <3>5. AsWritten(u, s, lines, sct, d)
      BY <2>9, <3>3, <3>4 DEF AsWritten, key
    <3> QED BY <3>5 DEF u, lines
  <2>10. CASE written # {}
    <3> DEFINE m == Max(written)
    <3>1. m \in written /\ \A i \in written : i <= m
      <4>1. written \in SUBSET Nat /\ \A i \in written : i <= all
        BY <2>7, <2>8
      <4> HIDE DEF written
      <4> QED BY <2>7, <2>10, <4>1, MaxIsGreatest
    <3> HIDE DEF m
    <3>2. LastOf(lines, For, lines[m])
      <4>1. m \in 1 .. all /\ lines[m] \in For
        BY <2>8, <3>1
      <4>2. \A j \in m + 1 .. all : lines[j] \notin For
        BY <2>7, <2>8, <3>1, <4>1
      <4> QED BY <4>1, <4>2 DEF LastOf
    <3>3. ~ NoneOf(reads, Of)
      BY <2>3, <3>2, LastIsOne DEF SameLast
    <3>4. PICK x : LastOf(reads, Of, x)
      <4>1. Len(reads) \in Nat
        BY <2>2, LenProperties
      <4> QED BY <3>3, <4>1, LastExists
    <3>5. x.text = lines[m].text
      BY <2>3, <3>2, <3>4 DEF SameLast
    <3>6. u[key].value = Meaning(d.type, lines[m].text)
      BY <2>1, <2>6, <3>4, <3>5 DEF HasValue
    <3>7. AsWritten(u, s, lines, sct, d)
      BY <2>10, <3>6 DEF AsWritten, m, key
    <3> QED BY <3>7 DEF u, lines
  <2> QED BY <2>9, <2>10
<1> QED BY <1>1, <1>2

-----------------------------------------------------------------------------
(* The settings the agent and the file plugin begin with                   *)

(* u is s with a value for the key k.                                      *)
Grows(u, s, k) == WellSet(u) /\ DOMAIN u = DOMAIN s \union {k}

LEMMA TextGrows ==
  ASSUME NEW s, WellSet(s), NEW sct, NEW key, <<sct, key>> \in Keys, KeyType(key) = "text", NEW t \in Texts
  PROVE  Grows(SetText(s, sct, key, t), s, <<sct, key>>)
<1>1. t \in ValuesOf(KeyType(key))
  BY DEF ValuesOf
<1>2. IsSet(Set(s, sct, key, t, "text"), s, sct, key, t)
  BY <1>1, SetIs
<1> QED BY <1>2 DEF IsSet, Grows, SetText

LEMMA DirGrows ==
  ASSUME NEW s, WellSet(s), NEW sct, NEW key, <<sct, key>> \in Keys, KeyType(key) = "dir", NEW t \in Texts
  PROVE  Grows(SetDir(s, sct, key, t), s, <<sct, key>>)
<1> DEFINE v == DirText(t)
<1>1. v \in ValuesOf(KeyType(key))
  BY DirTextIs DEF ValuesOf
<1> HIDE DEF v
<1>2. IsSet(Set(s, sct, key, v, "dir"), s, sct, key, v)
  BY <1>1, SetIs
<1> QED BY <1>2 DEF IsSet, Grows, SetDir, v

LEMMA UintGrows ==
  ASSUME NEW s, WellSet(s), NEW sct, NEW key, <<sct, key>> \in Keys, KeyType(key) = "uint", NEW n \in Nat
  PROVE  Grows(SetUint(s, sct, key, n), s, <<sct, key>>)
<1>1. n \in ValuesOf(KeyType(key))
  BY DEF ValuesOf
<1>2. IsSet(Set(s, sct, key, n, "uint"), s, sct, key, n)
  BY <1>1, SetIs
<1> QED BY <1>2 DEF IsSet, Grows, SetUint

LEMMA SizeGrows ==
  ASSUME NEW s, WellSet(s), NEW sct, NEW key, <<sct, key>> \in Keys, KeyType(key) = "byte_size",
         NEW d, d \in {"1", "2"}
  PROVE  Grows(SetByteSize(s, sct, key, <<d, "M">>), s, <<sct, key>>)
<1> DEFINE t == <<d, "M">>
           v == ByteSize(t)
<1>1. v # 0
  BY Megabytes
<1>2. v \in Nat
  <2>1. Len(t) \in Nat
    OBVIOUS
  <2> HIDE DEF t
  <2> QED BY <2>1, ByteSizeIsNat
<1>3. SetByteSize(s, sct, key, t) = Set(s, sct, key, v, "byte_size")
  BY <1>1 DEF SetByteSize
<1> HIDE DEF v
<1>4. v \in ValuesOf(KeyType(key))
  BY <1>2 DEF ValuesOf
<1>5. IsSet(Set(s, sct, key, v, "byte_size"), s, sct, key, v)
  BY <1>4, SetIs
<1> QED BY <1>3, <1>5 DEF IsSet, Grows

(* What type each setting has.                                             *)
LEMMA KeyTypesAre ==
  /\ \A key \in DirKeys : KeyType(key) = "dir" /\ <<"agent", key>> \in Keys
  /\ \A key \in TextKeys : KeyType(key) = "text" /\ <<"agent", key>> \in Keys
  /\ \A key \in SizeKeys : KeyType(key) = "byte_size" /\ <<"agent", key>> \in Keys
  /\ \A key \in AgentUints : KeyType(key) = "uint" /\ <<"agent", key>> \in Keys
  /\ \A key \in FileUints : KeyType(key) = "uint" /\ <<"file", key>> \in Keys
  /\ <<"file", "data-dir">> \in Keys
<1>1. /\ \A key \in DirKeys : KeyType(key) = "dir"
      /\ \A key \in TextKeys : KeyType(key) = "text"
      /\ \A key \in SizeKeys : KeyType(key) = "byte_size"
      /\ \A key \in AgentUints : KeyType(key) = "uint"
      /\ \A key \in FileUints : KeyType(key) = "uint"
  BY DEF KeyType, DirKeys, TextKeys, SizeKeys, AgentUints, FileUints
<1>2. /\ \A key \in DirKeys \union TextKeys \union SizeKeys \union AgentUints : <<"agent", key>> \in Keys
      /\ \A key \in {"data-dir"} \union FileUints : <<"file", key>> \in Keys
  BY DEF Keys
<1> QED BY <1>1, <1>2

PlatformKeys == {<<"agent", key>> : key \in DirKeys \union {"config-file"}}
AgentKeys ==
  PlatformKeys \union {<<"agent", key>> : key \in SizeKeys \union AgentUints \union {"heartbeat-recipient"}}
FileKeys == {<<"file", key>> : key \in {"data-dir"} \union FileUints}

LEMMA PlatformIs ==
  WellSet(PlatformSettings(Prefix)) /\ PlatformKeys \subseteq DOMAIN PlatformSettings(Prefix)
<1> DEFINE conf == <<Sep, "etc", Sep, "yella.yaml">>
           var == <<Sep, "var", Sep>>
           data == var \o <<"lib", Sep, "yella">>
           spool == var \o <<"spool", Sep, "yella">>
           plugin == Prefix \o <<Sep, "plugin">>
           bin == Prefix \o <<Sep, "bin">>
           s1 == SetText(NoSettings, "agent", "config-file", conf)
           s2 == SetDir(s1, "agent", "data-dir", data)
           s3 == SetDir(s2, "agent", "spool-dir", spool)
           s4 == SetDir(s3, "agent", "plugin-dir", plugin)
           s5 == SetDir(s4, "agent", "bin-dir", bin)
<1>1. conf \in Texts /\ data \in Texts /\ spool \in Texts /\ plugin \in Texts /\ bin \in Texts
  <2>1. /\ conf \in Texts /\ var \in Texts /\ <<"lib", Sep, "yella">> \in Texts
        /\ <<"spool", Sep, "yella">> \in Texts /\ <<Sep, "plugin">> \in Texts /\ <<Sep, "bin">> \in Texts
    BY CharactersAre DEF Texts
  <2> HIDE DEF var
  <2>2. \A a, b \in Texts : a \o b \in Texts
    BY ConcatProperties DEF Texts
  <2> QED BY <2>1, <2>2, CharactersAre
<1>2. PlatformSettings(Prefix) = s5
  BY DEF PlatformSettings
<1> HIDE DEF conf, var, data, spool, plugin, bin
<1>3. WellSet(NoSettings)
  BY DEF NoSettings, WellSet
<1>4. /\ \A key \in {"data-dir", "spool-dir", "plugin-dir", "bin-dir"} : KeyType(key) = "dir" /\ <<"agent", key>> \in Keys
      /\ KeyType("config-file") = "text" /\ <<"agent", "config-file">> \in Keys
  BY KeyTypesAre DEF DirKeys, TextKeys
<1>5. Grows(s1, NoSettings, <<"agent", "config-file">>)
  BY <1>1, <1>3, <1>4, TextGrows
<1> HIDE DEF s1
<1>6. Grows(s2, s1, <<"agent", "data-dir">>)
  <2>1. WellSet(s1)
    BY <1>5 DEF Grows
  <2> QED BY <1>1, <1>4, <2>1, DirGrows
<1> HIDE DEF s2
<1>7. Grows(s3, s2, <<"agent", "spool-dir">>)
  <2>1. WellSet(s2)
    BY <1>6 DEF Grows
  <2> QED BY <1>1, <1>4, <2>1, DirGrows
<1> HIDE DEF s3
<1>8. Grows(s4, s3, <<"agent", "plugin-dir">>)
  <2>1. WellSet(s3)
    BY <1>7 DEF Grows
  <2> QED BY <1>1, <1>4, <2>1, DirGrows
<1> HIDE DEF s4
<1>9. Grows(s5, s4, <<"agent", "bin-dir">>)
  <2>1. WellSet(s4)
    BY <1>8 DEF Grows
  <2> QED BY <1>1, <1>4, <2>1, DirGrows
<1> HIDE DEF s5
<1>10. /\ WellSet(s5)
       /\ \A key \in {"config-file", "data-dir", "spool-dir", "plugin-dir", "bin-dir"} : <<"agent", key>> \in DOMAIN s5
  BY <1>5, <1>6, <1>7, <1>8, <1>9 DEF Grows
<1> QED BY <1>2, <1>10 DEF PlatformKeys, DirKeys

LEMMA AgentDefaultsAre ==
  ASSUME NEW s, WellSet(s), PlatformKeys \subseteq DOMAIN s
  PROVE  WellSet(AgentDefaults(s)) /\ AgentKeys \subseteq DOMAIN AgentDefaults(s)
<1> DEFINE s1 == SetUint(s, "agent", "max-spool-partitions", 1000)
           s2 == SetByteSize(s1, "agent", "max-spool-partition-size", <<"2", "M">>)
           s3 == SetUint(s2, "agent", "heartbeat-seconds", 30)
           s4 == SetUint(s3, "agent", "start-connection-seconds", 2)
           s5 == SetByteSize(s4, "agent", "max-message-size", <<"1", "M">>)
           s6 == SetUint(s5, "agent", "reconnect-timeout-seconds", 5)
           s7 == SetUint(s6, "agent", "poll-milliseconds", 500)
           s8 == SetText(s7, "agent", "heartbeat-recipient", <<"yella.stethoscope">>)
<1>1. <<"yella.stethoscope">> \in Texts
  BY CharactersAre DEF Texts
<1>2. AgentDefaults(s) = s8
  BY DEF AgentDefaults
<1>3. /\ \A key \in {"max-spool-partitions", "heartbeat-seconds", "start-connection-seconds",
                     "reconnect-timeout-seconds", "poll-milliseconds"} :
           KeyType(key) = "uint" /\ <<"agent", key>> \in Keys
      /\ \A key \in {"max-spool-partition-size", "max-message-size"} :
           KeyType(key) = "byte_size" /\ <<"agent", key>> \in Keys
      /\ KeyType("heartbeat-recipient") = "text" /\ <<"agent", "heartbeat-recipient">> \in Keys
  BY KeyTypesAre DEF AgentUints, SizeKeys, TextKeys
<1>4. Grows(s1, s, <<"agent", "max-spool-partitions">>)
  BY <1>3, UintGrows
<1> HIDE DEF s1
<1>5. Grows(s2, s1, <<"agent", "max-spool-partition-size">>)
  <2>1. WellSet(s1)
    BY <1>4 DEF Grows
  <2> QED BY <1>3, <2>1, SizeGrows
<1> HIDE DEF s2
<1>6. Grows(s3, s2, <<"agent", "heartbeat-seconds">>)
  <2>1. WellSet(s2)
    BY <1>5 DEF Grows
  <2> QED BY <1>3, <2>1, UintGrows
<1> HIDE DEF s3
<1>7. Grows(s4, s3, <<"agent", "start-connection-seconds">>)
  <2>1. WellSet(s3)
    BY <1>6 DEF Grows
  <2> QED BY <1>3, <2>1, UintGrows
<1> HIDE DEF s4
<1>8. Grows(s5, s4, <<"agent", "max-message-size">>)
  <2>1. WellSet(s4)
    BY <1>7 DEF Grows
  <2> QED BY <1>3, <2>1, SizeGrows
<1> HIDE DEF s5
<1>9. Grows(s6, s5, <<"agent", "reconnect-timeout-seconds">>)
  <2>1. WellSet(s5)
    BY <1>8 DEF Grows
  <2> QED BY <1>3, <2>1, UintGrows
<1> HIDE DEF s6
<1>10. Grows(s7, s6, <<"agent", "poll-milliseconds">>)
  <2>1. WellSet(s6)
    BY <1>9 DEF Grows
  <2> QED BY <1>3, <2>1, UintGrows
<1> HIDE DEF s7
<1>11. Grows(s8, s7, <<"agent", "heartbeat-recipient">>)
  <2>1. WellSet(s7)
    BY <1>10 DEF Grows
  <2> QED BY <1>1, <1>3, <2>1, TextGrows
<1> HIDE DEF s8
<1>12. /\ WellSet(s8) /\ DOMAIN s \subseteq DOMAIN s8
       /\ \A key \in {"max-spool-partitions", "heartbeat-seconds", "start-connection-seconds",
                      "reconnect-timeout-seconds", "poll-milliseconds", "max-spool-partition-size",
                      "max-message-size", "heartbeat-recipient"} : <<"agent", key>> \in DOMAIN s8
  BY <1>4, <1>5, <1>6, <1>7, <1>8, <1>9, <1>10, <1>11 DEF Grows
<1> QED BY <1>2, <1>12 DEF AgentKeys, SizeKeys, AgentUints

LEMMA FileDefaultsAre ==
  ASSUME NEW s, WellSet(s), <<"agent", "data-dir">> \in DOMAIN s
  PROVE  /\ WellSet(FileDefaults(s)) /\ DOMAIN s \subseteq DOMAIN FileDefaults(s)
         /\ FileKeys \subseteq DOMAIN FileDefaults(s)
<1> DEFINE dir == Append(Get(s, "agent", "data-dir", "dir"), "file")
           s1 == SetDir(s, "file", "data-dir", dir)
           s2 == SetUint(s1, "file", "max-spool-dbs", 100)
           s3 == SetUint(s2, "file", "fs-monitor-latency-seconds", 5)
           s4 == SetUint(s3, "file", "send-latency-seconds", 15)
           s5 == SetUint(s4, "file", "max-queued-jobs", 10000)
<1>1. KeyType("data-dir") = "dir"
  BY KeyTypesAre DEF DirKeys
<1>2. dir \in Texts
  <2>1. Get(s, "agent", "data-dir", KeyType("data-dir")) \in ValuesOf(KeyType("data-dir"))
    BY GetIs
  <2>2. Get(s, "agent", "data-dir", "dir") \in Texts
    BY <1>1, <2>1 DEF ValuesOf, DirTexts
  <2> QED BY <2>2, CharactersAre, AppendProperties DEF Texts
<1>3. FileDefaults(s) = s5
  BY DEF FileDefaults
<1> HIDE DEF dir
<1>4. /\ \A key \in {"max-spool-dbs", "fs-monitor-latency-seconds", "send-latency-seconds", "max-queued-jobs"} :
           KeyType(key) = "uint" /\ <<"file", key>> \in Keys
      /\ <<"file", "data-dir">> \in Keys
  BY KeyTypesAre DEF FileUints
<1>5. Grows(s1, s, <<"file", "data-dir">>)
  BY <1>1, <1>2, <1>4, DirGrows
<1> HIDE DEF s1
<1>6. Grows(s2, s1, <<"file", "max-spool-dbs">>)
  <2>1. WellSet(s1)
    BY <1>5 DEF Grows
  <2> QED BY <1>4, <2>1, UintGrows
<1> HIDE DEF s2
<1>7. Grows(s3, s2, <<"file", "fs-monitor-latency-seconds">>)
  <2>1. WellSet(s2)
    BY <1>6 DEF Grows
  <2> QED BY <1>4, <2>1, UintGrows
<1> HIDE DEF s3
<1>8. Grows(s4, s3, <<"file", "send-latency-seconds">>)
  <2>1. WellSet(s3)
    BY <1>7 DEF Grows
  <2> QED BY <1>4, <2>1, UintGrows
<1> HIDE DEF s4
<1>9. Grows(s5, s4, <<"file", "max-queued-jobs">>)
  <2>1. WellSet(s4)
    BY <1>8 DEF Grows
  <2> QED BY <1>4, <2>1, UintGrows
<1> HIDE DEF s5
<1>10. /\ WellSet(s5) /\ DOMAIN s \subseteq DOMAIN s5
       /\ \A key \in {"data-dir", "max-spool-dbs", "fs-monitor-latency-seconds", "send-latency-seconds",
                      "max-queued-jobs"} : <<"file", key>> \in DOMAIN s5
  BY <1>5, <1>6, <1>7, <1>8, <1>9 DEF Grows
<1> QED BY <1>3, <1>10 DEF FileKeys, FileUints

(* Each key of the agent and of the file plugin is described once.         *)
LEMMA AgentDescribed ==
  ASSUME NEW s, WellSet(s), PlatformKeys \subseteq DOMAIN s
  PROVE  Described(AgentDefaults(s), "agent", AgentDescs) /\ \A d \in AgentDescs : d.key # "agent"
<1> DEFINE t == AgentDefaults(s)
<1>1. WellSet(t) /\ AgentKeys \subseteq DOMAIN t
  BY AgentDefaultsAre
<1> HIDE DEF t
<1>2. ASSUME NEW d \in AgentDescs
      PROVE  /\ d = Desc(d.key, d.type)
             /\ \/ d.type = "dir" /\ d.key \in DirKeys
                \/ d.type = "text" /\ d.key \in TextKeys
                \/ d.type = "uint" /\ d.key \in AgentUints \union SizeKeys
  <2>1. PICK key, type : /\ d = Desc(key, type)
                         /\ \/ type = "dir" /\ key \in DirKeys
                            \/ type = "text" /\ key \in TextKeys
                            \/ type = "uint" /\ key \in AgentUints \union SizeKeys
    <3>1. \/ \E k \in DirKeys : d = Desc(k, "dir")
          \/ \E k \in TextKeys : d = Desc(k, "text")
          \/ \E k \in AgentUints \union SizeKeys : d = Desc(k, "uint")
      BY DEF AgentDescs, DirKeys, TextKeys, AgentUints, SizeKeys
    <3> QED BY <3>1
  <2>2. d.key = key /\ d.type = type
    BY <2>1 DEF Desc
  <2> QED BY <2>1, <2>2
<1>3. ASSUME NEW d \in AgentDescs PROVE MaySet(t, "agent", d) /\ d.type \in {"dir", "text", "uint"}
  <2>1. \A key \in SizeKeys : <<"agent", key>> \in DOMAIN t
    BY <1>1 DEF AgentKeys
  <2> QED BY <1>2, <2>1, KeyTypesAre DEF MaySet
<1>4. ASSUME NEW d \in AgentDescs, NEW e \in AgentDescs, d.key = e.key PROVE d = e
  <2>1. d.type = e.type
    BY <1>2, <1>4 DEF DirKeys, TextKeys, AgentUints, SizeKeys
  <2> QED BY <1>2, <1>4, <2>1
<1>5. \A d \in AgentDescs : d.key # "agent"
  BY <1>2 DEF DirKeys, TextKeys, AgentUints, SizeKeys
<1> QED BY <1>3, <1>4, <1>5 DEF Described, t

LEMMA FileDescribed ==
  ASSUME NEW t, WellSet(t)
  PROVE  Described(t, "file", FileDescs) /\ \A d \in FileDescs : d.key # "file"
<1>1. ASSUME NEW d \in FileDescs
      PROVE  /\ d = Desc(d.key, d.type)
             /\ \/ d.type = "dir" /\ d.key = "data-dir"
                \/ d.type = "uint" /\ d.key \in FileUints
  <2>1. CASE d = Desc("data-dir", "dir")
    <3>1. d.key = "data-dir" /\ d.type = "dir"
      BY <2>1 DEF Desc
    <3> QED BY <2>1, <3>1
  <2>2. CASE \E k \in FileUints : d = Desc(k, "uint")
    BY <2>2 DEF Desc
  <2> QED BY <2>1, <2>2 DEF FileDescs, FileUints
<1>2. ASSUME NEW d \in FileDescs PROVE MaySet(t, "file", d) /\ d.type \in {"dir", "text", "uint"}
  <2>1. KeyType("data-dir") = "dir"
    BY KeyTypesAre DEF DirKeys
  <2> QED BY <1>1, <2>1, KeyTypesAre DEF MaySet
<1>3. ASSUME NEW d \in FileDescs, NEW e \in FileDescs, d.key = e.key PROVE d = e
  <2>1. d.type = e.type
    BY <1>1, <1>3 DEF FileUints
  <2> QED BY <1>1, <1>3, <2>1
<1>4. \A d \in FileDescs : d.key # "file"
  BY <1>1 DEF FileUints
<1> QED BY <1>2, <1>3, <1>4 DEF Described

(* Once the defaults are set, the file may be read.  A size is described   *)
(* as a number, which changes what is there and not its type.              *)
LEMMA AgentRetrieved ==
  ASSUME NEW s, WellSet(s), PlatformKeys \subseteq DOMAIN s, NEW yaml, yaml = Null \/ IsDocument(yaml)
  PROVE  WellSet(RetrieveAgentSettings(s, yaml)) /\ AgentKeys \subseteq DOMAIN RetrieveAgentSettings(s, yaml)
<1> DEFINE t == AgentDefaults(s)
           sct == "agent"
           descs == AgentDescs
<1>1. WellSet(t) /\ AgentKeys \subseteq DOMAIN t
  BY AgentDefaultsAre
<1> HIDE DEF t
<1>2. \A d \in AgentDescs : MaySet(t, "agent", d)
  BY AgentDescribed DEF Described, t
<1>3. RetrieveAgentSettings(s, yaml) = RetrieveSettings(t, yaml, sct, descs)
  BY DEF RetrieveAgentSettings, t
<1>4. \A d \in descs : MaySet(t, sct, d)
  BY <1>2
<1> HIDE DEF sct, descs
<1>5. WellSet(RetrieveSettings(t, yaml, sct, descs)) /\ Extends(RetrieveSettings(t, yaml, sct, descs), t, sct)
  BY <1>1, <1>4, RetrieveIs
<1> QED BY <1>1, <1>3, <1>5 DEF Extends

LEMMA FileRetrieved ==
  ASSUME NEW s, WellSet(s), AgentKeys \subseteq DOMAIN s, NEW yaml, yaml = Null \/ IsDocument(yaml)
  PROVE  /\ WellSet(RetrieveFileSettings(s, yaml)) /\ DOMAIN s \subseteq DOMAIN RetrieveFileSettings(s, yaml)
         /\ FileKeys \subseteq DOMAIN RetrieveFileSettings(s, yaml)
<1> DEFINE t == FileDefaults(s)
           sct == "file"
           descs == FileDescs
<1>1. WellSet(t) /\ DOMAIN s \subseteq DOMAIN t /\ FileKeys \subseteq DOMAIN t
  BY FileDefaultsAre DEF AgentKeys, PlatformKeys, DirKeys
<1> HIDE DEF t
<1>2. \A d \in FileDescs : MaySet(t, "file", d)
  BY <1>1, FileDescribed DEF Described
<1>3. RetrieveFileSettings(s, yaml) = RetrieveSettings(t, yaml, sct, descs)
  BY DEF RetrieveFileSettings, t
<1>4. \A d \in descs : MaySet(t, sct, d)
  BY <1>2
<1> HIDE DEF sct, descs
<1>5. WellSet(RetrieveSettings(t, yaml, sct, descs)) /\ Extends(RetrieveSettings(t, yaml, sct, descs), t, sct)
  BY <1>1, <1>4, RetrieveIs
<1> QED BY <1>1, <1>3, <1>5 DEF Extends

-----------------------------------------------------------------------------
(* The settings are there                                                  *)

(* The settings that are there as the agent goes on: those of the platform *)
(* before the file is read, those of the agent after that, those of the    *)
(* file plugin once it runs, and the router's once there is a worker.      *)
SettingsKept ==
  /\ WellSet(settings)
  /\ main # "off" => PlatformKeys \subseteq DOMAIN settings
  /\ main \notin {"off", "settings"} => AgentKeys \subseteq DOMAIN settings
  /\ main \in {"off", "settings"} => running = {}
  /\ File \in running => FileKeys \subseteq DOMAIN settings
  /\ worker # "none" => <<"agent", "router">> \in DOMAIN settings
  /\ doc # Null => DocIsKept /\ doc \in {LoadSettingsDoc(f) : f \in ConfigFiles}

(* What is loaded is a document or none.                                   *)
LEMMA Loaded ==
  ASSUME NEW yaml, yaml # Null => yaml \in {LoadSettingsDoc(f) : f \in ConfigFiles}
  PROVE  yaml = Null \/ IsDocument(yaml)
<1>1. ASSUME NEW f \in ConfigFiles PROVE LoadSettingsDoc(f) = Null \/ IsDocument(LoadSettingsDoc(f))
  BY AgentAssumption DEF LoadSettingsDoc
<1> QED BY <1>1

LEMMA SInit == Init => SettingsKept
<1> SUFFICES ASSUME Init PROVE SettingsKept
  OBVIOUS
<1>1. WellSet(NoSettings)
  BY DEF NoSettings, WellSet
<1> QED BY <1>1 DEF Init, SettingsKept

LEMMA SExit ==
  ASSUME Exit
  PROVE  SettingsKept'
<1>1. WellSet(NoSettings)
  BY DEF NoSettings, WellSet
<1>2. WellSet(settings)'
  BY <1>1 DEF Exit, WellSet
<1> QED BY <1>2 DEF Exit, SettingsKept

(* A step that sets nothing.                                               *)
LEMMA SQuiet ==
  ASSUME SettingsKept, settings' = settings, doc' = Null \/ (doc' = doc /\ (DocIsKept => DocIsKept')),
         running' \subseteq running, worker' # "none" => worker # "none",
         main' = main \/ {main, main'} \intersect {"off", "settings"} = {}
  PROVE  SettingsKept'
<1>1. WellSet(settings)'
  BY DEF SettingsKept, WellSet
<1>2. /\ main' # "off" => PlatformKeys \subseteq DOMAIN settings'
      /\ main' \notin {"off", "settings"} => AgentKeys \subseteq DOMAIN settings'
      /\ main' \in {"off", "settings"} => running' = {}
      /\ File \in running' => FileKeys \subseteq DOMAIN settings'
      /\ worker' # "none" => <<"agent", "router">> \in DOMAIN settings'
  BY DEF SettingsKept
<1>3. doc' # Null => DocIsKept' /\ doc' \in {LoadSettingsDoc(f) : f \in ConfigFiles}
  BY DEF SettingsKept
<1> QED BY <1>1, <1>2, <1>3 DEF SettingsKept

LEMMA SBoot == ASSUME AInv, SettingsKept, Boot PROVE SettingsKept'
<1>1. WellSet(settings)' /\ PlatformKeys \subseteq DOMAIN settings'
  BY PlatformIs DEF Boot, WellSet
<1>2. main' = "settings" /\ main = "off" /\ doc' = doc /\ running' = running /\ worker' = worker
  BY DEF Boot, plugins, threads
<1>3. running = {} /\ worker = "none" /\ doc = Null
  BY <1>2 DEF SettingsKept, AInv, ThreadsFollowMain, BeforePlugins, DocIsKept
<1> QED BY <1>1, <1>2, <1>3 DEF SettingsKept

LEMMA SLoadSettings == ASSUME AInv, SettingsKept, LoadSettings PROVE SettingsKept'
<1>1. /\ main = "settings" /\ main' = "dirs" /\ running' = running /\ worker' = worker
      /\ settings' = RetrieveAgentSettings(settings, doc')
  BY DEF LoadSettings, plugins, threads
<1>2. doc' # Null => doc' \in {LoadSettingsDoc(f) : f \in ConfigFiles}
  <2>1. PICK f \in ConfigFiles \union {Null} : doc' = LoadSettingsDoc(f)
    BY DEF LoadSettings
  <2>2. LoadSettingsDoc(Null) = Null
    BY DEF LoadSettingsDoc
  <2> QED BY <2>1, <2>2
<1>3. doc' = Null \/ IsDocument(doc')
  <2> DEFINE yaml == doc'
  <2>1. yaml # Null => yaml \in {LoadSettingsDoc(f) : f \in ConfigFiles}
    BY <1>2
  <2> HIDE DEF yaml
  <2>2. yaml = Null \/ IsDocument(yaml)
    BY <2>1, Loaded
  <2> QED BY <2>2 DEF yaml
<1>4. WellSet(settings') /\ AgentKeys \subseteq DOMAIN settings'
  <2> DEFINE yaml == doc'
             s == settings
             t == RetrieveAgentSettings(s, yaml)
  <2>1. WellSet(s) /\ PlatformKeys \subseteq DOMAIN s /\ (yaml = Null \/ IsDocument(yaml))
    BY <1>1, <1>3 DEF SettingsKept
  <2>2. settings' = t
    BY <1>1
  <2> HIDE DEF yaml, s
  <2>3. WellSet(t) /\ AgentKeys \subseteq DOMAIN t
    BY <2>1, AgentRetrieved
  <2> HIDE DEF t
  <2> QED BY <2>2, <2>3
<1>5. WellSet(settings)'
  BY <1>4 DEF WellSet
<1>6. worker = "none" /\ running = {}
  BY <1>1 DEF AInv, ThreadsFollowMain, BeforePlugins, BeforeState, SettingsKept
<1>7. PlatformKeys \subseteq AgentKeys
  BY DEF AgentKeys
<1> QED BY <1>1, <1>2, <1>4, <1>5, <1>6, <1>7 DEF SettingsKept, DocIsKept

LEMMA SLoadPlugin == ASSUME AInv, SettingsKept, LoadPlugin PROVE SettingsKept'
<1> DEFINE p == PluginDir[place]
<1>1. /\ main = "plugins" /\ main' = main /\ doc' = doc /\ worker' = worker
      /\ running' \subseteq running \union {p}
      /\ settings' = IF p = File THEN RetrieveFileSettings(settings, doc) ELSE settings
  BY DEF LoadPlugin, plugins, threads
<1>2. WellSet(settings) /\ AgentKeys \subseteq DOMAIN settings /\ PlatformKeys \subseteq AgentKeys
  BY <1>1 DEF SettingsKept, AgentKeys
<1>3. /\ WellSet(settings') /\ DOMAIN settings \subseteq DOMAIN settings'
      /\ p = File => FileKeys \subseteq DOMAIN settings'
  <2> DEFINE yaml == doc
             s == settings
             t == RetrieveFileSettings(s, yaml)
  <2>1. yaml # Null => yaml \in {LoadSettingsDoc(f) : f \in ConfigFiles}
    BY DEF SettingsKept
  <2>2. WellSet(s) /\ AgentKeys \subseteq DOMAIN s
    BY <1>2
  <2>3. settings' = IF p = File THEN t ELSE s
    BY <1>1
  <2> HIDE DEF yaml, p
  <2>4. yaml = Null \/ IsDocument(yaml)
    BY <2>1, Loaded
  <2> HIDE DEF s
  <2>5. WellSet(t) /\ DOMAIN s \subseteq DOMAIN t /\ FileKeys \subseteq DOMAIN t
    BY <2>2, <2>4, FileRetrieved
  <2> HIDE DEF t
  <2>6. WellSet(settings') /\ DOMAIN s \subseteq DOMAIN settings' /\ (p = File => FileKeys \subseteq DOMAIN settings')
    BY <2>2, <2>3, <2>5
  <2> QED BY <2>6 DEF s
<1>4. WellSet(settings)'
  BY <1>3 DEF WellSet
<1> HIDE DEF p
<1>5. File \in running' => FileKeys \subseteq DOMAIN settings'
  BY <1>1, <1>3 DEF SettingsKept
<1>6. worker' # "none" => <<"agent", "router">> \in DOMAIN settings'
  BY <1>1, <1>3 DEF SettingsKept
<1>7. doc' # Null => DocIsKept' /\ doc' \in {LoadSettingsDoc(f) : f \in ConfigFiles}
  BY <1>1 DEF SettingsKept, DocIsKept
<1>8. PlatformKeys \subseteq DOMAIN settings' /\ AgentKeys \subseteq DOMAIN settings'
  BY <1>2, <1>3
<1> QED BY <1>1, <1>4, <1>5, <1>6, <1>7, <1>8 DEF SettingsKept

(* The worker starts only if the router is set.                            *)
LEMMA SStartRouter == ASSUME SettingsKept, StartRouter PROVE SettingsKept'
<1>1. <<"agent", "router">> \in DOMAIN settings
  BY DEF StartRouter, Router, Setting, Get
<1>2. /\ main = "router" /\ main' = "plugins" /\ doc' = doc /\ settings' = settings /\ running' = running
  BY DEF StartRouter, startup, plugins
<1>3. WellSet(settings)'
  BY <1>2 DEF SettingsKept, WellSet
<1> QED BY <1>1, <1>2, <1>3 DEF SettingsKept, DocIsKept

(* Every step of the agent keeps its settings.                             *)
LEMMA SNext == AInv /\ SettingsKept /\ [Next]_vars => SettingsKept'
<1> SUFFICES ASSUME AInv, SettingsKept, [Next]_vars PROVE SettingsKept'
  OBVIOUS
<1>1. ASSUME \/ Crash \/ NoDir \/ NoRouter \/ RouterFails \/ (MakeDir /\ Exit)
             \/ (\E p \in Plugins : MemoryIsLost(p)) \/ PluginsStopped
      PROVE  SettingsKept'
  BY <1>1, SExit DEF Crash, NoDir, NoRouter, RouterFails, MakeDir, MemoryIsLost, PluginsStopped, After
<1>2. ASSUME \/ Signal \/ LookAtDir \/ DirsReady \/ (MakeDir /\ ~Exit) \/ (\E d \in OwnDirs : Meddle(d))
             \/ KeepState \/ ResetState \/ Hang \/ OpenFails \/ Truncate \/ Write
             \/ UNCHANGED vars
      PROVE  SettingsKept'
  <2>1. /\ settings' = settings /\ doc' = doc /\ running' = running /\ worker' = worker
        /\ \/ main' = main
           \/ {main, main'} \subseteq {"dirs", "mkdir", "load", "hung", "save", "write", "router"}
    BY <1>2 DEF Signal, LookAtDir, DirsReady, MakeDir, Meddle, KeepState, ResetState, Hang, OpenFails, Truncate,
                Write, vars, startup, plugins, threads, disk
  <2>2. DocIsKept => DocIsKept'
    BY <2>1 DEF DocIsKept
  <2> QED BY <2>1, <2>2, SQuiet
<1>3. ASSUME \/ PluginsLoaded \/ StartHeartbeat \/ SetCallback \/ Terminate \/ HeartbeatJoined
             \/ DestroySenders \/ RouterDestroyed \/ FreeHandlers
             \/ StopPlugin \/ Beat \/ AskPlugin \/ SendHeartbeat \/ HeartbeatEnds
             \/ (\E t \in Types : Dispatch(t)) \/ HandlerReturns \/ WorkerEnds
             \/ (\E p \in Plugins : PluginSends(p))
      PROVE  SettingsKept'
  <2>1. /\ settings' = settings /\ running' \subseteq running /\ (worker' # "none" => worker # "none")
        /\ \/ main' = main /\ doc' = doc
           \/ main = "plugins" /\ main' = "beat" /\ doc' = Null
           \/ /\ doc' = doc /\ main \in {"beat", "callback", "serve", "join", "senders", "worker", "handlers"}
              /\ main' \in {"callback", "serve", "join", "senders", "worker", "handlers", "stop"}
    BY <1>3 DEF PluginsLoaded, StartHeartbeat, SetCallback, Terminate, HeartbeatJoined, DestroySenders,
                RouterDestroyed, FreeHandlers, After, StopPlugin, Beat, AskPlugin, SendHeartbeat, HeartbeatEnds,
                Dispatch, CanDispatch, HandlerReturns, WorkerEnds, PluginSends, startup, plugins, threads, disk
  <2>2. doc' = Null \/ (doc' = doc /\ (DocIsKept => DocIsKept'))
    BY <2>1 DEF DocIsKept
  <2> QED BY <2>1, <2>2, SQuiet
<1>4. CASE Next
  BY <1>1, <1>2, <1>3, <1>4, SBoot, SLoadSettings, SLoadPlugin, SStartRouter DEF Next
<1> QED BY <1>2, <1>4

(* The settings are kept.                                                  *)
THEOREM SettingsAreKept == Spec => []SettingsKept
BY AInvHolds, SInit, SNext, PTL DEF Spec

(* Whatever is written in the configuration file, no getter whose result   *)
(* the agent or the file plugin uses unseen returns NULL.  (agent.c:355,   *)
(* file_plugin.c:551, settings.c:218)                                      *)
THEOREM NoSettingIsMissing == Spec => []SettingsAreThere
<1>1. SettingsKept => SettingsAreThere
  <2> SUFFICES ASSUME SettingsKept PROVE SettingsAreThere
    OBVIOUS
  <2>1. ASSUME AgentIsSet, NEW d \in Dereferenced PROVE Setting("agent", d.key, d.type) # Null
    <3>1. AgentKeys \subseteq DOMAIN settings /\ WellSet(settings)
      BY <2>1 DEF AgentIsSet, SettingsKept
    <3>2. \/ d.type = "dir" /\ d.key \in DirKeys
          \/ d.type = "text" /\ d.key = "heartbeat-recipient"
          \/ d.type = "uint" /\ d.key \in AgentUints
          \/ d.type = "byte_size" /\ d.key \in SizeKeys
      BY <2>1 DEF Dereferenced, AgentDescs, Desc, DirKeys, AgentUints, SizeKeys
    <3>3. d.type = KeyType(d.key) /\ <<"agent", d.key>> \in AgentKeys
      BY <3>2, KeyTypesAre DEF AgentKeys, PlatformKeys, TextKeys
    <3> DEFINE key == d.key
    <3>4. <<"agent", key>> \in DOMAIN settings /\ d.type = KeyType(key)
      BY <3>1, <3>3
    <3> HIDE DEF key
    <3>5. Get(settings, "agent", key, KeyType(key)) # Null
      BY <3>1, <3>4, GetIs
    <3> QED BY <3>4, <3>5 DEF Setting, key
  <2>2. ASSUME worker # "none" PROVE Router # Null
    <3>1. <<"agent", "router">> \in DOMAIN settings /\ WellSet(settings)
      BY <2>2 DEF SettingsKept
    <3>2. KeyType("router") = "text"
      BY KeyTypesAre DEF TextKeys
    <3>3. Get(settings, "agent", "router", KeyType("router")) # Null
      BY <3>1, GetIs
    <3> QED BY <3>2, <3>3 DEF Router, Setting
  <2>3. ASSUME FileIsSet, NEW d \in FileDescs PROVE Setting("file", d.key, d.type) # Null
    <3>1. FileKeys \subseteq DOMAIN settings /\ WellSet(settings)
      BY <2>3 DEF FileIsSet, SettingsKept
    <3>2. \/ d.type = "dir" /\ d.key = "data-dir"
          \/ d.type = "uint" /\ d.key \in FileUints
      BY <2>3 DEF FileDescs, Desc, FileUints
    <3>3. d.type = KeyType(d.key) /\ <<"file", d.key>> \in FileKeys
      BY <3>2, KeyTypesAre DEF FileKeys, DirKeys
    <3> DEFINE key == d.key
    <3>4. <<"file", key>> \in DOMAIN settings /\ d.type = KeyType(key)
      BY <3>1, <3>3
    <3> HIDE DEF key
    <3>5. Get(settings, "file", key, KeyType(key)) # Null
      BY <3>1, <3>4, GetIs
    <3> QED BY <3>4, <3>5 DEF Setting, key
  <2> QED BY <2>1, <2>2, <2>3 DEF SettingsAreThere
<1> QED BY <1>1, SettingsAreKept, PTL

-----------------------------------------------------------------------------
(* The settings are as written                                             *)

(* The defaults of the file plugin depend on the agent's directory alone.  *)
LEMMA FileDefaultsAt ==
  ASSUME NEW s, WellSet(s), <<"agent", "data-dir">> \in DOMAIN s
  PROVE  LET f == FileDefaults(s)
             dir == Append(Get(s, "agent", "data-dir", "dir"), "file")
         IN  /\ f[<<"file", "data-dir">>] = [value |-> DirText(dir), type |-> KeyType("data-dir")]
             /\ f[<<"file", "max-spool-dbs">>] = [value |-> 100, type |-> KeyType("max-spool-dbs")]
             /\ f[<<"file", "fs-monitor-latency-seconds">>] =
                  [value |-> 5, type |-> KeyType("fs-monitor-latency-seconds")]
             /\ f[<<"file", "send-latency-seconds">>] = [value |-> 15, type |-> KeyType("send-latency-seconds")]
             /\ f[<<"file", "max-queued-jobs">>] = [value |-> 10000, type |-> KeyType("max-queued-jobs")]
<1> DEFINE dir == Append(Get(s, "agent", "data-dir", "dir"), "file")
           v == DirText(dir)
           Entry(key, val) == [value |-> val, type |-> KeyType(key)]
           s1 == SetDir(s, "file", "data-dir", dir)
           s2 == SetUint(s1, "file", "max-spool-dbs", 100)
           s3 == SetUint(s2, "file", "fs-monitor-latency-seconds", 5)
           s4 == SetUint(s3, "file", "send-latency-seconds", 15)
           s5 == SetUint(s4, "file", "max-queued-jobs", 10000)
<1>1. KeyType("data-dir") = "dir"
  BY KeyTypesAre DEF DirKeys
<1>2. v \in ValuesOf(KeyType("data-dir"))
  <2>1. Get(s, "agent", "data-dir", KeyType("data-dir")) \in ValuesOf(KeyType("data-dir"))
    BY GetIs
  <2>2. Get(s, "agent", "data-dir", "dir") \in Texts
    BY <1>1, <2>1 DEF ValuesOf, DirTexts
  <2>3. dir \in Texts
    BY <2>2, CharactersAre, AppendProperties DEF Texts
  <2> HIDE DEF dir
  <2> QED BY <1>1, <2>3, DirTextIs DEF ValuesOf
<1>3. FileDefaults(s) = s5
  BY DEF FileDefaults
<1>4. s1 = Set(s, "file", "data-dir", v, "dir")
  BY DEF SetDir
<1> HIDE DEF v
<1>5. /\ \A key \in {"max-spool-dbs", "fs-monitor-latency-seconds", "send-latency-seconds", "max-queued-jobs"} :
           KeyType(key) = "uint" /\ <<"file", key>> \in Keys
      /\ <<"file", "data-dir">> \in Keys
  BY KeyTypesAre DEF FileUints
<1>6. IsSet(s1, s, "file", "data-dir", v)
  <2>1. IsSet(Set(s, "file", "data-dir", v, "dir"), s, "file", "data-dir", v)
    BY <1>1, <1>2, <1>5, SetIs
  <2> QED BY <1>4, <2>1
<1> HIDE DEF s1
<1>7. ASSUME NEW u, WellSet(u), NEW key, KeyType(key) = "uint", <<"file", key>> \in Keys, NEW n \in Nat
      PROVE  IsSet(SetUint(u, "file", key, n), u, "file", key, n)
  <2>1. n \in ValuesOf(KeyType(key))
    BY <1>7 DEF ValuesOf
  <2>2. IsSet(Set(u, "file", key, n, "uint"), u, "file", key, n)
    BY <1>7, <2>1, SetIs
  <2> QED BY <2>2 DEF SetUint
<1>8. IsSet(s2, s1, "file", "max-spool-dbs", 100)
  <2>1. WellSet(s1)
    BY <1>6 DEF IsSet
  <2> QED BY <1>5, <1>7, <2>1
<1> HIDE DEF s2
<1>9. IsSet(s3, s2, "file", "fs-monitor-latency-seconds", 5)
  <2>1. WellSet(s2)
    BY <1>8 DEF IsSet
  <2> QED BY <1>5, <1>7, <2>1
<1> HIDE DEF s3
<1>10. IsSet(s4, s3, "file", "send-latency-seconds", 15)
  <2>1. WellSet(s3)
    BY <1>9 DEF IsSet
  <2> QED BY <1>5, <1>7, <2>1
<1> HIDE DEF s4
<1>11. IsSet(s5, s4, "file", "max-queued-jobs", 10000)
  <2>1. WellSet(s4)
    BY <1>10 DEF IsSet
  <2> QED BY <1>5, <1>7, <2>1
<1> HIDE DEF s5
<1> DEFINE k1 == <<"file", "data-dir">>
           k2 == <<"file", "max-spool-dbs">>
           k3 == <<"file", "fs-monitor-latency-seconds">>
           k4 == <<"file", "send-latency-seconds">>
           k5 == <<"file", "max-queued-jobs">>
<1>12. /\ k1 # k2 /\ k1 # k3 /\ k1 # k4 /\ k1 # k5 /\ k2 # k3 /\ k2 # k4 /\ k2 # k5
       /\ k3 # k4 /\ k3 # k5 /\ k4 # k5
  OBVIOUS
<1>13. /\ DOMAIN s1 = DOMAIN s \union {k1} /\ s1[k1] = Entry("data-dir", v)
       /\ DOMAIN s2 = DOMAIN s1 \union {k2} /\ s2[k2] = Entry("max-spool-dbs", 100)
       /\ DOMAIN s3 = DOMAIN s2 \union {k3} /\ s3[k3] = Entry("fs-monitor-latency-seconds", 5)
       /\ DOMAIN s4 = DOMAIN s3 \union {k4} /\ s4[k4] = Entry("send-latency-seconds", 15)
       /\ DOMAIN s5 = DOMAIN s4 \union {k5} /\ s5[k5] = Entry("max-queued-jobs", 10000)
  BY <1>6, <1>8, <1>9, <1>10, <1>11 DEF IsSet
<1>14. /\ \A k \in DOMAIN s1 : k # k2 => s2[k] = s1[k]
       /\ \A k \in DOMAIN s2 : k # k3 => s3[k] = s2[k]
       /\ \A k \in DOMAIN s3 : k # k4 => s4[k] = s3[k]
       /\ \A k \in DOMAIN s4 : k # k5 => s5[k] = s4[k]
  BY <1>8, <1>9, <1>10, <1>11 DEF IsSet
<1> HIDE DEF k1, k2, k3, k4, k5, Entry
<1>15. s5[k1] = s1[k1] /\ s5[k2] = s2[k2] /\ s5[k3] = s3[k3] /\ s5[k4] = s4[k4]
  <2>1. k1 \in DOMAIN s1 /\ {k1, k2} \subseteq DOMAIN s2 /\ {k1, k2, k3} \subseteq DOMAIN s3
        /\ {k1, k2, k3, k4} \subseteq DOMAIN s4
    BY <1>13
  <2> QED BY <1>12, <1>14, <2>1
<1>16. /\ s5[k1] = Entry("data-dir", v) /\ s5[k2] = Entry("max-spool-dbs", 100)
       /\ s5[k3] = Entry("fs-monitor-latency-seconds", 5) /\ s5[k4] = Entry("send-latency-seconds", 15)
       /\ s5[k5] = Entry("max-queued-jobs", 10000)
  BY <1>13, <1>15
<1> QED BY <1>3, <1>16 DEF k1, k2, k3, k4, k5, Entry, v

LEMMA FileDefaultsDepend ==
  ASSUME NEW s, WellSet(s), NEW u, WellSet(u), <<"agent", "data-dir">> \in DOMAIN s,
         <<"agent", "data-dir">> \in DOMAIN u, u[<<"agent", "data-dir">>] = s[<<"agent", "data-dir">>],
         NEW d \in FileDescs
  PROVE  /\ <<"file", d.key>> \in DOMAIN FileDefaults(s) /\ <<"file", d.key>> \in DOMAIN FileDefaults(u)
         /\ FileDefaults(u)[<<"file", d.key>>] = FileDefaults(s)[<<"file", d.key>>]
<1> DEFINE k == d.key
<1>1. k \in {"data-dir", "max-spool-dbs", "fs-monitor-latency-seconds", "send-latency-seconds", "max-queued-jobs"}
  BY DEF FileDescs, Desc
<1> HIDE DEF k
<1>2. <<"file", k>> \in DOMAIN FileDefaults(s) /\ <<"file", k>> \in DOMAIN FileDefaults(u)
  <2>1. <<"file", k>> \in FileKeys
    BY <1>1 DEF FileKeys, FileUints
  <2> QED BY <2>1, FileDefaultsAre
<1>3. Get(u, "agent", "data-dir", "dir") = Get(s, "agent", "data-dir", "dir")
  BY DEF Get
<1> DEFINE f == FileDefaults(s)
           g == FileDefaults(u)
           dir == Append(Get(s, "agent", "data-dir", "dir"), "file")
           v == DirText(dir)
           Entry(key, val) == [value |-> val, type |-> KeyType(key)]
<1>4. /\ f[<<"file", "data-dir">>] = Entry("data-dir", v)
      /\ f[<<"file", "max-spool-dbs">>] = Entry("max-spool-dbs", 100)
      /\ f[<<"file", "fs-monitor-latency-seconds">>] = Entry("fs-monitor-latency-seconds", 5)
      /\ f[<<"file", "send-latency-seconds">>] = Entry("send-latency-seconds", 15)
      /\ f[<<"file", "max-queued-jobs">>] = Entry("max-queued-jobs", 10000)
  BY FileDefaultsAt
<1>5. /\ g[<<"file", "data-dir">>] = Entry("data-dir", v)
      /\ g[<<"file", "max-spool-dbs">>] = Entry("max-spool-dbs", 100)
      /\ g[<<"file", "fs-monitor-latency-seconds">>] = Entry("fs-monitor-latency-seconds", 5)
      /\ g[<<"file", "send-latency-seconds">>] = Entry("send-latency-seconds", 15)
      /\ g[<<"file", "max-queued-jobs">>] = Entry("max-queued-jobs", 10000)
  BY <1>3, FileDefaultsAt
<1> HIDE DEF f, g, v, Entry
<1>6. g[<<"file", k>>] = f[<<"file", k>>]
  BY <1>1, <1>4, <1>5
<1> QED BY <1>2, <1>6 DEF f, g, k

(* The settings of the agent and of its file plugin are as written in a    *)
(* document.                                                               *)
AgentAsWritten(s, yaml) == \A d \in AgentDescs : AsWritten(s, Defaults, Lines(yaml), "agent", d)
FileAsWritten(s, yaml) == \A d \in FileDescs : AsWritten(s, FileDefaults(s), Lines(yaml), "file", d)

(* What they are once the file is read: the agent's as long as only they   *)
(* are set, the file plugin's while plugins are loaded and it is one of    *)
(* them.                                                                   *)
ValuesKept ==
  /\ main = "settings" => settings = PlatformSettings(Prefix)
  /\ main \in {"dirs", "mkdir", "load"} => AgentAsWritten(settings, doc)
  /\ main \in BeforePlugins => running = {}
  /\ main = "plugins" /\ File \in running => FileAsWritten(settings, doc)

LEMMA VInit == Init => ValuesKept
BY DEF Init, ValuesKept

LEMMA VExit ==
  ASSUME Exit
  PROVE  ValuesKept'
BY DEF Exit, ValuesKept

(* A step that sets nothing.                                               *)
LEMMA VQuiet ==
  ASSUME ValuesKept, settings' = settings, running' = running,
         \/ main' = main /\ doc' = doc
         \/ {main, main'} \subseteq {"dirs", "mkdir", "load"} /\ doc' = doc
         \/ main \in BeforePlugins /\ main' \in {"hung", "save", "write", "router"}
         \/ main \in BeforePlugins /\ main' = "plugins"
  PROVE  ValuesKept'
BY DEF ValuesKept, BeforePlugins, BeforeState

LEMMA VLater ==
  ASSUME main' \notin BeforePlugins \union {"plugins"}
  PROVE  ValuesKept'
BY DEF ValuesKept, BeforePlugins, BeforeState

LEMMA VBoot == ASSUME SettingsKept, Boot PROVE ValuesKept'
BY DEF SettingsKept, Boot, plugins, ValuesKept

LEMMA VLoadSettings == ASSUME SettingsKept, SettingsKept', ValuesKept, LoadSettings PROVE ValuesKept'
<1>1. /\ main = "settings" /\ main' = "dirs" /\ running' = running
      /\ settings' = RetrieveAgentSettings(settings, doc')
  BY DEF LoadSettings, plugins
<1>2. doc' = Null \/ IsDocument(doc')
  <2> DEFINE yaml == doc'
  <2>1. yaml # Null => yaml \in {LoadSettingsDoc(f) : f \in ConfigFiles}
    BY DEF SettingsKept
  <2> HIDE DEF yaml
  <2>2. yaml = Null \/ IsDocument(yaml)
    BY <2>1, Loaded
  <2> QED BY <2>2 DEF yaml
<1>3. AgentAsWritten(settings', doc')
  <2> DEFINE yaml == doc'
             s == settings
             t == AgentDefaults(s)
             sct == "agent"
             descs == AgentDescs
             u == RetrieveSettings(t, yaml, sct, descs)
  <2>1. t = Defaults /\ settings' = u
    BY <1>1 DEF ValuesKept, Defaults, RetrieveAgentSettings
  <2>2. WellSet(s) /\ PlatformKeys \subseteq DOMAIN s /\ (yaml = Null \/ IsDocument(yaml))
    BY <1>1, <1>2 DEF SettingsKept
  <2>3. AgentAsWritten(settings', yaml) <=> \A d \in descs : AsWritten(settings', Defaults, Lines(yaml), sct, d)
    BY DEF AgentAsWritten
  <2> HIDE DEF yaml, s
  <2>4. WellSet(t) /\ Described(t, sct, descs) /\ \A d \in descs : d.key # sct
    BY <2>2, AgentDefaultsAre, AgentDescribed
  <2> HIDE DEF t, sct, descs
  <2>5. \A d \in descs : AsWritten(u, t, Lines(yaml), sct, d)
    BY <2>2, <2>4, RetrievedAsWritten
  <2> QED BY <2>1, <2>3, <2>5 DEF yaml
<1>4. running' = {}
  BY <1>1 DEF ValuesKept, BeforePlugins, BeforeState
<1> QED BY <1>1, <1>3, <1>4 DEF ValuesKept

(* The plugin sets what it has described, and it does not change the       *)
(* directory its defaults depend on.                                       *)
LEMMA FileRetrievedAsWritten ==
  ASSUME NEW s, WellSet(s), AgentKeys \subseteq DOMAIN s, NEW yaml, yaml = Null \/ IsDocument(yaml)
  PROVE  FileAsWritten(RetrieveFileSettings(s, yaml), yaml)
<1> DEFINE t == FileDefaults(s)
           sct == "file"
           descs == FileDescs
           u == RetrieveSettings(t, yaml, sct, descs)
           data == <<"agent", "data-dir">>
<1>1. data \in DOMAIN s
  BY DEF AgentKeys, PlatformKeys, DirKeys
<1>2. WellSet(t) /\ DOMAIN s \subseteq DOMAIN t /\ FileKeys \subseteq DOMAIN t
  BY <1>1, FileDefaultsAre
<1>3. u = RetrieveFileSettings(s, yaml)
  BY DEF RetrieveFileSettings
<1>4. t[data] = s[data]
  <2> DEFINE dir == Append(Get(s, "agent", "data-dir", "dir"), "file")
             s1 == SetDir(s, "file", "data-dir", dir)
             s2 == SetUint(s1, "file", "max-spool-dbs", 100)
             s3 == SetUint(s2, "file", "fs-monitor-latency-seconds", 5)
             s4 == SetUint(s3, "file", "send-latency-seconds", 15)
             s5 == SetUint(s4, "file", "max-queued-jobs", 10000)
  <2>1. t = s5
    BY DEF FileDefaults
  <2>2. ASSUME NEW v, data \in DOMAIN v, NEW key, NEW val, NEW type
        PROVE  data \in DOMAIN Set(v, "file", key, val, type) /\ Set(v, "file", key, val, type)[data] = v[data]
    <3>1. <<"file", key>> # data
      OBVIOUS
    <3> HIDE DEF data
    <3> QED BY <2>2, <3>1 DEF Set
  <2>3. ASSUME NEW v, data \in DOMAIN v, NEW key, NEW val
        PROVE  /\ data \in DOMAIN SetDir(v, "file", key, val) /\ SetDir(v, "file", key, val)[data] = v[data]
               /\ data \in DOMAIN SetUint(v, "file", key, val) /\ SetUint(v, "file", key, val)[data] = v[data]
    <3> HIDE DEF data
    <3> QED BY <2>2, <2>3 DEF SetDir, SetUint
  <2> HIDE DEF t, dir, data
  <2>4. data \in DOMAIN s1 /\ s1[data] = s[data]
    BY <1>1, <2>3
  <2> HIDE DEF s1
  <2>5. data \in DOMAIN s2 /\ s2[data] = s[data]
    BY <2>3, <2>4
  <2> HIDE DEF s2
  <2>6. data \in DOMAIN s3 /\ s3[data] = s[data]
    BY <2>3, <2>5
  <2> HIDE DEF s3
  <2>7. data \in DOMAIN s4 /\ s4[data] = s[data]
    BY <2>3, <2>6
  <2> HIDE DEF s4
  <2>8. s5[data] = s[data]
    BY <2>3, <2>7
  <2> QED BY <2>1, <2>8
<1> HIDE DEF t
<1>5. Described(t, sct, descs) /\ \A d \in descs : d.key # sct
  BY <1>2, FileDescribed
<1>6. data[1] # sct
  OBVIOUS
<1>7. \A f : FileAsWritten(f, yaml) <=> \A d \in descs : AsWritten(f, FileDefaults(f), Lines(yaml), sct, d)
  BY DEF FileAsWritten
<1> HIDE DEF sct, descs, data
<1>8. WellSet(u) /\ Extends(u, t, sct)
  <2>1. \A d \in descs : MaySet(t, sct, d)
    BY <1>5 DEF Described
  <2> QED BY <1>2, <2>1, RetrieveIs
<1>9. \A d \in descs : AsWritten(u, t, Lines(yaml), sct, d)
  BY <1>2, <1>5, RetrievedAsWritten
<1> HIDE DEF u
<1>10. data \in DOMAIN u /\ u[data] = s[data]
  BY <1>1, <1>2, <1>4, <1>6, <1>8 DEF Extends
<1>11. ASSUME NEW d \in descs PROVE AsWritten(u, FileDefaults(u), Lines(yaml), sct, d)
  <2> DEFINE k == <<sct, d.key>>
             f == FileDefaults(u)
  <2>1. k \in DOMAIN t /\ k \in DOMAIN f /\ f[k] = t[k]
    BY <1>1, <1>8, <1>10, FileDefaultsDepend DEF descs, sct, data, t
  <2> HIDE DEF k, f
  <2>2. AsWritten(u, t, Lines(yaml), sct, d)
    BY <1>9
  <2>3. AsWritten(u, f, Lines(yaml), sct, d)
    BY <2>1, <2>2 DEF AsWritten, k
  <2> QED BY <2>3 DEF f
<1>12. FileAsWritten(u, yaml)
  BY <1>7, <1>11
<1> QED BY <1>3, <1>12

LEMMA VLoadPlugin == ASSUME SettingsKept, ValuesKept, LoadPlugin PROVE ValuesKept'
<1> DEFINE p == PluginDir[place]
<1>1. /\ main = "plugins" /\ main' = main /\ doc' = doc /\ running' \subseteq running \union {p}
      /\ settings' = IF p = File THEN RetrieveFileSettings(settings, doc) ELSE settings
  BY DEF LoadPlugin, plugins
<1> HIDE DEF p
<1>2. ASSUME File \in running' PROVE FileAsWritten(settings', doc')
  <2>1. CASE p = File
    <3>1. WellSet(settings) /\ AgentKeys \subseteq DOMAIN settings
      BY <1>1 DEF SettingsKept
    <3>2. doc = Null \/ IsDocument(doc)
      <4>1. doc # Null => doc \in {LoadSettingsDoc(f) : f \in ConfigFiles}
        BY DEF SettingsKept
      <4> QED BY <4>1, Loaded
    <3>3. FileAsWritten(RetrieveFileSettings(settings, doc), doc)
      BY <3>1, <3>2, FileRetrievedAsWritten
    <3> QED BY <1>1, <2>1, <3>3
  <2>2. CASE p # File
    BY <1>1, <1>2, <2>2 DEF ValuesKept
  <2> QED BY <2>1, <2>2
<1>3. main' \notin BeforePlugins
  BY <1>1 DEF BeforePlugins, BeforeState
<1> QED BY <1>1, <1>2, <1>3 DEF ValuesKept

(* Every step of the agent keeps the values.                               *)
LEMMA VNext == SettingsKept /\ SettingsKept' /\ ValuesKept /\ [Next]_vars => ValuesKept'
<1> SUFFICES ASSUME SettingsKept, SettingsKept', ValuesKept, [Next]_vars PROVE ValuesKept'
  OBVIOUS
<1>1. ASSUME \/ Crash \/ NoDir \/ NoRouter \/ RouterFails \/ (MakeDir /\ Exit)
             \/ (\E p \in Plugins : MemoryIsLost(p)) \/ PluginsStopped
      PROVE  ValuesKept'
  BY <1>1, VExit DEF Crash, NoDir, NoRouter, RouterFails, MakeDir, MemoryIsLost, PluginsStopped, After
<1>2. ASSUME \/ Signal \/ LookAtDir \/ DirsReady \/ (MakeDir /\ ~Exit) \/ (\E d \in OwnDirs : Meddle(d))
             \/ KeepState \/ ResetState \/ Hang \/ OpenFails \/ Truncate \/ Write \/ StartRouter
             \/ Beat \/ AskPlugin \/ SendHeartbeat \/ HeartbeatEnds
             \/ (\E t \in Types : Dispatch(t)) \/ HandlerReturns \/ WorkerEnds
             \/ (\E p \in Plugins : PluginSends(p)) \/ UNCHANGED vars
      PROVE  ValuesKept'
  <2>1. /\ settings' = settings /\ doc' = doc /\ running' = running
        /\ \/ main' = main
           \/ {main, main'} \subseteq {"dirs", "mkdir", "load"}
           \/ main \in {"load", "save", "write"} /\ main' \in {"hung", "save", "write", "router"}
           \/ main = "router" /\ main' = "plugins"
    BY <1>2 DEF Signal, LookAtDir, DirsReady, MakeDir, Meddle, KeepState, ResetState, Hang, OpenFails, Truncate,
                Write, StartRouter, Beat, AskPlugin, SendHeartbeat, HeartbeatEnds, Dispatch, CanDispatch,
                HandlerReturns, WorkerEnds, PluginSends, vars, startup, plugins, threads, disk
  <2>2. main \in {"load", "save", "write", "router"} => main \in BeforePlugins
    BY DEF BeforePlugins, BeforeState
  <2> QED BY <2>1, <2>2, VQuiet
<1>3. ASSUME \/ PluginsLoaded \/ StartHeartbeat \/ SetCallback \/ Terminate \/ HeartbeatJoined
             \/ DestroySenders \/ RouterDestroyed \/ FreeHandlers \/ StopPlugin
      PROVE  ValuesKept'
  <2>1. main' \in {"beat", "callback", "serve", "join", "senders", "worker", "handlers", "stop"}
    BY <1>3 DEF PluginsLoaded, StartHeartbeat, SetCallback, Terminate, HeartbeatJoined, DestroySenders,
                RouterDestroyed, FreeHandlers, After, StopPlugin
  <2>2. main' \notin BeforePlugins \union {"plugins"}
    BY <2>1 DEF BeforePlugins, BeforeState
  <2> QED BY <2>2, VLater
<1>4. CASE Next
  BY <1>1, <1>2, <1>3, <1>4, VBoot, VLoadSettings, VLoadPlugin DEF Next
<1> QED BY <1>2, <1>4

(* The value of a setting is what was written last for it in the file, in  *)
(* its section or in none, or its default.  (settings.c:71, agent.c:345)   *)
THEOREM SettingsAreAsWritten == Spec => []ValuesAsWritten
<1>1. SettingsKept /\ ValuesKept => ValuesAsWritten
  BY DEF SettingsKept, ValuesKept, ValuesAsWritten, AgentIsSet, FileIsSet, AgentAsWritten, FileAsWritten
<1> QED BY <1>1, SettingsAreKept, VInit, VNext, PTL DEF Spec

-----------------------------------------------------------------------------
(* The directories a name is in                                            *)

Roots == {<<".">>, <<Sep>>}

LEMMA TextIs ==
  ASSUME NEW t \in Texts
  PROVE  Len(t) \in Nat /\ DOMAIN t = 1 .. Len(t) /\ (t = << >> <=> Len(t) = 0)
BY LenProperties, EmptySeq DEF Texts

(* The beginnings of a name.                                               *)
LEMMA UptoIs ==
  ASSUME NEW t \in Texts, NEW k \in 0 .. Len(t)
  PROVE  /\ Upto(t, k) \in Texts /\ Len(Upto(t, k)) = k
         /\ \A i \in 1 .. k : Upto(t, k)[i] = t[i]
         /\ NoDoubles(t) => NoDoubles(Upto(t, k))
         /\ k = Len(t) => Upto(t, k) = t
<1> DEFINE u == SubSeq(t, 1, k)
<1>1. Len(t) \in Nat
  BY TextIs
<1>2. 1 \in 1 .. Len(t) + 1 /\ k \in 1 - 1 .. Len(t) /\ k + 1 - 1 = k /\ \A i \in 1 .. k : 1 + i - 1 = i
  BY <1>1
<1>3. u \in Texts /\ Len(u) = k + 1 - 1 /\ \A i \in 1 .. k + 1 - 1 : u[i] = t[1 + i - 1]
  <2> HIDE DEF u
  <2> QED BY <1>2, PartOf DEF Texts, u
<1> HIDE DEF u
<1>4. u \in Texts /\ Len(u) = k /\ \A i \in 1 .. k : u[i] = t[i]
  BY <1>2, <1>3
<1>5. NoDoubles(t) => NoDoubles(u)
  <2> SUFFICES ASSUME NoDoubles(t), NEW i \in 2 .. k, u[i] = Sep PROVE u[i - 1] # Sep
    BY <1>4 DEF NoDoubles
  <2>1. i \in 1 .. k /\ i - 1 \in 1 .. k /\ i \in 2 .. Len(t)
    BY <1>1
  <2> QED BY <1>4, <2>1 DEF NoDoubles
<1>6. k = Len(t) => u = t
  BY <1>4, SeqEqual DEF Texts
<1> QED BY <1>4, <1>5, <1>6 DEF Upto, u

LEMMA UptoUpto ==
  ASSUME NEW t \in Texts, NEW j \in 0 .. Len(t), NEW k \in 0 .. j
  PROVE  Upto(Upto(t, j), k) = Upto(t, k)
<1> DEFINE s == Upto(t, j)
<1>1. Len(t) \in Nat /\ k \in 0 .. Len(t)
  BY TextIs
<1>2. s \in Texts /\ Len(s) = j /\ \A i \in 1 .. j : s[i] = t[i]
  BY UptoIs
<1> HIDE DEF s
<1>3. Upto(s, k) \in Texts /\ Len(Upto(s, k)) = k /\ \A i \in 1 .. k : Upto(s, k)[i] = s[i]
  BY <1>2, UptoIs
<1>4. Upto(t, k) \in Texts /\ Len(Upto(t, k)) = k /\ \A i \in 1 .. k : Upto(t, k)[i] = t[i]
  BY <1>1, UptoIs
<1> DEFINE a == Upto(s, k)
           b == Upto(t, k)
<1>5. \A i \in 1 .. k : s[i] = t[i]
  BY <1>1, <1>2
<1> HIDE DEF a, b
<1>6. a \in Seq(Characters) /\ b \in Seq(Characters) /\ Len(a) = k /\ Len(b) = k /\ \A i \in 1 .. k : a[i] = b[i]
  BY <1>3, <1>4, <1>5 DEF a, b, Texts
<1>7. a = b
  BY <1>6, SeqEqual
<1> QED BY <1>7 DEF a, b, s

(* Where the last character is that is not the separator.                  *)
LEMMA LastNotIs ==
  ASSUME NEW t \in Texts, NoDoubles(t)
  PROVE  LastNot(t) = IF t = << >> \/ t = <<Sep>> THEN 0 ELSE IF t[Len(t)] = Sep THEN Len(t) - 1 ELSE Len(t)
<1> DEFINE m == Len(t)
           S == {k \in 0 .. m - 1 : t[m - k] # Sep}
<1>1. m \in Nat /\ DOMAIN t = 1 .. m /\ (t = << >> <=> m = 0)
  BY TextIs
<1>2. LastNot(t) = m - (IF \E i \in DOMAIN t : t[i] # Sep THEN Min(S) ELSE m)
  BY DEF LastNot
<1>3. t = <<Sep>> <=> m = 1 /\ t[1] = Sep
  <2>1. ASSUME m = 1, t[1] = Sep PROVE t = <<Sep>>
    <3> DEFINE u == <<Sep>>
    <3>1. u \in Seq(Characters) /\ Len(u) = 1 /\ u[1] = Sep
      BY CharactersAre
    <3> HIDE DEF u
    <3>2. t \in Seq(Characters) /\ Len(t) = Len(u) /\ \A i \in 1 .. Len(t) : t[i] = u[i]
      BY <2>1, <3>1 DEF Texts
    <3>3. t = u
      BY <3>1, <3>2, SeqEqual
    <3> QED BY <3>3 DEF u
  <2> QED BY <2>1
<1> HIDE DEF m
<1>4. S \subseteq Nat /\ \A k \in S : 0 <= k
  BY <1>1
<1>5. CASE m = 0
  BY <1>1, <1>2, <1>5
<1>6. CASE m = 1 /\ t[1] = Sep
  <2>1. ~ \E i \in DOMAIN t : t[i] # Sep
    BY <1>1, <1>6
  <2> QED BY <1>1, <1>2, <1>3, <1>6, <2>1
<1>7. CASE m # 0 /\ t[m] # Sep
  <2>1. m \in DOMAIN t /\ 0 \in S
    BY <1>1, <1>7
  <2> HIDE DEF S
  <2>2. Min(S) = 0
    BY <1>4, <2>1, MinIsLeast
  <2>3. t # << >> /\ t # <<Sep>>
    BY <1>1, <1>3, <1>7
  <2>4. LastNot(t) = m
    BY <1>1, <1>2, <1>7, <2>1, <2>2
  <2> QED BY <1>7, <2>3, <2>4 DEF m
<1>8. CASE m > 1 /\ t[m] = Sep
  <2>1. t[m - 1] # Sep /\ m - 1 \in DOMAIN t
    BY <1>1, <1>8 DEF NoDoubles, m
  <2>2. 1 \in S /\ \A k \in S : 1 <= k
    <3>1. m - 0 = m
      BY <1>1
    <3> QED BY <1>1, <1>8, <2>1, <3>1
  <2> HIDE DEF S
  <2>3. Min(S) = 1
    BY <1>4, <2>2, MinIsLeast
  <2>4. t # << >> /\ t # <<Sep>>
    BY <1>1, <1>3, <1>8
  <2>5. LastNot(t) = m - 1
    BY <1>1, <1>2, <1>8, <2>1, <2>3
  <2> QED BY <1>8, <2>4, <2>5 DEF m
<1> QED BY <1>1, <1>5, <1>6, <1>7, <1>8

LEMMA PlainIs ==
  ASSUME NEW t \in Texts, NoDoubles(t)
  PROVE  /\ Plain(t) \in Texts /\ NoDoubles(Plain(t)) /\ Plain(Plain(t)) = Plain(t)
         /\ t # << >> => Plain(t) # << >>
         /\ \/ Plain(t) = t
            \/ Len(t) > 1 /\ t[Len(t)] = Sep /\ Plain(t) = Upto(t, Len(t) - 1)
<1> DEFINE m == Len(t)
           u == Upto(t, m - 1)
<1>1. m \in Nat
  BY TextIs
<1>2. CASE m > 1 /\ t[m] = Sep
  <2>1. Plain(t) = u
    BY <1>2 DEF Plain, Last, Front, Upto
  <2>2. u \in Texts /\ NoDoubles(u) /\ Len(u) = m - 1 /\ u[m - 1] = t[m - 1]
    BY <1>1, <1>2, UptoIs
  <2>3. t[m - 1] # Sep
    BY <1>1, <1>2 DEF NoDoubles
  <2> HIDE DEF u
  <2>4. Plain(u) = u
    BY <2>2, <2>3 DEF Plain, Last
  <2>5. u # << >>
    BY <1>2, <2>2, TextIs
  <2> QED BY <1>2, <2>1, <2>2, <2>4, <2>5 DEF u
<1>3. CASE ~ (m > 1 /\ t[m] = Sep)
  <2>1. Plain(t) = t
    BY <1>3 DEF Plain, Last
  <2> QED BY <2>1
<1> QED BY <1>2, <1>3

(* The directory of a name is the root, none, or a beginning of the name.  *)
LEMMA DirNameIs ==
  ASSUME NEW t \in Texts, NoDoubles(t)
  PROVE  \/ DirName(t) \in Roots
         \/ \E k \in 1 .. LastNot(t) - 1 :
              k < Len(t) /\ DirName(t) = Upto(t, k) /\ t[k] # Sep /\ t[k + 1] = Sep
<1> DEFINE m == LastNot(t)
           S == {0} \union {i \in 1 .. m : t[i] = Sep}
           p == LastSlash(t)
           dir == Upto(t, p - 1)
<1>1. Len(t) \in Nat /\ m \in 0 .. Len(t)
  BY TextIs, LastNotIs
<1>2. p \in S
  <2>1. p = Max(S)
    BY DEF LastSlash
  <2>2. S \in SUBSET Nat /\ S # {} /\ \A i \in S : i <= m
    BY <1>1
  <2> HIDE DEF S, m
  <2> QED BY <1>1, <2>1, <2>2, MaxIsGreatest
<1>3. DirName(t) = IF t = << >> THEN <<".">> ELSE IF m = 0 THEN <<Sep>> ELSE IF p = 0 THEN <<".">>
                   ELSE IF LastNot(dir) = 0 THEN <<Sep>> ELSE Upto(t, LastNot(dir))
  BY DEF DirName
<1> HIDE DEF m, p
<1>4. ASSUME p # 0, LastNot(dir) # 0
      PROVE  LastNot(dir) = p - 1 /\ p > 1 /\ t[p - 1] # Sep
  <2>1. p \in 1 .. m /\ t[p] = Sep
    BY <1>2, <1>4
  <2>2. p - 1 \in 0 .. Len(t)
    BY <1>1, <2>1
  <2>3. dir \in Texts /\ NoDoubles(dir) /\ Len(dir) = p - 1 /\ \A i \in 1 .. p - 1 : dir[i] = t[i]
    BY <2>2, UptoIs
  <2> HIDE DEF dir
  <2>4. dir # << >> /\ LastNot(dir) = IF dir[Len(dir)] = Sep THEN Len(dir) - 1 ELSE Len(dir)
    BY <1>4, <2>3, LastNotIs
  <2>5. p > 1
    BY <2>1, <2>3, <2>4, TextIs
  <2>6. t[p - 1] # Sep
    BY <1>1, <2>1, <2>5 DEF NoDoubles
  <2> QED BY <2>1, <2>3, <2>4, <2>5, <2>6
<1>5. CASE DirName(t) \notin Roots
  <2>1. p # 0 /\ LastNot(dir) # 0 /\ DirName(t) = Upto(t, LastNot(dir))
    BY <1>3, <1>5 DEF Roots
  <2>2. p \in 1 .. m /\ t[p] = Sep
    BY <1>2, <2>1
  <2>3. DirName(t) = Upto(t, p - 1) /\ p > 1 /\ t[p - 1] # Sep
    BY <1>4, <2>1
  <2>4. p - 1 \in 1 .. m - 1 /\ p - 1 < Len(t) /\ (p - 1) + 1 = p
    BY <1>1, <2>2, <2>3
  <2> QED BY <2>2, <2>3, <2>4 DEF m
<1> QED BY <1>5

(* It is the same with and without a separator at the end.                 *)
LEMMA DirNameOfPlain ==
  ASSUME NEW t \in Texts, NoDoubles(t)
  PROVE  DirName(Plain(t)) = DirName(t)
<1> DEFINE n == Len(t)
           s == Upto(t, n - 1)
<1>1. n \in Nat
  BY TextIs
<1>2. CASE Plain(t) = t
  BY <1>2
<1>3. CASE n > 1 /\ t[n] = Sep /\ Plain(t) = s
  <2>1. s \in Texts /\ NoDoubles(s) /\ Len(s) = n - 1 /\ \A i \in 1 .. n - 1 : s[i] = t[i]
    BY <1>1, <1>3, UptoIs
  <2>2. t[n - 1] # Sep /\ s[n - 1] = t[n - 1]
    BY <1>1, <1>3, <2>1 DEF NoDoubles
  <2>3. t # << >> /\ t # <<Sep>>
    <3>1. t # << >>
      BY <1>3, TextIs
    <3>2. Len(<<Sep>>) = 1
      OBVIOUS
    <3> QED BY <1>3, <3>1, <3>2
  <2> HIDE DEF s
  <2>4. s # << >> /\ s # <<Sep>>
    <3>1. s # << >>
      BY <1>3, <2>1, TextIs
    <3>2. Len(<<Sep>>) = 1 /\ <<Sep>>[1] = Sep
      OBVIOUS
    <3>3. ASSUME s = <<Sep>> PROVE FALSE
      <4>1. n - 1 = 1 /\ s[1] = Sep
        BY <2>1, <3>2, <3>3
      <4> QED BY <2>2, <4>1
    <3> QED BY <3>1, <3>3
  <2>5. LastNot(t) = n - 1 /\ LastNot(s) = n - 1
    BY <1>3, <2>1, <2>2, <2>3, <2>4, LastNotIs
  <2> DEFINE S(x) == {0} \union {i \in 1 .. n - 1 : x[i] = Sep}
             p == LastSlash(t)
             dir == Upto(t, p - 1)
  <2>6. S(s) = S(t)
    BY <2>1
  <2>7. LastSlash(t) = Max(S(t)) /\ LastSlash(s) = Max(S(s))
    BY <2>5 DEF LastSlash
  <2>8. LastSlash(s) = p /\ p \in S(t)
    <3>1. S(t) \in SUBSET Nat /\ S(t) # {} /\ (\A i \in S(t) : i <= n) /\ n \in Nat
      BY <1>1
    <3> HIDE DEF S
    <3>2. Max(S(t)) \in S(t)
      <4> DEFINE T == S(t)
      <4>1. T \in SUBSET Nat /\ T # {} /\ (\A i \in T : i <= n) /\ n \in Nat
        BY <3>1
      <4> HIDE DEF T
      <4>2. Max(T) \in T
        BY <4>1, MaxIsGreatest
      <4> QED BY <4>2 DEF T
    <3> QED BY <2>6, <2>7, <3>2
  <2>9. /\ DirName(t) = IF p = 0 THEN <<".">> ELSE IF LastNot(dir) = 0 THEN <<Sep>> ELSE Upto(t, LastNot(dir))
        /\ DirName(s) = IF p = 0 THEN <<".">> ELSE IF LastNot(Upto(s, p - 1)) = 0 THEN <<Sep>>
                        ELSE Upto(s, LastNot(Upto(s, p - 1)))
    <3>1. n - 1 # 0
      BY <1>1, <1>3
    <3> QED BY <2>3, <2>4, <2>5, <2>8, <3>1 DEF DirName
  <2> HIDE DEF p
  <2>10. CASE p # 0
    <3>1. p \in 1 .. n - 1
      BY <2>8, <2>10
    <3>2. n - 1 \in 0 .. n /\ p - 1 \in 0 .. n - 1 /\ p - 1 \in 0 .. n
      BY <1>1, <1>3, <3>1
    <3>3. Upto(s, p - 1) = dir
      BY <3>2, UptoUpto DEF s
    <3>4. LastNot(dir) \in 0 .. n - 1
      <4>1. dir \in Texts /\ NoDoubles(dir) /\ Len(dir) = p - 1
        BY <3>2, UptoIs
      <4> HIDE DEF dir
      <4>2. LastNot(dir) \in 0 .. p - 1
        BY <4>1, LastNotIs, TextIs
      <4> QED BY <1>1, <3>1, <4>2
    <3>5. Upto(s, LastNot(dir)) = Upto(t, LastNot(dir))
      BY <3>2, <3>4, UptoUpto DEF s
    <3> QED BY <1>3, <2>9, <3>3, <3>5
  <2>11. CASE p = 0
    BY <1>3, <2>9, <2>11
  <2> QED BY <2>10, <2>11
<1> QED BY <1>2, <1>3, PlainIs

(* It has no separator at the end itself.                                  *)
LEMMA DirNameIsPlain ==
  ASSUME NEW t \in Texts, NoDoubles(t)
  PROVE  Plain(DirName(t)) = DirName(t)
<1>1. CASE DirName(t) \in Roots
  <2>1. \A c : Len(<<c>>) = 1
    OBVIOUS
  <2>2. Len(DirName(t)) = 1
    BY <1>1, <2>1 DEF Roots
  <2> QED BY <2>2 DEF Plain
<1>2. CASE DirName(t) \notin Roots
  <2>1. PICK k \in 1 .. LastNot(t) - 1 : k < Len(t) /\ DirName(t) = Upto(t, k) /\ t[k] # Sep
    BY <1>2, DirNameIs
  <2>2. k \in 0 .. Len(t) /\ k \in 1 .. k
    BY <2>1, TextIs, LastNotIs
  <2>3. Len(Upto(t, k)) = k /\ Upto(t, k)[k] = t[k]
    BY <2>2, UptoIs
  <2> QED BY <2>1, <2>3 DEF Plain, Last
<1> QED BY <1>1, <1>2

-----------------------------------------------------------------------------
(* The directories the agent looks at                                      *)

(* What is in a list of directories: names each of which is in one of d,   *)
(* or in the one before it.                                                *)
Descends(l, d) ==
  /\ l \in Seq(Texts)
  /\ \A i \in 1 .. Len(l) :
       /\ NoDoubles(l[i])
       /\ l[i] # << >> => DirName(l[i]) \in d \/ (i > 1 /\ DirName(l[i]) = l[i - 1])

(* And what else: each is the one in which something is, or t.             *)
Above(l, t) == \A x \in ToSet(l) : x = t \/ \E e \in ToSet(l) : DirName(e) = x

LEMMA AboveAppended ==
  ASSUME NEW l \in Seq(Texts), NEW t \in Texts, Above(l, DirName(t))
  PROVE  Above(Append(l, t), t) /\ ToSet(Append(l, t)) = ToSet(l) \union {t}
<1> DEFINE a == Append(l, t)
<1>1. /\ Len(l) \in Nat /\ DOMAIN l = 1 .. Len(l) /\ Len(a) = Len(l) + 1 /\ DOMAIN a = 1 .. Len(a)
      /\ a[Len(l) + 1] = t /\ \A i \in 1 .. Len(l) : a[i] = l[i]
  BY AppendProperties, LenProperties
<1> HIDE DEF a
<1>2. ToSet(l) = {l[i] : i \in 1 .. Len(l)} /\ ToSet(a) = {a[i] : i \in 1 .. Len(a)}
  BY <1>1 DEF ToSet
<1>3. \A i \in 1 .. Len(a) : i \in 1 .. Len(l) \/ i = Len(l) + 1
  BY <1>1
<1>4. 1 .. Len(l) \subseteq 1 .. Len(a) /\ Len(l) + 1 \in 1 .. Len(a)
  BY <1>1
<1>5. ToSet(a) = ToSet(l) \union {t}
  BY <1>1, <1>2, <1>3, <1>4
<1> QED BY <1>5 DEF Above, a

(* The directories of the first k characters of a name.                    *)
AboveFrom(f, t, k) ==
  LET dir == DirName(Upto(t, k))
  IN  IF dir \in {<<".">>, <<Sep>>} THEN << >> ELSE Append(f[Len(dir)], dir)

LEMMA AboveIs ==
  ASSUME NEW t \in Texts, NoDoubles(t)
  PROVE  \E f : /\ GetDirs(t) = f[Len(t)]
                /\ \A k \in 0 .. Len(t) : f[k] = AboveFrom(f, t, k)
<1> DEFINE N == Len(t)
           K(f) == f = [k \in 0 .. N |-> AboveFrom(f, t, k)]
           above == CHOOSE f : K(f)
<1>1. GetDirs(t) = above[N]
  BY DEF GetDirs, AboveFrom
<1>2. N \in Nat
  BY TextIs
<1>3. ASSUME NEW k \in 0 .. N, NEW f, NEW g, \A j \in 0 .. k - 1 : f[j] = g[j]
      PROVE  AboveFrom(f, t, k) = AboveFrom(g, t, k)
  <2> DEFINE u == Upto(t, k)
             dir == DirName(u)
  <2>1. u \in Texts /\ NoDoubles(u) /\ Len(u) = k
    BY <1>3, UptoIs
  <2> HIDE DEF u
  <2>2. dir \in Roots \/ Len(dir) \in 0 .. k - 1
    <3>1. dir \in Roots \/ \E j \in 1 .. LastNot(u) - 1 : j < k /\ dir = Upto(u, j)
      BY <2>1, DirNameIs
    <3>2. ASSUME NEW j \in 1 .. LastNot(u) - 1, j < k, dir = Upto(u, j) PROVE Len(dir) \in 0 .. k - 1
      <4>1. j \in 0 .. Len(u)
        BY <1>2, <1>3, <2>1, <3>2
      <4>2. Len(Upto(u, j)) = j
        BY <2>1, <4>1, UptoIs
      <4> HIDE DEF dir
      <4> QED BY <1>2, <1>3, <3>2, <4>1, <4>2
    <3> HIDE DEF dir
    <3> QED BY <3>1, <3>2
  <2>3. dir \notin Roots => f[Len(dir)] = g[Len(dir)]
    BY <1>3, <2>2
  <2> QED BY <2>3 DEF AboveFrom, Roots, u
<1> HIDE DEF N
<1>4. \E f : K(f)
  <2> DEFINE F(f, k) == f = [j \in 0 .. N |-> f[j]] /\ \A j \in 0 .. k : f[j] = AboveFrom(f, t, j)
             P == {k \in Nat : \E f : F(f, k)}
  <2>1. ASSUME NEW k \in 0 .. N, NEW f,
               f = [j \in 0 .. N |-> f[j]], \A j \in 0 .. k - 1 : f[j] = AboveFrom(f, t, j)
        PROVE  \E g : F(g, k)
    <3> DEFINE g == [j \in 0 .. N |-> IF j < k THEN f[j] ELSE AboveFrom(f, t, j)]
    <3>1. /\ \A j \in 0 .. k - 1 : g[j] = f[j]
          /\ g[k] = AboveFrom(f, t, k)
      <4>1. k \in 0 .. N /\ ~ (k < k) /\ \A j \in 0 .. k - 1 : j \in 0 .. N /\ j < k
        BY <1>2, <2>1
      <4> QED BY <4>1
    <3>2. g = [j \in 0 .. N |-> g[j]]
      OBVIOUS
    <3> HIDE DEF g
    <3>3. ASSUME NEW j \in 0 .. k PROVE g[j] = AboveFrom(g, t, j)
      <4>1. j \in 0 .. N /\ \A i \in 0 .. j - 1 : i \in 0 .. k - 1
        BY <1>2, <2>1
      <4>2. \A i \in 0 .. j - 1 : f[i] = g[i]
        BY <3>1, <4>1
      <4>3. AboveFrom(f, t, j) = AboveFrom(g, t, j)
        BY <1>3, <4>1, <4>2
      <4>4. g[j] = AboveFrom(f, t, j)
        <5>1. CASE j = k
          BY <3>1, <5>1
        <5>2. CASE j # k
          <6>1. j \in 0 .. k - 1
            BY <2>1, <5>2
          <6> QED BY <2>1, <3>1, <6>1
        <5> QED BY <5>1, <5>2
      <4> QED BY <4>3, <4>4
    <3>4. F(g, k)
      BY <3>2, <3>3
    <3> HIDE DEF F
    <3> QED BY <3>4
  <2>2. 0 \in P
    <3> DEFINE f == [j \in 0 .. N |-> j]
    <3>1. f = [j \in 0 .. N |-> f[j]] /\ 0 \in 0 .. N
      BY <1>2
    <3> HIDE DEF f, F
    <3>2. \A j \in 0 .. 0 - 1 : f[j] = AboveFrom(f, t, j)
      OBVIOUS
    <3> QED BY <2>1, <3>1, <3>2
  <2>3. ASSUME NEW k \in 0 .. N - 1, k \in P PROVE k + 1 \in P
    <3>1. PICK f : F(f, k)
      BY <2>3
    <3>2. k + 1 \in 0 .. N /\ (k + 1) - 1 = k /\ k + 1 \in Nat
      BY <1>2
    <3>3. f = [j \in 0 .. N |-> f[j]] /\ \A j \in 0 .. k : f[j] = AboveFrom(f, t, j)
      BY <3>1
    <3> HIDE DEF F
    <3>4. \E g : F(g, k + 1)
      BY <2>1, <3>2, <3>3
    <3> QED BY <3>2, <3>4
  <2>4. N \in P
    <3> HIDE DEF P
    <3>1. \A k \in 0 .. N : k \in P
      BY <1>2, <2>2, <2>3, UptoInduction
    <3> QED BY <1>2, <3>1
  <2>5. PICK f : F(f, N)
    BY <2>4
  <2>6. K(f)
    <3> DEFINE h == [k \in 0 .. N |-> AboveFrom(f, t, k)]
    <3>1. f = [k \in 0 .. N |-> f[k]] /\ \A k \in 0 .. N : f[k] = AboveFrom(f, t, k)
      BY <2>5
    <3>2. h = f
      BY <3>1
    <3> QED BY <3>2
  <2> HIDE DEF K
  <2> QED BY <2>6
<1>5. K(above)
  <2> HIDE DEF K
  <2> QED BY <1>4
<1> HIDE DEF above
<1>6. ASSUME NEW k \in 0 .. N PROVE above[k] = AboveFrom(above, t, k)
  <2> DEFINE h == [j \in 0 .. N |-> AboveFrom(above, t, j)]
  <2>1. h[k] = AboveFrom(above, t, k)
    OBVIOUS
  <2>2. above = h
    BY <1>5
  <2> HIDE DEF h
  <2> QED BY <2>1, <2>2
<1> QED BY <1>1, <1>6 DEF N

(* yella_get_dirs returns the directories from the first on, each in the   *)
(* one before it.                                                          *)
LEMMA GetDirsDescends ==
  ASSUME NEW t \in Texts, NoDoubles(t)
  PROVE  Descends(EnsuredDirs(t), Roots) /\ Above(EnsuredDirs(t), t)
<1> DEFINE N == Len(t)
<1>1. N \in Nat
  BY TextIs
<1>2. PICK f : GetDirs(t) = f[N] /\ \A k \in 0 .. N : f[k] = AboveFrom(f, t, k)
  BY AboveIs
<1> DEFINE At(k) ==
             LET dir == DirName(Upto(t, k))
             IN  /\ Descends(f[k], Roots)
                 /\ dir \notin Roots => Len(f[k]) > 0 /\ f[k][Len(f[k])] = dir
                 /\ Above(f[k], dir)
           P == {k \in Nat : \A j \in 0 .. k : At(j)}
<1> HIDE DEF N
(* A list with a name after it that is in the last one of it.              *)
<1>3. ASSUME NEW l, Descends(l, Roots), NEW d \in Texts, NoDoubles(d),
             DirName(d) \notin Roots => Len(l) > 0 /\ l[Len(l)] = DirName(d)
      PROVE  Descends(Append(l, d), Roots) /\ Len(Append(l, d)) = Len(l) + 1 /\ Append(l, d)[Len(l) + 1] = d
  <2> DEFINE a == Append(l, d)
  <2>1. /\ l \in Seq(Texts) /\ a \in Seq(Texts) /\ Len(l) \in Nat /\ Len(a) = Len(l) + 1
        /\ a[Len(l) + 1] = d /\ \A i \in 1 .. Len(l) : a[i] = l[i]
    BY <1>3, AppendProperties, LenProperties DEF Descends
  <2> HIDE DEF a
  <2>2. ASSUME NEW i \in 1 .. Len(a)
        PROVE  /\ NoDoubles(a[i])
               /\ a[i] # << >> => DirName(a[i]) \in Roots \/ (i > 1 /\ DirName(a[i]) = a[i - 1])
    <3>1. CASE i = Len(l) + 1
      <4>1. a[i] = d /\ i - 1 = Len(l)
        BY <2>1, <3>1
      <4>2. DirName(d) \notin Roots => i > 1 /\ a[i - 1] = DirName(d)
        <5>1. ASSUME DirName(d) \notin Roots PROVE i > 1 /\ a[i - 1] = DirName(d)
          <6>1. Len(l) > 0 /\ l[Len(l)] = DirName(d) /\ Len(l) \in 1 .. Len(l)
            BY <1>3, <2>1, <5>1
          <6> QED BY <2>1, <3>1, <4>1, <6>1
        <5> QED BY <5>1
      <4> QED BY <1>3, <4>1, <4>2
    <3>2. CASE i # Len(l) + 1
      <4>1. i \in 1 .. Len(l) /\ a[i] = l[i] /\ (i > 1 => a[i - 1] = l[i - 1])
        BY <2>1, <3>2
      <4> QED BY <1>3, <2>2, <4>1 DEF Descends
    <3> QED BY <3>1, <3>2
  <2> QED BY <2>1, <2>2 DEF Descends, a
<1>4. ASSUME NEW k \in 0 .. N, \A j \in 0 .. k - 1 : At(j) PROVE At(k)
  <2> DEFINE u == Upto(t, k)
             dir == DirName(u)
  <2>1. u \in Texts /\ NoDoubles(u) /\ Len(u) = k
    BY UptoIs DEF N
  <2> HIDE DEF u
  <2>2. f[k] = IF dir \in Roots THEN << >> ELSE Append(f[Len(dir)], dir)
    BY <1>2 DEF AboveFrom, Roots, u
  <2>3. CASE dir \in Roots
    <3>1. f[k] = << >>
      BY <2>2, <2>3
    <3>2. Descends(<< >>, Roots) /\ Above(<< >>, dir)
      BY DEF Descends, Above, ToSet
    <3> QED BY <2>3, <3>1, <3>2 DEF u
  <2>4. CASE dir \notin Roots
    <3>1. PICK j \in 1 .. LastNot(u) - 1 : j < k /\ dir = Upto(u, j) /\ u[j] # Sep
      BY <2>1, <2>4, DirNameIs
    <3>2. j \in 1 .. k - 1 /\ j \in 0 .. k /\ j \in 0 .. k - 1 /\ j \in 0 .. N
      BY <1>1, <2>1, <3>1
    <3>3. dir \in Texts /\ NoDoubles(dir) /\ Len(dir) = j /\ dir[j] = u[j]
      BY <2>1, <3>1, <3>2, UptoIs
    <3>4. dir = Upto(t, j)
      <4>1. Upto(Upto(t, k), j) = Upto(t, j)
        BY <3>2, UptoUpto DEF N
      <4> QED BY <3>1, <4>1 DEF u
    <3> HIDE DEF dir
    <3>6. At(j)
      BY <1>4, <3>2
    <3>7. /\ Descends(f[j], Roots) /\ (DirName(dir) \notin Roots => Len(f[j]) > 0 /\ f[j][Len(f[j])] = DirName(dir))
          /\ Above(f[j], DirName(dir))
      BY <3>4, <3>6
    <3> DEFINE l == f[j]
               a == Append(l, dir)
    <3>8. f[k] = a
      BY <2>2, <2>4, <3>3
    <3> HIDE DEF l
    <3>9. Descends(a, Roots) /\ Len(a) = Len(l) + 1 /\ a[Len(l) + 1] = dir
      BY <1>3, <3>3, <3>7 DEF l
    <3>10. Len(a) > 0
      BY <3>7, <3>9, LenProperties DEF Descends, l
    <3>12. Above(a, dir)
      BY <3>3, <3>7, AboveAppended DEF Descends, l
    <3> HIDE DEF a
    <3>11. f[k][Len(f[k])] = dir
      BY <3>8, <3>9
    <3> QED BY <3>8, <3>9, <3>10, <3>11, <3>12 DEF dir, u
  <2> QED BY <2>3, <2>4
<1>5. At(N)
  <2> HIDE DEF At
  <2>1. At(0)
    BY <1>1, <1>4
  <2>2. 0 \in P
    BY <2>1
  <2>3. ASSUME NEW k \in 0 .. N - 1, k \in P PROVE k + 1 \in P
    <3>1. k + 1 \in 0 .. N /\ (k + 1) - 1 = k /\ k + 1 \in Nat
      BY <1>1
    <3>2. \A j \in 0 .. k : At(j)
      BY <2>3
    <3>3. At(k + 1)
      BY <1>4, <3>1, <3>2
    <3>4. \A j \in 0 .. k + 1 : j \in 0 .. k \/ j = k + 1
      OBVIOUS
    <3> QED BY <3>1, <3>2, <3>3, <3>4
  <2>4. N \in P
    <3> HIDE DEF P
    <3>1. \A k \in 0 .. N : k \in P
      BY <1>1, <2>2, <2>3, UptoInduction
    <3> QED BY <1>1, <3>1
  <2> QED BY <1>1, <2>4
<1>6. Upto(t, N) = t
  BY <1>1, UptoIs DEF N
<1> DEFINE l == GetDirs(t)
<1>7. Descends(l, Roots) /\ (DirName(t) \notin Roots => Len(l) > 0 /\ l[Len(l)] = DirName(t)) /\ Above(l, DirName(t))
  BY <1>2, <1>5, <1>6
<1> HIDE DEF l
<1>8. Descends(Append(l, t), Roots)
  BY <1>3, <1>7
<1>9. Above(Append(l, t), t)
  BY <1>7, AboveAppended DEF Descends
<1> QED BY <1>8, <1>9 DEF EnsuredDirs, l

-----------------------------------------------------------------------------
(* The directories are there                                               *)

There == dirs \union OtherFiles \union {<<".">>}

(* The directories there are have no separator at the end, and are in one  *)
(* that is no other file; and the agent can look at those it has to: each  *)
(* is in one that is there, or that it looks at before.  It has found      *)
(* missing what it makes, unless another process makes directories.        *)
DirsKept ==
  /\ <<Sep>> \in dirs /\ meddled \in BOOLEAN
  /\ \A d \in dirs : d # << >> /\ d = Plain(d) /\ d \notin OtherFiles /\ DirName(d) \notin OtherFiles
  /\ main \in {"dirs", "mkdir"} =>
       /\ Descends(todo, There)
       /\ \A d \in OwnDirs : IsThere(d) \/ d \in ToSet(todo)
  /\ main = "mkdir" => todo # << >> /\ Head(todo) # << >> /\ (IsDir(Head(todo)) => meddled)
  /\ main = "load" => \A d \in OwnDirs : IsDir(d)
  /\ main # "off" => failure = "no"
  /\ failure # "parent"
  /\ failure = "there" => meddled

(* What is in a list of directories, as a set.                             *)
LEMMA Descending ==
  ASSUME NEW l, NEW d, Descends(l, d)
  PROVE  /\ Len(l) \in Nat /\ DOMAIN l = 1 .. Len(l) /\ ToSet(l) = {l[i] : i \in 1 .. Len(l)}
         /\ \A x \in ToSet(l) : x \in Texts /\ NoDoubles(x)
<1>1. Len(l) \in Nat /\ DOMAIN l = 1 .. Len(l) /\ \A i \in 1 .. Len(l) : l[i] \in Texts
  BY LenProperties, ElementOfSeq DEF Descends
<1>2. ToSet(l) = {l[i] : i \in 1 .. Len(l)}
  BY <1>1 DEF ToSet
<1> QED BY <1>1, <1>2 DEF Descends

(* More directories do no harm.                                            *)
LEMMA DescendsInMore ==
  ASSUME NEW l, NEW d, NEW e, Descends(l, d), d \subseteq e
  PROVE  Descends(l, e)
BY DEF Descends

LEMMA DescendsBoth ==
  ASSUME NEW l, NEW m, NEW d, Descends(l, d), Descends(m, d)
  PROVE  Descends(l \o m, d) /\ ToSet(l \o m) = ToSet(l) \union ToSet(m)
<1> DEFINE c == l \o m
<1>1. /\ l \in Seq(Texts) /\ m \in Seq(Texts) /\ Len(l) \in Nat /\ Len(m) \in Nat
      /\ DOMAIN l = 1 .. Len(l) /\ DOMAIN m = 1 .. Len(m)
  BY LenProperties DEF Descends
<1>2. /\ c \in Seq(Texts) /\ Len(c) = Len(l) + Len(m) /\ DOMAIN c = 1 .. Len(c)
      /\ \A i \in 1 .. Len(l) + Len(m) : c[i] = IF i <= Len(l) THEN l[i] ELSE m[i - Len(l)]
  BY <1>1, ConcatProperties, LenProperties
<1> HIDE DEF c
<1>3. ASSUME NEW i \in 1 .. Len(c)
      PROVE  NoDoubles(c[i]) /\ (c[i] # << >> => DirName(c[i]) \in d \/ (i > 1 /\ DirName(c[i]) = c[i - 1]))
  <2>1. CASE i <= Len(l)
    <3>1. i \in 1 .. Len(l) /\ c[i] = l[i] /\ (i > 1 => c[i - 1] = l[i - 1])
      BY <1>1, <1>2, <2>1
    <3> QED BY <1>3, <3>1 DEF Descends
  <2>2. CASE ~ (i <= Len(l))
    <3> DEFINE j == i - Len(l)
    <3>0. i \in 1 .. Len(l) + Len(m) /\ i \in Int /\ ~ (i <= Len(l))
      BY <1>1, <1>2, <2>2
    <3>1. j \in 1 .. Len(m) /\ c[i] = m[j]
      <4>1. c[i] = IF i <= Len(l) THEN l[i] ELSE m[i - Len(l)]
        BY <1>2, <3>0
      <4>2. j \in 1 .. Len(m)
        BY <1>1, <3>0
      <4> QED BY <3>0, <4>1, <4>2
    <3>2. j > 1 => c[i - 1] = m[j - 1] /\ i > 1
      BY <1>1, <1>2, <2>2
    <3> HIDE DEF j
    <3> QED BY <1>3, <3>1, <3>2 DEF Descends
  <2> QED BY <2>1, <2>2
<1>4. Descends(c, d)
  BY <1>2, <1>3 DEF Descends
<1>5. ToSet(c) = ToSet(l) \union ToSet(m)
  <2>1. ASSUME NEW i \in 1 .. Len(l) PROVE i \in 1 .. Len(c) /\ c[i] = l[i]
    BY <1>1, <1>2
  <2>2. ASSUME NEW i \in 1 .. Len(m) PROVE Len(l) + i \in 1 .. Len(c) /\ c[Len(l) + i] = m[i]
    <3>1. Len(l) + i \in 1 .. Len(c) /\ ~ (Len(l) + i <= Len(l)) /\ (Len(l) + i) - Len(l) = i
      BY <1>1, <1>2
    <3> QED BY <1>2, <3>1
  <2>3. ASSUME NEW i \in 1 .. Len(c)
        PROVE  \/ i \in 1 .. Len(l) /\ c[i] = l[i]
               \/ i - Len(l) \in 1 .. Len(m) /\ c[i] = m[i - Len(l)]
    BY <1>1, <1>2
  <2>4. ToSet(c) \subseteq ToSet(l) \union ToSet(m)
    BY <1>1, <1>2, <2>3 DEF ToSet
  <2>5. ToSet(l) \subseteq ToSet(c)
    BY <1>1, <1>2, <2>1 DEF ToSet
  <2>6. ToSet(m) \subseteq ToSet(c)
    BY <1>1, <1>2, <2>2 DEF ToSet
  <2> QED BY <2>4, <2>5, <2>6
<1> QED BY <1>4, <1>5 DEF c

(* What comes after the first, once that is there.                         *)
LEMMA DescendsOn ==
  ASSUME NEW l, NEW d, Descends(l, d), l # << >>, Plain(Head(l)) \in d \/ Head(l) \in d
  PROVE  Descends(Tail(l), d) /\ ToSet(l) = {Head(l)} \union ToSet(Tail(l))
<1> DEFINE t == Tail(l)
<1>1. l \in Seq(Texts) /\ Len(l) \in Nat /\ DOMAIN l = 1 .. Len(l) /\ Len(l) # 0
  BY LenProperties, EmptySeq DEF Descends
<1>2. /\ t \in Seq(Texts) /\ Len(t) = Len(l) - 1 /\ DOMAIN t = 1 .. Len(t) /\ Head(l) = l[1]
      /\ \A i \in 1 .. Len(l) - 1 : t[i] = l[i + 1]
  BY <1>1, HeadTailProperties, LenProperties
<1> HIDE DEF t
<1>3. ASSUME NEW i \in 1 .. Len(t)
      PROVE  NoDoubles(t[i]) /\ (t[i] # << >> => DirName(t[i]) \in d \/ (i > 1 /\ DirName(t[i]) = t[i - 1]))
  <2>1. i + 1 \in 1 .. Len(l) /\ t[i] = l[i + 1] /\ (i + 1) - 1 = i /\ i \in 1 .. Len(l)
    BY <1>1, <1>2
  <2>2. NoDoubles(t[i]) /\ (t[i] # << >> => DirName(t[i]) \in d \/ DirName(t[i]) = l[i])
    BY <2>1 DEF Descends
  <2>3. i > 1 => t[i - 1] = l[i]
    BY <1>1, <1>2, <2>1
  <2>4. i = 1 => Plain(l[i]) \in d \/ l[i] \in d
    BY <1>2
  <2>5. i > 1 \/ i = 1
    OBVIOUS
  <2>6. t[i] \in Texts
    BY <1>1, <2>1, ElementOfSeq
  <2>7. Plain(DirName(t[i])) = DirName(t[i])
    BY <2>2, <2>6, DirNameIsPlain
  <2> QED BY <2>2, <2>3, <2>4, <2>5, <2>7
<1>4. Descends(t, d)
  BY <1>2, <1>3 DEF Descends
<1>5. ToSet(l) = {l[1]} \union ToSet(t)
  <2>1. ASSUME NEW i \in 1 .. Len(l) PROVE i = 1 \/ (i - 1 \in 1 .. Len(t) /\ t[i - 1] = l[i])
    BY <1>1, <1>2
  <2>2. ASSUME NEW i \in 1 .. Len(t) PROVE i + 1 \in 1 .. Len(l) /\ t[i] = l[i + 1]
    BY <1>1, <1>2
  <2>3. 1 \in 1 .. Len(l)
    BY <1>1
  <2>4. ToSet(l) \subseteq {l[1]} \union ToSet(t)
    <3>1. ASSUME NEW i \in 1 .. Len(l) PROVE l[i] = l[1] \/ l[i] \in {t[k] : k \in 1 .. Len(t)}
      BY <2>1
    <3>2. ToSet(l) = {l[i] : i \in 1 .. Len(l)} /\ ToSet(t) = {t[k] : k \in 1 .. Len(t)}
      BY <1>1, <1>2 DEF ToSet
    <3> QED BY <3>1, <3>2
  <2>5. {l[1]} \union ToSet(t) \subseteq ToSet(l)
    BY <1>1, <1>2, <2>2, <2>3 DEF ToSet
  <2> QED BY <2>4, <2>5
<1> QED BY <1>2, <1>4, <1>5 DEF t

LEMMA DInit == Init => DirsKept
<1> SUFFICES ASSUME Init PROVE DirsKept
  OBVIOUS
<1>1. /\ <<Sep>> \in FirstDirs
      /\ \A d \in FirstDirs : d # << >> /\ d = Plain(d) /\ d \notin OtherFiles /\ DirName(d) \notin OtherFiles
  BY AgentAssumption
<1> QED BY <1>1 DEF Init, DirsKept

(* The end of the process, whose reason is the one a directory gave.       *)
LEMMA DExit ==
  ASSUME DirsKept, Exit, failure' # "parent", failure' = "there" => meddled
  PROVE  DirsKept'
BY DEF DirsKept, Exit

(* A step that does not look at them.                                      *)
LEMMA DQuiet ==
  ASSUME DirsKept, UNCHANGED <<settings, dirs, meddled, failure>>,
         \/ main' = main /\ todo' = todo
         \/ {main, main'} \intersect {"off", "settings", "dirs", "mkdir", "load"} = {}
         \/ main = "load" /\ main' \notin {"off", "settings", "dirs", "mkdir", "load"}
  PROVE  DirsKept'
<1>1. OwnDirs' = OwnDirs /\ There' = There /\ \A d : (IsThere(d)' <=> IsThere(d)) /\ (IsDir(d)' <=> IsDir(d))
  BY DEF OwnDirs, Setting, IsThere, IsDir, There
<1>2. /\ main' \in {"dirs", "mkdir"} => main = main' /\ todo' = todo
      /\ main' = "load" => main = main'
      /\ main' # "off" => main # "off"
  OBVIOUS
<1>3. main' \in {"dirs", "mkdir"} =>
        /\ Descends(todo', There')
        /\ \A d \in OwnDirs' : IsThere(d)' \/ d \in ToSet(todo')
  BY <1>1, <1>2 DEF DirsKept, IsThere, IsDir
<1>4. main' = "mkdir" => todo' # << >> /\ Head(todo') # << >> /\ (IsDir(Head(todo))' => meddled')
  BY <1>1, <1>2 DEF DirsKept, IsDir
<1>5. main' = "load" => \A d \in OwnDirs' : IsDir(d)'
  BY <1>1, <1>2 DEF DirsKept, IsDir
<1> QED BY <1>2, <1>3, <1>4, <1>5 DEF DirsKept

LEMMA DBoot == ASSUME DirsKept, Boot PROVE DirsKept'
BY DEF DirsKept, Boot

(* The directories that have to be there are, with those they are in, what *)
(* yella_ensure_dir_exists goes over.  A name of its own ends in a         *)
(* separator.                                                              *)
Owned(l) == \A x \in ToSet(l) \ {<< >>} : x \notin OtherFiles \/ \E e \in ToSet(l) : DirName(e) = x

LEMMA DirOf ==
  ASSUME NEW s, WellSet(s), PlatformKeys \subseteq DOMAIN s, NEW key, key \in {"data-dir", "plugin-dir"}
  PROVE  LET l == EnsuredDirs(Get(s, "agent", key, "dir")) IN Descends(l, Roots) /\ Owned(l)
<1>1. KeyType(key) = "dir" /\ <<"agent", key>> \in DOMAIN s
  BY KeyTypesAre DEF PlatformKeys, DirKeys
<1> DEFINE t == Get(s, "agent", key, KeyType(key))
<1>2. t \in ValuesOf(KeyType(key))
  BY <1>1, GetIs
<1> HIDE DEF t
<1>3. t \in Texts /\ NoDoubles(t) /\ (t # << >> => t[Len(t)] = Sep)
  BY <1>1, <1>2 DEF ValuesOf, DirTexts
<1>4. Descends(EnsuredDirs(t), Roots) /\ Above(EnsuredDirs(t), t)
  BY <1>3, GetDirsDescends
<1>5. t # << >> => t \notin OtherFiles
  <2>1. ASSUME t # << >>, t \in OtherFiles PROVE FALSE
    <3>1. t = Plain(t) /\ t # <<Sep>> /\ Len(t) \in Nat /\ Len(t) # 0 /\ t[Len(t)] = Sep
      BY <1>3, <2>1, AgentAssumption, TextIs
    <3>2. CASE Len(t) > 1
      <4>1. Plain(t) = Upto(t, Len(t) - 1) /\ Len(t) - 1 \in 0 .. Len(t)
        BY <3>1, <3>2 DEF Plain, Last, Front, Upto
      <4>2. Len(Plain(t)) = Len(t) - 1
        BY <1>3, <4>1, UptoIs
      <4> QED BY <3>1, <4>2
    <3>3. CASE Len(t) = 1
      <4>1. t = <<t[1]>>
        BY <1>3, <3>3 DEF Texts
      <4> QED BY <3>1, <3>3, <4>1
    <3>4. \A n \in Nat : n # 0 => n > 1 \/ n = 1
      OBVIOUS
    <3> QED BY <3>1, <3>2, <3>3, <3>4
  <2> QED BY <2>1
<1>7. Owned(EnsuredDirs(t))
  BY <1>4, <1>5 DEF Above, Owned
<1> QED BY <1>1, <1>4, <1>7 DEF t

LEMMA OwnDirsAre ==
  ASSUME NEW s, WellSet(s), PlatformKeys \subseteq DOMAIN s
  PROVE  LET l == EnsuredDirs(Get(s, "agent", "data-dir", "dir")) \o EnsuredDirs(Get(s, "agent", "plugin-dir", "dir"))
         IN  Descends(l, Roots) /\ Owned(l)
<1> DEFINE l == EnsuredDirs(Get(s, "agent", "data-dir", "dir"))
           m == EnsuredDirs(Get(s, "agent", "plugin-dir", "dir"))
<1>1. Descends(l, Roots) /\ Descends(m, Roots) /\ Owned(l) /\ Owned(m)
  BY DirOf
<1> HIDE DEF l, m
<1>2. Descends(l \o m, Roots) /\ ToSet(l \o m) = ToSet(l) \union ToSet(m)
  BY <1>1, DescendsBoth
<1>3. Owned(l \o m)
  BY <1>1, <1>2 DEF Owned
<1> QED BY <1>2, <1>3 DEF l, m

LEMMA OwnDirsOf ==
  ASSUME SettingsKept, main \in {"dirs", "mkdir"}
  PROVE  /\ \A x \in OwnDirs : x # << >> /\ x \in Texts /\ NoDoubles(x)
         /\ \A x \in OwnDirs \intersect OtherFiles : \E e \in OwnDirs : DirName(e) = x
<1> DEFINE s == settings
           l == EnsuredDirs(Get(s, "agent", "data-dir", "dir"))
                  \o EnsuredDirs(Get(s, "agent", "plugin-dir", "dir"))
<1>1. WellSet(s) /\ PlatformKeys \subseteq DOMAIN s
  BY DEF SettingsKept
<1>2. OwnDirs = ToSet(l) \ {<< >>}
  BY DEF OwnDirs, Setting
<1> HIDE DEF s
<1>3. Descends(l, Roots) /\ Owned(l)
  BY <1>1, OwnDirsAre
<1> HIDE DEF l
<1>4. \A x \in ToSet(l) : x \in Texts /\ NoDoubles(x)
  BY <1>3, Descending
<1>5. DirName(<< >>) = <<".">> /\ <<".">> \notin OtherFiles
  BY AgentAssumption DEF DirName
<1> QED BY <1>2, <1>3, <1>4, <1>5 DEF Owned

LEMMA DLoadSettings == ASSUME DirsKept, SettingsKept', LoadSettings PROVE DirsKept'
<1> DEFINE s == settings'
           l == EnsuredDirs(Get(s, "agent", "data-dir", "dir"))
                  \o EnsuredDirs(Get(s, "agent", "plugin-dir", "dir"))
<1>1. main' = "dirs" /\ todo' = l /\ UNCHANGED <<dirs, meddled, failure>> /\ main # "off"
  BY DEF LoadSettings
<1>2. WellSet(s) /\ PlatformKeys \subseteq DOMAIN s
  <2>1. WellSet(settings)' /\ PlatformKeys \subseteq DOMAIN settings'
    BY <1>1 DEF SettingsKept
  <2> QED BY <2>1 DEF WellSet
<1>3. Descends(l, Roots)
  <2> HIDE DEF s
  <2> QED BY <1>2, OwnDirsAre
<1>4. OwnDirs' = ToSet(todo') \ {<< >>}
  BY <1>1 DEF OwnDirs, Setting
<1> HIDE DEF l, s
<1>5. Roots \subseteq There /\ There' = There
  BY <1>1 DEF DirsKept, Roots, There
<1>6. Descends(todo', There')
  BY <1>1, <1>3, <1>5, DescendsInMore
<1> QED BY <1>1, <1>4, <1>6 DEF DirsKept

LEMMA DLookAtDir == ASSUME DirsKept, LookAtDir PROVE DirsKept'
<1>1. /\ main = "dirs" /\ todo # << >> /\ Head(todo) # << >>
      /\ UNCHANGED <<settings, dirs, meddled, failure>>
      /\ IF IsThere(Head(todo)) THEN todo' = Tail(todo) /\ main' = main ELSE main' = "mkdir" /\ todo' = todo
  BY DEF LookAtDir
<1>2. Descends(todo, There) /\ \A d \in OwnDirs : IsThere(d) \/ d \in ToSet(todo)
  BY <1>1 DEF DirsKept
<1>3. OwnDirs' = OwnDirs /\ There' = There /\ \A d : (IsThere(d)' <=> IsThere(d)) /\ (IsDir(d)' <=> IsDir(d))
  BY <1>1 DEF OwnDirs, Setting, There, IsThere, IsDir
<1>4. Descends(todo', There) /\ \A d \in OwnDirs : IsThere(d) \/ d \in ToSet(todo')
  <2>1. CASE IsThere(Head(todo))
    <3>1. Plain(Head(todo)) \in There \/ Head(todo) \in There
      BY <2>1 DEF IsThere, IsDir, There
    <3> DEFINE l == todo
    <3> HIDE DEF l
    <3>2. Descends(l, There) /\ l # << >> /\ (Plain(Head(l)) \in There \/ Head(l) \in There)
      BY <1>1, <1>2, <3>1 DEF l
    <3>3. Descends(Tail(l), There) /\ ToSet(l) = {Head(l)} \union ToSet(Tail(l))
      BY <3>2, DescendsOn
    <3> QED BY <1>1, <1>2, <2>1, <3>2, <3>3 DEF l
  <2>2. CASE ~ IsThere(Head(todo))
    BY <1>1, <1>2, <2>2
  <2> QED BY <2>1, <2>2
<1>5. main' = "mkdir" => ~ IsDir(Head(todo))'
  BY <1>1 DEF IsThere, IsDir
<1>6. \A d \in OwnDirs' : IsThere(d)' \/ d \in ToSet(todo')
  BY <1>3, <1>4
<1> QED BY <1>1, <1>3, <1>4, <1>5, <1>6 DEF DirsKept

(* What is made, or what another process makes, is in a directory.         *)
LEMMA DMade ==
  ASSUME DirsKept, NEW d \in Texts, NoDoubles(d), d # << >>, dirs' = dirs \union {Plain(d)},
         Plain(d) \notin OtherFiles, DirName(d) \notin OtherFiles
  PROVE  /\ \A x \in dirs' : x # << >> /\ x = Plain(x) /\ x \notin OtherFiles /\ DirName(x) \notin OtherFiles
         /\ There \subseteq There' /\ (\A x : IsDir(x) => IsDir(x)') /\ (\A x : IsThere(x) => IsThere(x)') /\ IsDir(d)'
<1> DEFINE p == Plain(d)
<1>1. p # << >> /\ p = Plain(p) /\ DirName(p) = DirName(d)
  BY PlainIs, DirNameOfPlain
<1>2. \A x \in dirs : x # << >> /\ x = Plain(x) /\ x \notin OtherFiles /\ DirName(x) \notin OtherFiles
  BY DEF DirsKept
<1> HIDE DEF p
<1>3. dirs' = dirs \union {p} /\ p \notin OtherFiles
  BY DEF p
<1>4. \A x \in dirs' : x # << >> /\ x = Plain(x) /\ x \notin OtherFiles /\ DirName(x) \notin OtherFiles
  BY <1>1, <1>2, <1>3
<1> QED BY <1>4 DEF There, IsThere, IsDir

LEMMA DMakeDir == ASSUME DirsKept, MakeDir PROVE DirsKept'
<1> DEFINE d == Head(todo)
           l == todo
<1>1. main = "mkdir" /\ l # << >> /\ d # << >> /\ (IsDir(d) => meddled) /\ Descends(l, There)
      /\ \A x \in OwnDirs : IsThere(x) \/ x \in ToSet(l)
  BY DEF MakeDir, DirsKept
<1>2. d \in Texts /\ NoDoubles(d) /\ DirName(d) \in There
  <2>1. Len(l) \in Nat /\ Len(l) # 0 /\ d = l[1] /\ l \in Seq(Texts)
    BY <1>1, LenProperties, HeadTailProperties, EmptySeq DEF Descends
  <2>2. 1 \in 1 .. Len(l)
    BY <2>1
  <2>3. l[1] \in Texts
    BY <2>1, <2>2, ElementOfSeq
  <2> HIDE DEF l, d
  <2> QED BY <1>1, <2>1, <2>2, <2>3 DEF Descends
<1>3. DirName(d) \in OtherFiles \/ IsDir(DirName(d))
  BY <1>2, DirNameIsPlain DEF There, IsDir
<1>4. CASE failure' = "no"
  <2>1. /\ dirs' = dirs \union {Plain(d)} /\ todo' = Tail(l) /\ main' = "dirs" /\ UNCHANGED <<settings, meddled>>
        /\ Obstacle(d) = "no"
    BY <1>4 DEF MakeDir
  <2>2. PICK e \in Texts : /\ e = d /\ e # << >> /\ NoDoubles(e) /\ dirs' = dirs \union {Plain(e)}
                           /\ Plain(e) \notin OtherFiles /\ DirName(e) \notin OtherFiles
    BY <1>1, <1>2, <2>1 DEF Obstacle
  <2>3. /\ \A x \in dirs' : x # << >> /\ x = Plain(x) /\ x \notin OtherFiles /\ DirName(x) \notin OtherFiles
        /\ There \subseteq There' /\ (\A x : IsThere(x) => IsThere(x)') /\ IsDir(e)'
    BY <2>2, DMade
  <2>4. Plain(d) \in There'
    BY <2>1 DEF There
  <2> DEFINE E == There'
  <2>5. Descends(l, E)
    <3> HIDE DEF E, l
    <3> QED BY <1>1, <2>3, DescendsInMore DEF E
  <2>6. Descends(Tail(l), E) /\ ToSet(l) = {Head(l)} \union ToSet(Tail(l))
    <3> HIDE DEF E
    <3>1. Descends(l, E) /\ l # << >> /\ Plain(Head(l)) \in E
      BY <1>1, <2>4, <2>5 DEF E
    <3> HIDE DEF l
    <3> QED BY <3>1, DescendsOn
  <2>7. OwnDirs' = OwnDirs
    BY <2>1 DEF OwnDirs, Setting
  <2>8. \A x \in OwnDirs' : IsThere(x)' \/ x \in ToSet(todo')
    <3> SUFFICES ASSUME NEW x \in OwnDirs, x \notin ToSet(Tail(l)) PROVE IsThere(x)'
      BY <2>1, <2>7
    <3>1. IsThere(x) \/ x = d
      BY <1>1, <2>6
    <3>2. IsThere(e)'
      BY <2>3 DEF IsThere
    <3> HIDE DEF d
    <3> QED BY <2>2, <2>3, <3>1, <3>2
  <2> HIDE DEF d
  <2> QED BY <1>4, <2>1, <2>3, <2>6, <2>8 DEF DirsKept
<1>5. CASE failure' # "no"
  <2>1. Exit
    BY <1>5 DEF MakeDir
  <2>2. failure' = Obstacle(d) \/ failure' = "other"
    BY DEF MakeDir
  <2>3. Obstacle(d) # "parent" /\ (Obstacle(d) = "there" => meddled)
    BY <1>1, <1>3 DEF Obstacle
  <2> HIDE DEF d
  <2> QED BY <2>1, <2>2, <2>3, DExit
<1> QED BY <1>4, <1>5

LEMMA DDirsReady == ASSUME DirsKept, SettingsKept, DirsReady PROVE DirsKept'
<1>1. main = "dirs" /\ todo = << >> /\ main' = "load" /\ meddled' = FALSE /\ UNCHANGED <<settings, dirs, failure>>
  BY DEF DirsReady
<1>2. \A d \in OwnDirs : IsThere(d)
  <2>1. ToSet(<< >>) = {}
    BY DEF ToSet
  <2> QED BY <1>1, <2>1 DEF DirsKept
<1>3. ASSUME NEW d \in OwnDirs PROVE IsDir(d)
  <2>1. SUFFICES ASSUME d \in OtherFiles PROVE FALSE
    BY <1>2 DEF IsThere
  <2>2. PICK e \in OwnDirs : DirName(e) = d
    BY <1>1, <2>1, OwnDirsOf
  <2>3. e \in Texts /\ NoDoubles(e) /\ IsThere(e)
    BY <1>1, <1>2, OwnDirsOf
  <2>4. e \notin OtherFiles
    BY <2>1, <2>2, AgentAssumption
  <2>5. Plain(e) \in dirs \union {<<".">>}
    BY <2>3, <2>4 DEF IsThere, IsDir
  <2>6. DirName(Plain(e)) = d
    BY <2>2, <2>3, DirNameOfPlain
  <2>7. Plain(e) \in dirs => DirName(Plain(e)) \notin OtherFiles
    BY DEF DirsKept
  <2>8. ASSUME Plain(e) = <<".">> PROVE DirName(Plain(e)) \notin OtherFiles
    <3> DEFINE p == Plain(e)
    <3>1. p \in Texts /\ NoDoubles(p) /\ Len(p) = 1
      BY <2>3, <2>8, PlainIs
    <3> HIDE DEF p
    <3>2. LastNot(p) \in 0 .. 1
      BY <3>1, LastNotIs
    <3>3. DirName(p) \in Roots
      BY <3>1, <3>2, DirNameIs
    <3> QED BY <3>3, AgentAssumption DEF Roots, p
  <2> QED BY <2>1, <2>5, <2>6, <2>7, <2>8
<1>4. OwnDirs' = OwnDirs /\ \A d : IsDir(d)' <=> IsDir(d)
  BY <1>1 DEF OwnDirs, Setting, IsDir
<1>5. \A d \in OwnDirs' : IsDir(d)'
  BY <1>3, <1>4, <1>1 DEF IsDir
<1>6. failure = "no"
  BY <1>1 DEF DirsKept
<1> QED BY <1>1, <1>5, <1>6 DEF DirsKept

LEMMA DMeddle ==
  ASSUME DirsKept, SettingsKept, main \in {"dirs", "mkdir"}, NEW d \in OwnDirs, Meddle(d)
  PROVE  DirsKept'
<1>1. /\ dirs' = dirs \union {Plain(d)} /\ meddled' = TRUE /\ UNCHANGED <<settings, todo, failure, main>>
      /\ Plain(d) \notin OtherFiles /\ IsDir(DirName(d))
  BY DEF Meddle
<1>2. d # << >> /\ d \in Texts /\ NoDoubles(d)
  BY OwnDirsOf
<1>3. OwnDirs' = OwnDirs
  BY <1>1 DEF OwnDirs, Setting
<1>4. DirName(d) \notin OtherFiles
  <2>1. DirName(d) \in dirs \union {<<".">>}
    BY <1>1, <1>2, DirNameIsPlain DEF IsDir
  <2> QED BY <2>1, AgentAssumption DEF DirsKept
<1>5. /\ \A x \in dirs' : x # << >> /\ x = Plain(x) /\ x \notin OtherFiles /\ DirName(x) \notin OtherFiles
      /\ There \subseteq There' /\ \A x : IsThere(x) => IsThere(x)'
  BY <1>1, <1>2, <1>4, DMade
<1>6. Descends(todo, There) /\ \A x \in OwnDirs : IsThere(x) \/ x \in ToSet(todo)
  BY DEF DirsKept
<1>7. Descends(todo, There')
  <2> DEFINE l == todo
             D == There
             E == There'
  <2>1. Descends(l, D) /\ D \subseteq E
    BY <1>5, <1>6
  <2> HIDE DEF D, E, l
  <2>2. Descends(l, E)
    BY <2>1, DescendsInMore
  <2> QED BY <2>2 DEF l, E
<1>8. \A x \in OwnDirs' : IsThere(x)' \/ x \in ToSet(todo')
  BY <1>1, <1>3, <1>5, <1>6
<1> QED BY <1>1, <1>5, <1>7, <1>8 DEF DirsKept

(* Every step of the agent keeps its directories.                          *)
LEMMA DNext == SettingsKept /\ SettingsKept' /\ DirsKept /\ [Next]_vars => DirsKept'
<1> SUFFICES ASSUME SettingsKept, SettingsKept', DirsKept, [Next]_vars PROVE DirsKept'
  OBVIOUS
<1>1. ASSUME \/ Crash \/ NoRouter \/ RouterFails \/ (\E p \in Plugins : MemoryIsLost(p)) \/ PluginsStopped
      PROVE  DirsKept'
  <2>1. Exit /\ failure' = failure
    BY <1>1 DEF Crash, NoRouter, RouterFails, MemoryIsLost, PluginsStopped, After
  <2> QED BY <2>1, DExit DEF DirsKept
<1>2. CASE NoDir
  BY <1>2, DExit DEF NoDir
<1>3. ASSUME \/ Signal \/ Hang \/ KeepState \/ ResetState \/ OpenFails \/ Truncate \/ Write
             \/ UNCHANGED vars
      PROVE  DirsKept'
  <2>1. /\ UNCHANGED <<settings, dirs, meddled, failure>>
        /\ \/ main' = main /\ todo' = todo
           \/ main = "load" /\ main' \in {"hung", "save"}
           \/ {main, main'} \subseteq {"save", "write", "router"}
    BY <1>3 DEF Signal, Hang, KeepState, ResetState, OpenFails, Truncate, Write, vars, startup
  <2> QED BY <2>1, DQuiet
<1>4. ASSUME \/ StartRouter \/ PluginsLoaded \/ StartHeartbeat \/ SetCallback \/ Terminate
             \/ HeartbeatJoined \/ DestroySenders \/ RouterDestroyed \/ FreeHandlers
             \/ StopPlugin \/ Beat \/ AskPlugin \/ SendHeartbeat \/ HeartbeatEnds
             \/ (\E t \in Types : Dispatch(t)) \/ HandlerReturns \/ WorkerEnds
             \/ (\E p \in Plugins : PluginSends(p))
      PROVE  DirsKept'
  <2>1. /\ UNCHANGED <<settings, dirs, meddled, failure>>
        /\ \/ main' = main /\ todo' = todo
           \/ {main, main'} \intersect {"off", "settings", "dirs", "mkdir", "load"} = {}
    BY <1>4 DEF StartRouter, PluginsLoaded, StartHeartbeat, SetCallback, Terminate, HeartbeatJoined,
                DestroySenders, RouterDestroyed, FreeHandlers, After, StopPlugin, Beat, AskPlugin, SendHeartbeat,
                HeartbeatEnds, Dispatch, CanDispatch, HandlerReturns, WorkerEnds, PluginSends, startup
  <2> QED BY <2>1, DQuiet
<1>5. CASE LoadPlugin
  <2>1. main = "plugins" /\ main' = main /\ UNCHANGED <<dirs, meddled, failure>>
    BY <1>5 DEF LoadPlugin
  <2> QED BY <2>1 DEF DirsKept
<1>6. ASSUME NEW d \in IF main \in {"dirs", "mkdir"} THEN OwnDirs ELSE {}, Meddle(d) PROVE DirsKept'
  BY <1>6, DMeddle
<1>7. CASE Next
  BY <1>1, <1>2, <1>3, <1>4, <1>5, <1>6, <1>7, DBoot, DLoadSettings, DLookAtDir, DMakeDir, DDirsReady DEF Next
<1> QED BY <1>3, <1>7

(* The directories are kept.                                               *)
THEOREM DirsAreKept == Spec => []DirsKept
BY SettingsAreKept, DInit, DNext, PTL DEF Spec

(* The agent goes on only when its directories, and those they are in, are *)
(* directories, and never gives up because the one a directory is in is    *)
(* not there, or because it is, unless another process made one.           *)
(* (file_posix.c:311)                                                      *)
THEOREM DirsAreEnsured == Spec => []DirsAreThere
<1>1. DirsKept => DirsAreThere
  BY DEF DirsKept, DirsAreThere, AgentIsSet
<1> QED BY <1>1, DirsAreKept, PTL

(* The variables of the agent take the values they are meant to.           *)
THEOREM AgentIsTyped == Spec => []TypeOK
<1>1. AInv /\ SettingsKept /\ DirsKept => TypeOK
  <2> SUFFICES ASSUME AInv, SettingsKept, DirsKept PROVE TypeOK
    OBVIOUS
  <2>1. doc # Null => DocIsKept /\ doc \in {LoadSettingsDoc(f) : f \in ConfigFiles}
    BY DEF SettingsKept
  <2>2. \A k \in DOMAIN settings : k[1] \in {"agent", "file"} /\ settings[k].type \in SettingTypes
    BY DEF SettingsKept, WellSet, Keys, SettingEntries
  <2>3. (\A d \in dirs : d # << >> /\ d = Plain(d)) /\ meddled \in BOOLEAN
    BY DEF DirsKept
  <2> QED BY <2>1, <2>2, <2>3 DEF AInv, CoreTyped, TypeOK
<1> QED BY <1>1, AInvHolds, SettingsAreKept, DirsAreKept, PTL

===============================================================================
