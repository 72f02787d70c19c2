-------------------------- MODULE ChangeReportsProofs --------------------------
(***************************************************************************)
(* The reports follow the database and make sense to their recipient, for  *)
(* any files, attributes and values, and however often files change,       *)
(* requests come and the agent is started.                                 *)
(***************************************************************************)
EXTENDS ChangeReports, SequenceTheorems, TLAPS

(* The report that is about to be added fits what the recipient was told,  *)
(* and brings it to what the database says.                                *)
Pending ==
  step = "report" /\ cur \notin astray =>
    /\ Applied(cond, elem, told[cur]) = db[cur]
    /\ (cond = "ADDED") <=> (told[cur] = Absent)
    /\ told[cur] # db[cur]

(* The destroyed element that crawl_dir may use again: its row is missing  *)
(* only if it could not be written, and it is whole then.                  *)
Stale ==
  step \in {"next", "report"} /\ freed =>
    /\ cur \in Files /\ elem # Absent
    /\ db[cur] = Absent => elem \in Elements
    /\ step = "next" /\ cur \notin astray => db[cur] # Absent

IInv == TypeOK /\ ReportsFollowDb /\ Pending /\ Stale

-----------------------------------------------------------------------------
(* The operators                                                           *)

(* An element is one of the sets of attributes; Absent is none.            *)
LEMMA ElementsAreAttrs == Elements \subseteq Attrs /\ Absent \notin Elements
  BY ReportsAssumption DEF Elements, Attrs

(* diff_elements leaves some of the new attributes, and with them the old  *)
(* ones become the new ones.                                               *)
LEMMA DiffTellsAll ==
  ASSUME NEW new \in Elements, NEW old \in Elements
  PROVE  Diff(new, old) \in Attrs /\ Overlay(Diff(new, old), old) = new
<1> DEFINE S == {u \in Types : new[u] # old[u]}
<1>1. Diff(new, old) \in [S -> Values] /\ S \in SUBSET Types
  BY DEF Diff, Elements
<1>2. DOMAIN Diff(new, old) \union DOMAIN old = Types
  BY <1>1 DEF Elements
<1>3. Overlay(Diff(new, old), old) = [t \in Types |-> new[t]]
  BY <1>1, <1>2 DEF Overlay, Diff, Elements
<1>4. [t \in Types |-> new[t]] = new
  BY DEF Elements
<1> QED BY <1>1, <1>3, <1>4 DEF Attrs

(* Attributes put over others are attributes.                              *)
LEMMA OverlayType ==
  ASSUME NEW a \in Attrs, NEW b \in Attrs
  PROVE  Overlay(a, b) \in Attrs
<1>1. PICK S \in SUBSET Types : a \in [S -> Values]
  BY DEF Attrs
<1>2. PICK T \in SUBSET Types : b \in [T -> Values]
  BY DEF Attrs
<1>3. Overlay(a, b) \in [S \union T -> Values]
  BY <1>1, <1>2 DEF Overlay
<1> QED BY <1>3 DEF Attrs

(* A report leaves its recipient with attributes, or with nothing when it  *)
(* says that the file was removed.                                         *)
LEMMA AppliedType ==
  ASSUME NEW c \in {"ADDED", "CHANGED", "REMOVED"}, NEW e \in Attrs \union {Absent},
         NEW before \in Attrs \union {Absent}, c = "REMOVED" <=> e = Absent
  PROVE  /\ Applied(c, e, before) \in Attrs \union {Absent}
         /\ Applied(c, e, before) = Absent <=> c = "REMOVED"
<1>1. CASE c = "ADDED"
  BY <1>1, ReportsAssumption DEF Applied
<1>2. CASE c = "REMOVED"
  BY <1>2 DEF Applied
<1>3. CASE c = "CHANGED" /\ before = Absent
  BY <1>3, ReportsAssumption DEF Applied
<1>4. CASE c = "CHANGED" /\ before # Absent
  BY <1>4, OverlayType, ReportsAssumption DEF Applied
<1> QED BY <1>1, <1>2, <1>3, <1>4

(* What process_element reports of a file, and what it makes of what was   *)
(* known when that was the row.                                            *)
LEMMA ReportedFits ==
  ASSUME NEW e \in Elements \union {Absent}, NEW row \in Elements \union {Absent},
         Condition(e, row) # "none"
  PROVE  /\ Condition(e, row) \in {"ADDED", "CHANGED", "REMOVED"}
         /\ Condition(e, row) = "REMOVED" <=> e = Absent
         /\ Condition(e, row) = "ADDED" <=> row = Absent
         /\ Condition(e, row) = "ADDED" => Reported(e, row) = e
         /\ Reported(e, row) \in Attrs \union {Absent}
         /\ Reported(e, row) = Absent <=> e = Absent
         /\ Applied(Condition(e, row), Reported(e, row), row) = e
         /\ row # e
<1>1. CASE row = Absent /\ e # Absent
  BY <1>1, ElementsAreAttrs DEF Condition, Reported, Applied
<1>2. CASE row # Absent /\ e = Absent
  BY <1>2, ElementsAreAttrs DEF Condition, Reported, Applied
<1>3. CASE row # Absent /\ e # Absent /\ e # row
  <2>1. Condition(e, row) = "CHANGED"
    BY <1>3 DEF Condition
  <2>2. Reported(e, row) = Diff(e, row)
    BY <2>1 DEF Reported
  <2>3. Diff(e, row) \in Attrs /\ Overlay(Diff(e, row), row) = e
    BY <1>3, DiffTellsAll
  <2>4. Applied("CHANGED", Diff(e, row), row) = e
    BY <1>3, <2>3 DEF Applied
  <2> QED BY <1>3, <2>1, <2>2, <2>3, <2>4, ReportsAssumption
<1> QED BY <1>1, <1>2, <1>3 DEF Condition

(* If there is nothing to report, the row says what was collected.         *)
LEMMA NothingToReport ==
  ASSUME NEW e \in Elements \union {Absent}, NEW row \in Elements \union {Absent},
         Condition(e, row) = "none"
  PROVE  e = row /\ Reported(e, row) = e
  BY DEF Condition, Reported

-----------------------------------------------------------------------------
(* Initially                                                               *)

LEMMA InitIInv == Init => IInv
<1> SUFFICES ASSUME Init PROVE IInv
  OBVIOUS
<1>1. TypeOK
  BY ReportsAssumption, EmptySeq DEF Init, TypeOK, Names, HandlerStates, JobSteps
<1> QED BY <1>1 DEF Init, IInv, ReportsFollowDb, Pending, Stale

-----------------------------------------------------------------------------
(* The steps                                                               *)

(* What the rows, the reports and the running job are leaves alone.        *)
LEMMA SameReports ==
  ASSUME IInv, TypeOK', UNCHANGED <<runner, db, told, astray>>
  PROVE  IInv'
  BY DEF IInv, ReportsFollowDb, Pending, Stale, runner

LEMMA ChangeIInv ==
  ASSUME IInv, NEW n \in Names, Change(n)
  PROVE  IInv'
<1>1. Contents(n) \subseteq Elements \union {Absent}
  <2>1. PICK v : v \in Values
    BY ReportsAssumption
  <2>2. [t \in Types |-> v] \in Elements
    BY <2>1 DEF Elements
  <2>3. (CHOOSE e \in Elements : TRUE) \in Elements
    BY <2>2
  <2> QED BY <2>3 DEF Contents
<1>2. PICK e \in Contents(n) : disk' = [disk EXCEPT ![n] = e]
  BY DEF Change
<1>3. disk' \in [Names -> Elements \union {Absent}]
  BY <1>1, <1>2 DEF IInv, TypeOK
<1>4. TypeOK'
  BY <1>3 DEF IInv, TypeOK, Change, runner, Names
<1> QED BY <1>4, SameReports DEF Change

LEMMA EventReceivedIInv ==
  ASSUME IInv, NEW n \in Names, EventReceived(n)
  PROVE  IInv'
<1>1. JobsOf(n) \in Seq(Files \union {NoFile})
  <2>1. CASE n \in Files
    BY <2>1 DEF JobsOf
  <2>2. CASE n \notin Files
    BY <2>2, EmptySeq DEF JobsOf
  <2> QED BY <2>1, <2>2
<1>2. queue' \in Seq(Files \union {NoFile})
  BY <1>1 DEF IInv, TypeOK, EventReceived
<1>3. TypeOK'
  BY <1>2 DEF IInv, TypeOK, EventReceived, runner
<1> QED BY <1>3, SameReports DEF EventReceived

LEMMA HandlerIInv ==
  ASSUME IInv, PushScan \/ Handler
  PROVE  IInv'
<1>1. CASE PushScan
  <2>1. queue' \in Seq(Files \union {NoFile})
    BY <1>1 DEF IInv, TypeOK, PushScan
  <2>2. TypeOK'
    BY <1>1, <2>1 DEF IInv, TypeOK, PushScan, HandlerStates, runner, system
  <2> QED BY <1>1, <2>2, SameReports DEF PushScan
<1>2. CASE StopMonitor
  <2>1. TypeOK'
    BY <1>2 DEF IInv, TypeOK, StopMonitor, HandlerStates, runner
  <2> QED BY <1>2, <2>1, SameReports DEF StopMonitor
<1>3. CASE StartMonitor
  <2>1. TypeOK'
    BY <1>3 DEF IInv, TypeOK, StartMonitor, HandlerStates, runner
  <2> QED BY <1>3, <2>1, SameReports DEF StartMonitor
<1>4. CASE SaveConfigs
  <2>1. TypeOK'
    BY <1>4 DEF IInv, TypeOK, SaveConfigs, HandlerStates, runner, system
  <2> QED BY <1>4, <2>1, SameReports DEF SaveConfigs
<1> QED BY <1>1, <1>2, <1>3, <1>4 DEF Handler

LEMMA TakeJobIInv ==
  ASSUME IInv, TakeJob
  PROVE  IInv'
<1>1. queue' \in Seq(Files \union {NoFile}) /\ Head(queue) \in Files \union {NoFile}
  BY HeadTailProperties DEF IInv, TypeOK, TakeJob
<1>2. todo' \subseteq Names
  BY <1>1 DEF TakeJob, ToLookAt, Present, Names
<1>3. TypeOK'
  BY <1>1, <1>2 DEF IInv, TypeOK, TakeJob, JobSteps, system
<1> QED BY <1>3 DEF IInv, TakeJob, ReportsFollowDb, Pending, Stale

(* A job without a database looks at nothing.                              *)
LEMMA SkipJobIInv ==
  ASSUME IInv, SkipJob
  PROVE  IInv'
<1>1. queue' \in Seq(Files \union {NoFile}) /\ unseen' \subseteq Files
  BY HeadTailProperties DEF IInv, TypeOK, SkipJob
<1>2. TypeOK'
  BY <1>1 DEF IInv, TypeOK, SkipJob, system, runner
<1> QED BY <1>2, SameReports DEF SkipJob

LEMMA EndJobIInv ==
  ASSUME IInv, EndJob
  PROVE  IInv'
<1>1. TypeOK'
  BY DEF IInv, TypeOK, EndJob, JobSteps, system
<1> QED BY <1>1 DEF IInv, EndJob, ReportsFollowDb, Pending, Stale

(* Collecting the element of a job (job.c) keeps IInv.                     *)
LEMMA CollectIInv ==
  ASSUME IInv, NEW n \in Names, Collect(n)
  PROVE  IInv'
<1>1. TypeOK'
  BY ElementsAreAttrs DEF IInv, TypeOK, Collect, JobSteps, system
<1> QED BY <1>1 DEF IInv, Collect, ReportsFollowDb, Pending, Stale

(* Of the file that is compared, the row and what was told agree, unless   *)
(* it went astray.                                                         *)
LEMMA CompareFits ==
  ASSUME IInv, Compare
  PROVE  /\ cur \in Files /\ elem \in Elements \union {Absent}
         /\ db[cur] \in Elements \union {Absent} /\ told[cur] \in Attrs \union {Absent}
         /\ cur \notin astray => told[cur] = db[cur]
         /\ cond' \in {"none", "ADDED", "CHANGED", "REMOVED"}
         /\ elem' \in Attrs \union {Absent} /\ (elem' = Absent <=> elem = Absent)
         /\ cond' # "none" => (cond' = "REMOVED" <=> elem' = Absent)
<1>1. /\ cur \in Files /\ elem \in Elements \union {Absent}
      /\ db[cur] \in Elements \union {Absent} /\ told[cur] \in Attrs \union {Absent}
  BY DEF IInv, TypeOK, Compare, Names
<1>2. cur \notin astray => told[cur] = db[cur]
  BY <1>1 DEF IInv, ReportsFollowDb, Compare
<1>3. cond' = Condition(elem, db[cur]) /\ elem' = Reported(elem, db[cur])
  BY DEF Compare
<1>4. CASE cond' = "none"
  BY <1>1, <1>2, <1>3, <1>4, NothingToReport, ElementsAreAttrs
<1>5. CASE cond' # "none"
  BY <1>1, <1>2, <1>3, <1>5, ReportedFits
<1> QED BY <1>4, <1>5, <1>1, <1>2

LEMMA StoreIInv ==
  ASSUME IInv, Store
  PROVE  IInv'
<1>1. /\ cur \in Files /\ elem \in Elements \union {Absent}
      /\ db[cur] \in Elements \union {Absent} /\ told[cur] \in Attrs \union {Absent}
      /\ cur \notin astray => told[cur] = db[cur]
      /\ cond' \in {"none", "ADDED", "CHANGED", "REMOVED"}
      /\ elem' \in Attrs \union {Absent} /\ (elem' = Absent <=> elem = Absent)
      /\ cond' # "none" => (cond' = "REMOVED" <=> elem' = Absent)
  BY CompareFits DEF Store
<1>2. /\ Compare /\ cur' = cur /\ astray' = astray /\ told' = told
      /\ db' = [db EXCEPT ![cur] = elem]
      /\ step' = IF cond' = "none" THEN "next" ELSE "report"
      /\ freed' = (elem # Absent)
  BY DEF Store, Compare, Stored
<1>3. db \in [Names -> Elements \union {Absent}] /\ cur \in Names
  BY <1>1 DEF IInv, TypeOK, Names
<1>4. db'[cur] = elem /\ \A n \in Files \ {cur} : db'[n] = db[n]
  BY <1>2, <1>3 DEF Names
<1>5. TypeOK'
  <2>1. db' \in [Names -> Elements \union {Absent}]
    BY <1>1, <1>2, <1>3
  <2> QED BY <1>1, <1>2, <2>1 DEF IInv, TypeOK, Compare, JobSteps, system
<1>6. cond' = Condition(elem, db[cur]) /\ elem' = Reported(elem, db[cur])
  BY <1>2 DEF Compare
<1>7. ReportsFollowDb'
  <2> SUFFICES ASSUME NEW n \in Files \ astray, ~(step' = "report" /\ cur = n)
               PROVE  told[n] = db'[n]
    BY <1>2 DEF ReportsFollowDb
  <2>1. CASE n = cur
    <3>1. cond' = "none"
      BY <1>2, <2>1
    <3>2. Condition(elem, db[cur]) = "none"
      BY <1>6, <3>1
    <3>3. elem = db[cur]
      BY <1>1, <3>2, NothingToReport
    <3> QED BY <1>1, <1>4, <2>1, <3>3
  <2>2. CASE n # cur
    BY <1>2, <1>4, <2>2 DEF IInv, ReportsFollowDb
  <2> QED BY <2>1, <2>2
<1>8. Pending'
  <2> SUFFICES ASSUME step' = "report", cur \notin astray
               PROVE  /\ Applied(cond', elem', told[cur]) = elem
                      /\ (cond' = "ADDED") <=> (told[cur] = Absent)
                      /\ told[cur] # elem
    BY <1>2, <1>4 DEF Pending
  <2>1. cond' # "none" /\ told[cur] = db[cur]
    BY <1>1, <1>2
  <2> QED BY <1>1, <1>6, <2>1, ReportedFits
<1>9. Stale'
  BY <1>1, <1>2, <1>4 DEF Stale
<1> QED BY <1>5, <1>7, <1>8, <1>9 DEF IInv

(* A row that could not be stored leaves database and reports alone.       *)
LEMMA StoreFailsIInv ==
  ASSUME IInv, StoreFails
  PROVE  IInv'
<1>1. /\ cur \in Files /\ elem \in Elements \union {Absent}
      /\ db[cur] \in Elements \union {Absent}
      /\ cond' \in {"none", "ADDED", "CHANGED", "REMOVED"}
      /\ elem' \in Attrs \union {Absent} /\ (elem' = Absent <=> elem = Absent)
      /\ cond' # "none" => (cond' = "REMOVED" <=> elem' = Absent)
  BY CompareFits DEF StoreFails
<1>2. /\ cur' = cur /\ astray' = astray \union {cur} /\ told' = told /\ db' = db
      /\ step' = "report" /\ freed' = (elem # Absent) /\ cond' # "none"
      /\ cond' = Condition(elem, db[cur]) /\ elem' = Reported(elem, db[cur])
  BY DEF StoreFails, Compare
<1>3. TypeOK'
  BY <1>1, <1>2 DEF IInv, TypeOK, StoreFails, Compare, JobSteps, system
<1>4. ReportsFollowDb' /\ Pending'
  BY <1>2 DEF IInv, ReportsFollowDb, Pending, StoreFails, Compare
<1>5. db[cur] = Absent => elem' = elem /\ elem \in Elements \union {Absent}
  BY <1>1, <1>2, ReportedFits
<1>6. Stale'
  BY <1>1, <1>2, <1>5 DEF Stale
<1> QED BY <1>3, <1>4, <1>6 DEF IInv

(* A row that could not be read: what is reported of the file is astray.   *)
LEMMA ReadFailsIInv ==
  ASSUME IInv, ReadFails
  PROVE  IInv'
<1>1. /\ cur \in Files /\ elem \in Elements \union {Absent} /\ db[cur] # Absent
      /\ elem' = elem /\ cur' = cur /\ db' = db /\ told' = told /\ freed' = (elem # Absent)
  BY DEF IInv, TypeOK, ReadFails
<1>2. CASE elem = Absent
  <2>1. cond' = "none" /\ step' = "next" /\ astray' = astray /\ unseen' \subseteq Files
    BY <1>1, <1>2 DEF ReadFails, Condition, IInv, TypeOK
  <2>2. TypeOK'
    BY <1>1, <1>2, <2>1, ElementsAreAttrs DEF IInv, TypeOK, ReadFails, JobSteps, system
  <2>3. ReportsFollowDb'
    BY <1>1, <2>1 DEF IInv, ReportsFollowDb, ReadFails
  <2> QED BY <1>1, <1>2, <2>1, <2>2, <2>3 DEF IInv, Pending, Stale
<1>3. CASE elem # Absent
  <2>1. cond' = "ADDED" /\ step' = "report" /\ astray' = astray \union {cur} /\ unseen' = unseen
    BY <1>1, <1>3 DEF ReadFails, Condition
  <2>2. TypeOK'
    BY <1>1, <1>3, <2>1, ElementsAreAttrs DEF IInv, TypeOK, ReadFails, JobSteps, system
  <2>3. ReportsFollowDb'
    BY <1>1, <2>1 DEF IInv, ReportsFollowDb, ReadFails
  <2> QED BY <1>1, <1>3, <2>1, <2>2, <2>3 DEF IInv, Pending, Stale
<1> QED BY <1>2, <1>3

LEMMA AddReportIInv ==
  ASSUME IInv, AddReport
  PROVE  IInv'
<1>1. /\ cur \in Files /\ cur \in Names /\ elem \in Attrs \union {Absent}
      /\ cond \in {"ADDED", "CHANGED", "REMOVED"} /\ (cond = "REMOVED" <=> elem = Absent)
      /\ told \in [Names -> Attrs \union {Absent}]
  BY DEF IInv, TypeOK, AddReport, Names
<1>2. /\ Applied(cond, elem, told[cur]) \in Attrs \union {Absent}
      /\ Applied(cond, elem, told[cur]) = Absent <=> cond = "REMOVED"
  BY <1>1, AppliedType
<1>3. /\ told'[cur] = Applied(cond, elem, told[cur])
      /\ \A n \in Files \ {cur} : told'[n] = told[n]
  BY <1>1 DEF AddReport, Names
<1>4. TypeOK'
  <2>1. told' \in [Names -> Attrs \union {Absent}]
    BY <1>1, <1>2 DEF AddReport
  <2>2. astray' \subseteq Files
    BY DEF IInv, TypeOK, AddReport
  <2> QED BY <2>1, <2>2 DEF IInv, TypeOK, AddReport, JobSteps, system
<1>5. cur \notin astray' => told'[cur] = db[cur]
  BY <1>3 DEF IInv, Pending, AddReport
<1>6. ReportsFollowDb'
  <2> SUFFICES ASSUME NEW n \in Files \ astray'
               PROVE  told'[n] = db[n]
    BY DEF ReportsFollowDb, AddReport
  <2>1. CASE n = cur
    BY <1>5, <2>1
  <2>2. CASE n # cur
    <3>1. n \notin astray
      BY <2>2 DEF AddReport
    <3> QED BY <1>3, <2>2, <3>1 DEF IInv, ReportsFollowDb
  <2> QED BY <2>1, <2>2
<1>7. Pending'
  BY DEF Pending, AddReport
<1>8. Stale'
  <2>1. freed => elem # Absent /\ (db[cur] = Absent => elem \in Elements)
    BY DEF IInv, Stale, AddReport
  <2>2. freed /\ cur \notin astray' => db[cur] # Absent
    BY <1>1, <1>2, <1>3, <1>5, <2>1
  <2> QED BY <1>1, <2>1, <2>2 DEF Stale, AddReport
<1> QED BY <1>4, <1>6, <1>7, <1>8 DEF IInv

LEMMA CrawlOtherIInv ==
  ASSUME IInv, NEW n \in Names, CrawlOther(n)
  PROVE  IInv'
<1>1. n \in Others /\ n \notin Files /\ step = "next" /\ step' = "next"
  BY ReportsAssumption DEF CrawlOther
<1>2. CASE UNCHANGED <<told, db>>
  <2>1. TypeOK'
    BY <1>2 DEF IInv, TypeOK, CrawlOther, system
  <2> QED BY <1>2, <2>1 DEF IInv, CrawlOther, ReportsFollowDb, Pending, Stale
<1>3. CASE freed /\ told' = [told EXCEPT ![n] = elem]
           /\ db' = IF db[cur] = Absent THEN [db EXCEPT ![cur] = elem] ELSE db
  <2>1. /\ cur \in Files /\ cur \in Names /\ elem \in Attrs
        /\ db[cur] = Absent => elem \in Elements /\ elem # Absent /\ cur \in astray
    BY <1>1, <1>3 DEF IInv, Stale, TypeOK, Names
  <2>2. /\ db' \in [Names -> Elements \union {Absent}]
        /\ \A m \in Files \ astray : db'[m] = db[m]
        /\ db'[cur] # Absent
    BY <1>3, <2>1 DEF IInv, TypeOK, Names
  <2>3. /\ told' \in [Names -> Attrs \union {Absent}]
        /\ \A m \in Files : told'[m] = told[m]
    BY <1>1, <1>3, <2>1 DEF IInv, TypeOK, Names
  <2>4. TypeOK'
    BY <2>2, <2>3 DEF IInv, TypeOK, CrawlOther, system
  <2>5. ReportsFollowDb'
    BY <1>1, <2>2, <2>3 DEF IInv, ReportsFollowDb, CrawlOther
  <2>6. Pending' /\ Stale'
    BY <1>1, <1>3, <2>1, <2>2 DEF IInv, Pending, Stale, CrawlOther
  <2> QED BY <2>4, <2>5, <2>6 DEF IInv
<1> QED BY <1>2, <1>3 DEF CrawlOther

LEMMA SendIInv ==
  ASSUME IInv, Send
  PROVE  IInv'
<1>1. TypeOK'
  BY DEF IInv, TypeOK, Send, system, runner
<1> QED BY <1>1, SameReports DEF Send

LEMMA StopIInv ==
  ASSUME IInv, Stop
  PROVE  IInv'
<1>1. TypeOK'
  BY DEF IInv, TypeOK, Stop, runner
<1> QED BY <1>1, SameReports DEF Stop

(* What was lost leaves told and known alike; a report that was taken from *)
(* a file that did not go astray was sent before.                          *)
LEMMA LostFollows ==
  ASSUME IInv, Lost, UNCHANGED db
  PROVE  /\ told' \in [Names -> Attrs \union {Absent}] /\ astray' \subseteq Files
         /\ \A n \in Files \ astray' : told'[n] = db'[n]
<1>1. step = "report" => cur \in Files
  BY DEF IInv, TypeOK
<1>2. told' \in [Names -> Attrs \union {Absent}] /\ astray' \subseteq Files
  BY <1>1 DEF IInv, TypeOK, Lost
<1>3. ASSUME NEW n \in Files \ astray'
      PROVE  told'[n] = db'[n]
  <2>1. n \notin astray /\ told[n] = known[n] /\ ~(step = "report" /\ cur = n)
    BY DEF Lost
  <2> QED BY <2>1 DEF IInv, ReportsFollowDb, Lost
<1> QED BY <1>2, <1>3

LEMMA StoppedIInv ==
  ASSUME IInv, Stopped
  PROVE  IInv'
<1>1. step = "idle" /\ UNCHANGED <<runner, db>> /\ unseen' \subseteq Files
      /\ queue' \in Seq(Files \union {NoFile})
  BY EmptySeq DEF IInv, TypeOK, Stopped
<1>2. Pending' /\ Stale'
  BY <1>1 DEF Pending, Stale, runner
<1>3. CASE known' = told /\ UNCHANGED <<told, astray>>
  <2>1. TypeOK'
    BY <1>1, <1>3 DEF IInv, TypeOK, Stopped, runner, system
  <2>2. ReportsFollowDb'
    BY <1>1, <1>3 DEF IInv, ReportsFollowDb, runner
  <2> QED BY <1>2, <2>1, <2>2 DEF IInv
<1>4. CASE Lost
  <2>1. /\ told' \in [Names -> Attrs \union {Absent}] /\ astray' \subseteq Files
        /\ \A n \in Files \ astray' : told'[n] = db'[n]
    BY <1>1, <1>4, LostFollows
  <2>2. TypeOK'
    BY <1>1, <1>4, <2>1 DEF IInv, TypeOK, Stopped, Lost, runner, system
  <2>3. ReportsFollowDb'
    BY <2>1 DEF ReportsFollowDb
  <2> QED BY <1>2, <2>2, <2>3 DEF IInv
<1> QED BY <1>3, <1>4 DEF Stopped

(* A crash loses the queue, not the database.                              *)
LEMMA CrashIInv ==
  ASSUME IInv, Crash
  PROVE  IInv'
<1>1. /\ step' = "idle" /\ UNCHANGED db /\ unseen' \subseteq Files /\ Lost
      /\ queue' \in Seq(Files \union {NoFile}) /\ saved' \in BOOLEAN
  BY EmptySeq DEF IInv, TypeOK, Crash
<1>2. /\ told' \in [Names -> Attrs \union {Absent}] /\ astray' \subseteq Files
      /\ \A n \in Files \ astray' : told'[n] = db'[n]
  BY <1>1, LostFollows
<1>3. TypeOK'
  BY <1>1, <1>2 DEF IInv, TypeOK, Crash, Lost, JobSteps, HandlerStates
<1>4. ReportsFollowDb' /\ Pending' /\ Stale'
  BY <1>1, <1>2 DEF ReportsFollowDb, Pending, Stale
<1> QED BY <1>3, <1>4 DEF IInv

LEMMA StartIInv ==
  ASSUME IInv, Start
  PROVE  IInv'
<1>1. TypeOK'
  BY DEF IInv, TypeOK, Start, runner
<1> QED BY <1>1, SameReports DEF Start

(* Every step keeps IInv.                                                  *)
LEMMA NextIInv == IInv /\ [Next]_vars => IInv'
<1> SUFFICES ASSUME IInv, [Next]_vars PROVE IInv'
  OBVIOUS
<1>1. CASE UNCHANGED vars
  BY <1>1 DEF IInv, TypeOK, ReportsFollowDb, Pending, Stale, vars, system, runner
<1>2. CASE Next
  BY <1>2, ChangeIInv, EventReceivedIInv, HandlerIInv, TakeJobIInv, SkipJobIInv, EndJobIInv,
     CollectIInv, StoreIInv, StoreFailsIInv, ReadFailsIInv, AddReportIInv, CrawlOtherIInv, SendIInv, StopIInv, StoppedIInv,
     CrashIInv, StartIInv
     DEF Next, Runner
<1> QED BY <1>1, <1>2

-----------------------------------------------------------------------------

(* The inductive invariant holds: whatever the order of events, crawls,    *)
(* stores and crashes, what the database will say is said or will be       *)
(* (job.c, job_queue.c, state_db.c).                                       *)
THEOREM Invariance == Spec => []IInv
  BY InitIInv, NextIInv, PTL DEF Spec

(* Every reachable state of the files, events, jobs, rows and reports is   *)
(* well typed: among others, jobs are only made for files that the         *)
(* configuration includes, and a report has attributes unless it says that *)
(* the file was removed.                                                   *)
THEOREM TypeCorrect == Spec => []TypeOK
<1>1. IInv => TypeOK
  BY DEF IInv
<1> QED BY <1>1, Invariance, PTL

(* What the recipient is told follows the rows of the database, through    *)
(* changes during a job, failed writes, stops and crashes.                 *)
THEOREM ReportsFollow == Spec => []ReportsFollowDb
<1>1. IInv => ReportsFollowDb
  BY DEF IInv
<1> QED BY <1>1, Invariance, PTL

(* process_element never adds what is known, nor changes or removes what is*)
(* not, nor reports a change that is none.                                 *)
THEOREM ReportsFit == Spec => ReportsMakeSense
<1> DEFINE Fits == \A n \in Files \ astray :
                     step = "report" /\ cur = n /\ step' = "next" =>
                       /\ (cond = "ADDED") <=> (told[n] = Absent)
                       /\ told'[n] # told[n]
<1>1. IInv /\ [Next]_vars => [Fits]_vars
  <2> SUFFICES ASSUME IInv, Next, NEW n \in Files \ astray,
                      step = "report", cur = n, step' = "next"
               PROVE  /\ (cond = "ADDED") <=> (told[n] = Absent)
                      /\ told'[n] # told[n]
    OBVIOUS
  <2>1. AddReport
    BY DEF Next, Runner, Handler, Change, EventReceived, PushScan, StopMonitor, StartMonitor,
       SaveConfigs, TakeJob, SkipJob, ReadFails, EndJob, Collect, Store, StoreFails, Compare, CrawlOther, Send, Stop,
       Stopped, Crash, Start, runner
  <2>2. told'[n] = Applied(cond, elem, told[n])
    BY <2>1 DEF AddReport, IInv, TypeOK, Names
  <2> QED BY <2>2 DEF IInv, Pending
<1> QED BY <1>1, Invariance, PTL DEF Spec, ReportsMakeSense

==============================================================================
