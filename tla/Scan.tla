--------------------------------- MODULE Scan ---------------------------------
(***************************************************************************)
(* The jobs of the file plugin on a tree of directories: which files an    *)
(* include makes run_job (plugin/file/job.c) look at, and what becomes of  *)
(* their attributes in the database and in the reports.  ChangeReports has *)
(* the same jobs on abstract files that are matched or not; here are the   *)
(* patterns (FileNames), the attributes (Attributes), the directories and  *)
(* the cases in which what the code does is undefined.                     *)
(*                                                                         *)
(* There is one configuration, whose monitor runs all the time.  A file,   *)
(* or directory, may change between any two steps of a job.  Requests,     *)
(* lost events, crashes and failures of the database are left to           *)
(* FilePlugin and ChangeReports.                                           *)
(***************************************************************************)
EXTENDS Attributes, FileNames

CONSTANTS
  Scenarios,  (* what a configuration and its files may be, a sequence of: *)
              (*   tree     the files at first, by their names             *)
              (*   changes  what they may become, pairs of a name and a    *)
              (*            content                                        *)
              (*   incl     the includes that are requested, a sequence of *)
              (*            patterns                                       *)
              (*   excl     the excludes                                   *)
              (*   types    the types it may be installed with, sets of    *)
              (*            numbers as they are in a request               *)
              (*   times    how often: a bound                             *)
  MaxChanges  (* bound on the changes of files                             *)

VARIABLES
  sc,         (* the scenario                                              *)
  tree,       (* the files, by their names                                 *)
  noted,      (* the names with an event that was not delivered yet        *)
  types,      (* the attribute types of the configuration                  *)
  freed,      (* its attr_types points to freed memory                     *)
  queue,      (* the jobs: the includes, the types and whether it is an    *)
              (* event's                                                   *)
  job,        (* the job that runs, with the includes that are left        *)
  phase,      (* where it is, see Phases                                   *)
  at,         (* the directory to open, or the entry that was looked at    *)
  frames,     (* the calls of crawl_dir                                    *)
  rows,       (* the rows of the database, packed attributes by names      *)
  told,       (* the attributes the reports tell of the names              *)
  undefined,  (* what went wrong: "no", or the first cause                 *)
  handled,    (* the names the job has looked at                           *)
  calm,       (* no file has changed since the job began                   *)
  changes, installs

files  == <<sc, tree, noted>>
runner == <<job, phase, at, frames, handled, calm>>
known  == <<rows, told, undefined>>
bounds == <<changes, installs>>
config == <<types, freed>>
scanVars == <<files, config, queue, runner, known, bounds>>

Sc == Scenarios[sc]

(* No file, no element: a record that is none of these.                    *)
Nothing == [nothing |-> TRUE]

(* process_includes_excludes: what is not absolute is left out.            *)
Absolute(s) ==
  LET cleansed == [k \in DOMAIN s |-> Cleansed(s[k])]
  IN  Gathered(cleansed, {k \in DOMAIN s : cleansed[k] # << >>})

Requests ==
  [k \in DOMAIN Scenarios |->
     [incl |-> Absolute(Scenarios[k].incl),
      excl |-> {Cleansed(x) : x \in Scenarios[k].excl} \ {<< >>}]]

Includes == Requests[sc].incl
Excludes == Requests[sc].excl

(* The names that may ever be there.                                       *)
NamesIn(k) == DOMAIN Scenarios[k].tree \union {x[1] : x \in Scenarios[k].changes}
PossibleNames == NamesIn(sc)

(* A file's contents, now or later.                                        *)
ContentsIn(k, p) ==
  {x[2] : x \in {y \in Scenarios[k].changes : y[1] = p}}
    \union (IF p \in DOMAIN Scenarios[k].tree THEN {Scenarios[k].tree[p]} ELSE {Nothing})
PossibleContents(p) == ContentsIn(sc, p)

(* The patterns a job may be about: an event's name is one.                *)
PatternsIn(k) == ToSet(Requests[k].incl) \union NamesIn(k)
Patterns == PatternsIn(sc)

(* A pattern that a job may have to crawl for.                             *)
Crawled == {i \in Patterns : FirstUnescapedSpecialChar(i) # 0}

(* process_attributes: a number that is not known leaves no type at all,   *)
(* and a pointer to what was freed.                                        *)
Known(request) == request \subseteq DOMAIN AttrTypes

RequestedTypes(request) ==
  IF Known(request) THEN {FbToAttributeType(n) : n \in request} ELSE {}

IsBelow(q, p) == q # p /\ IsPrefix(p, q) /\ (p = <<Sep>> \/ q[Len(p) + 1] = Sep)

(* Names are those of files and of the directories they are in, what is    *)
(* below a name is below a directory, and, for these names and patterns,   *)
(* the matcher finds what the patterns stand for.                          *)
ASSUME ScanAssumption ==
  /\ MaxChanges \in Nat
  /\ \A k \in DOMAIN Scenarios :
       LET first == Scenarios[k].tree
       IN  /\ Scenarios[k].incl \in Seq(ToSet(Scenarios[k].incl))
           /\ \A i \in ToSet(Scenarios[k].incl) : i \in Seq(ToSet(i))
           /\ \A p \in NamesIn(k) :
                IsName(p) /\ \A n \in DOMAIN p : IsBelow(p, Upto(p, n)) => Upto(p, n) \in NamesIn(k)
           /\ \A p \in DOMAIN first, q \in NamesIn(k) :
                IsBelow(p, q) => q \in DOMAIN first /\ first[q].ftype = "DIRECTORY"
           /\ \A p \in DOMAIN first : first[p] # Nothing
           /\ \A p \in NamesIn(k) : \A c \in ContentsIn(k, p) \ {Nothing} : IsContent(c)
           /\ \A p \in NamesIn(k), i \in PatternsIn(k) \union Requests[k].excl :
                Matches(p, i) = Designates(i, p)

(* idle     no job runs                                                    *)
(* include  looks for the next include                                     *)
(* open     has found that at is a directory                               *)
(* entry    looks for the next entry of the last directory opened          *)
(* type     has dealt with the entry at, and wants to know what it is      *)
Phases == {"idle", "include", "open", "entry", "type"}

NoJob == [incl |-> << >>, types |-> {}, event |-> FALSE]

ScanInit ==
  /\ sc \in DOMAIN Scenarios
  /\ tree = Scenarios[sc].tree /\ noted = {}
  /\ types = {} /\ freed = FALSE /\ queue = << >>
  /\ job = NoJob /\ phase = "idle" /\ at = << >> /\ frames = << >>
  /\ rows = << >> /\ told = << >>
  /\ undefined = "no" /\ handled = {} /\ calm = TRUE
  /\ changes = 0 /\ installs = 0

-----------------------------------------------------------------------------
(* The files                                                               *)

IsDirectory(p) == p \in DOMAIN tree /\ tree[p].ftype = "DIRECTORY"

(* The directory iterator's names of a directory's entries.                *)
Entries(dir) ==
  {EntryName(dir, BaseName(p)) : p \in {q \in DOMAIN tree : q # dir /\ DirName(q) = dir}}

(* yella_file_exists: a link is followed.                                  *)
FileExists(p) == p \in DOMAIN tree /\ ~ tree[p].dangling

Below(p) == {q \in DOMAIN tree : IsBelow(q, p)}

With(f, p, v) == [q \in DOMAIN f \union {p} |-> IF q = p THEN v ELSE f[q]]
Without(f, ps) == Restrict(f, DOMAIN f \ ps)

(* A file appears, changes or goes, with what is below it; a directory that*)
(* is being read may or may not show a new entry.                          *)
Change(p, c) ==
  /\ undefined = "no" /\ changes < MaxChanges
  /\ IF c = Nothing THEN p \in DOMAIN tree ELSE IsDirectory(DirName(p)) /\ tree # With(tree, p, c)
  /\ LET gone == IF c # Nothing /\ c.ftype = "DIRECTORY" THEN {} ELSE Below(p)
         rest == Without(tree, {p} \union gone)
     IN  /\ tree' = IF c = Nothing THEN rest ELSE With(rest, p, c)
         /\ noted' = noted \union (IF installs > 0 THEN {p} \union gone ELSE {})
  /\ \/ UNCHANGED frames
     \/ /\ c # Nothing /\ p \notin DOMAIN tree
        /\ frames' = [i \in DOMAIN frames |->
                        IF frames[i].dir = DirName(p) THEN [frames[i] EXCEPT !.left = @ \union {p}]
                                                      ELSE frames[i]]
  /\ calm' = FALSE
  /\ changes' = changes + 1
  /\ UNCHANGED <<sc, config, queue, job, phase, at, handled, known, installs>>

-----------------------------------------------------------------------------
(* The jobs                                                                *)

(* install_config_node: the configuration is replaced, its attr_types is   *)
(* freed, and all includes are scanned.                                    *)
Install(request) ==
  /\ undefined = "no" /\ installs < Sc.times
  /\ types' = RequestedTypes(request) /\ freed' = ~ Known(request)
  /\ queue' = Append(queue, [incl |-> Includes, types |-> types', event |-> FALSE])
  /\ undefined' = IF freed THEN "types" ELSE "no"
  /\ installs' = installs + 1
  /\ UNCHANGED <<files, runner, rows, told, changes>>

MatchesExcludes(p) == \E x \in Excludes : Matches(p, x)

(* event_source_file_name_matches_any                                      *)
Monitored(p) == ~ MatchesExcludes(p) /\ \E i \in DOMAIN Includes : Matches(p, Includes[i])

(* worker_callback and event_received: the name itself becomes the include,*)
(* and the job has no excludes.                                            *)
EventReceived(p) ==
  /\ undefined = "no" /\ p \in noted
  /\ noted' = noted \ {p}
  /\ queue' = IF Monitored(p)
                THEN Append(queue, [incl |-> <<p>>, types |-> types, event |-> TRUE]) ELSE queue
  /\ UNCHANGED <<sc, tree, config, runner, known, bounds>>

TakeJob ==
  /\ undefined = "no" /\ phase = "idle" /\ queue # << >>
  /\ job' = Head(queue) /\ queue' = Tail(queue)
  /\ phase' = "include" /\ handled' = {} /\ calm' = TRUE
  /\ UNCHANGED <<files, config, at, frames, known, bounds>>

EndJob ==
  /\ undefined = "no" /\ phase = "include" /\ job.incl = << >>
  /\ phase' = "idle" /\ job' = NoJob
  /\ UNCHANGED <<files, config, queue, at, frames, handled, calm, known, bounds>>

-----------------------------------------------------------------------------
(* Looking at a file                                                       *)

Found(p) == IF FileExists(p) THEN CollectAttributes(tree[p], job.types) ELSE Nothing

(* The file after its attributes were collected: if that has changed it,   *)
(* there is an event.                                                      *)
Collected(p) ==
  LET f == AfterCollecting(tree[p], job.types)
  IN  IF FileExists(p) /\ f # tree[p]
        THEN tree' = [tree EXCEPT ![p] = f] /\ noted' = noted \union {p}
        ELSE UNCHANGED <<tree, noted>>

(* Slip: a removal is not reported.                                        *)
TellsPresent(p, e) == told' = IF e = Nothing THEN told ELSE With(told, p, e)

(* What the reports tell of p after one that says that it is e.            *)
Tells(p, e) == told' = IF e = Nothing THEN Without(told, {p}) ELSE With(told, p, e)

(* What the reports tell of p after one with the attributes of e that are  *)
(* different from those of the row.                                        *)
ToldOf(p, e, row) ==
  LET differ == Differences(e, row)
  IN  [t \in differ \union DOMAIN told[p] |-> IF t \in differ THEN e[t] ELSE told[p][t]]

(* process_element: the row follows the element, and the report has what   *)
(* is different.  The attribute that only the row has is put into both     *)
(* lists; it is destroyed with the row's, and the report is made of it.    *)
ProcessNew(p, e) ==
  /\ p \notin DOMAIN rows /\ e # Nothing
  /\ rows' = With(rows, p, Pack(e)) /\ Tells(p, e)
  /\ UNCHANGED undefined

ProcessGone(p) ==
  /\ p \in DOMAIN rows
  /\ IF ReadsNothing(rows[p])
       THEN undefined' = "acl" /\ UNCHANGED <<rows, told>>
       ELSE rows' = Without(rows, {p}) /\ Tells(p, Nothing) /\ UNCHANGED undefined

ProcessKnown(p, e) ==
  LET row == Unpack(rows[p])
  IN  /\ p \in DOMAIN rows /\ e # Nothing
      /\ IF ReadsNothing(rows[p]) THEN undefined' = "acl" /\ UNCHANGED <<rows, told>>
         ELSE IF SameElement(e, row) THEN UNCHANGED known
         ELSE /\ rows' = With(rows, p, Pack(e))
              /\ IF Shared(e, row) # {} THEN undefined' = "node" /\ UNCHANGED told
                                        ELSE told' = With(told, p, ToldOf(p, e, row)) /\ UNCHANGED undefined

Process(p, e) ==
  \/ ProcessNew(p, e) \/ ProcessKnown(p, e)
  \/ e = Nothing /\ ProcessGone(p)
  \/ e = Nothing /\ p \notin DOMAIN rows /\ UNCHANGED known

-----------------------------------------------------------------------------
(* run_one_include                                                         *)

(* Slip: the include that was run is the next one again.                   *)
SameInclude == job

NextInclude ==
  IF Len(job.incl) = 1 THEN [job EXCEPT !.incl = << >>] ELSE [job EXCEPT !.incl = Tail(@)]

(* An include without a special character is a name, whether there is such *)
(* a file or not; the excludes do not matter.                              *)
RunLiteral ==
  /\ undefined = "no" /\ phase = "include" /\ job.incl # << >>
  /\ FirstUnescapedSpecialChar(Head(job.incl)) = 0
  /\ IF ReadsPastEnd(Head(job.incl))
       THEN undefined' = "escape" /\ UNCHANGED <<rows, told, tree, noted, handled>>
       ELSE LET p == UnescapePattern(Head(job.incl))
            IN  Process(p, Found(p)) /\ Collected(p) /\ handled' = handled \union {p}
  /\ job' = NextInclude
  /\ UNCHANGED <<sc, config, queue, phase, at, frames, calm, bounds>>

(* Slip: the root is not treated apart.                                    *)
TopDirByLength(p) ==
  LET sep == CHOOSE k \in 1..FirstUnescapedSpecialChar(p) :
               p[k] = Sep /\ \A i \in (k + 1)..FirstUnescapedSpecialChar(p) : p[i] # Sep
  IN  Upto(p, sep - 1)

(* The directory before the first special character, as it is written.     *)
TopDir(p) ==
  LET sep == CHOOSE k \in 1..FirstUnescapedSpecialChar(p) :
               p[k] = Sep /\ \A i \in (k + 1)..FirstUnescapedSpecialChar(p) : p[i] # Sep
  IN  IF sep = 1 THEN <<Sep>> ELSE Upto(p, sep - 1)

RunPattern ==
  /\ undefined = "no" /\ phase = "include" /\ job.incl # << >>
  /\ FirstUnescapedSpecialChar(Head(job.incl)) # 0
  /\ IF IsDirectory(TopDir(Head(job.incl)))
       THEN phase' = "open" /\ at' = TopDir(Head(job.incl)) /\ UNCHANGED job
       ELSE job' = NextInclude /\ UNCHANGED <<phase, at>>
  /\ UNCHANGED <<files, config, queue, frames, handled, calm, known, bounds>>

-----------------------------------------------------------------------------
(* crawl_dir                                                               *)

(* existing_elem is a variable of the call, without a value at first.      *)
Open ==
  /\ undefined = "no" /\ phase = "open"
  /\ IF IsDirectory(at) /\ tree[at].readable
       THEN /\ frames' = Append(frames, [dir |-> at, left |-> Entries(at), elem |-> "unset"])
            /\ UNCHANGED undefined
       ELSE undefined' = "iterator" /\ UNCHANGED frames
  /\ phase' = "entry"
  /\ UNCHANGED <<files, config, queue, job, at, handled, calm, rows, told, bounds>>

(* The excludes of the job that runs: an event's job was given none.       *)
JobExcludes == IF job.event THEN {} ELSE Excludes

Wanted(p) == Matches(p, Head(job.incl)) /\ ~ \E x \in JobExcludes : Matches(p, x)

(* The rest of a step for the entry p: existing_elem becomes e.            *)
Took(p, e) ==
  /\ frames' = [frames EXCEPT ![Len(frames)].left = @ \ {p}, ![Len(frames)].elem = e]
  /\ phase' = "type" /\ at' = p

CrawlWanted(p) ==
  /\ undefined = "no" /\ phase = "entry" /\ p \in Last(frames).left /\ Wanted(p)
  /\ Process(p, Found(p)) /\ Collected(p)
  /\ handled' = handled \union {p}
  /\ Took(p, IF FileExists(p) THEN "freed" ELSE "null")
  /\ UNCHANGED <<sc, config, queue, job, calm, bounds>>

(* An entry that is not wanted is processed with what existing_elem was    *)
(* left as.                                                                *)
CrawlUnwanted(p) ==
  /\ undefined = "no" /\ phase = "entry" /\ p \in Last(frames).left /\ ~ Wanted(p)
  /\ \/ Last(frames).elem \in {"unset", "null"} /\ Process(p, Nothing)
     \/ Last(frames).elem \in {"unset", "freed"} /\ undefined' = "element" /\ UNCHANGED <<rows, told>>
  /\ Took(p, Last(frames).elem)
  /\ UNCHANGED <<files, config, queue, job, handled, calm, bounds>>

(* An entry that was removed since the directory was opened may be missing.*)
CrawlMissing(p) ==
  /\ undefined = "no" /\ phase = "entry" /\ p \in Last(frames).left \ DOMAIN tree
  /\ frames' = [frames EXCEPT ![Len(frames)].left = @ \ {p}]
  /\ UNCHANGED <<files, config, queue, job, phase, at, handled, calm, known, bounds>>

(* Links are not followed.                                                 *)
EntryType ==
  /\ undefined = "no" /\ phase = "type"
  /\ phase' = IF IsDirectory(at) THEN "open" ELSE "entry"
  /\ UNCHANGED <<files, config, queue, job, at, frames, handled, calm, known, bounds>>

EndCrawl ==
  /\ undefined = "no" /\ phase = "entry" /\ Last(frames).left = {}
  /\ frames' = Front(frames)
  /\ IF Len(frames) = 1 THEN phase' = "include" /\ job' = NextInclude ELSE UNCHANGED <<phase, job>>
  /\ UNCHANGED <<files, config, queue, at, handled, calm, known, bounds>>

-----------------------------------------------------------------------------

RunnerStep ==
  \/ TakeJob \/ EndJob \/ RunLiteral \/ RunPattern \/ Open \/ EntryType \/ EndCrawl
  \/ \E p \in (IF frames = << >> THEN {} ELSE Last(frames).left) :
       CrawlWanted(p) \/ CrawlUnwanted(p) \/ CrawlMissing(p)

ScanNext ==
  \/ \E x \in Sc.changes : Change(x[1], x[2])
  \/ \E r \in Sc.types : Install(r)
  \/ \E p \in noted : EventReceived(p)
  \/ RunnerStep

ScanSpec == ScanInit /\ [][ScanNext]_scanVars

(* The runner goes on, and events are delivered.                           *)
ScanFairSpec == ScanSpec /\ WF_scanVars(RunnerStep) /\ WF_scanVars(\E p \in noted : EventReceived(p))

-----------------------------------------------------------------------------
(* Properties                                                              *)

InstalledTypes == {RequestedTypes(r) : r \in Sc.types}

ScanTypeOK ==
  /\ sc \in DOMAIN Scenarios /\ DOMAIN tree \subseteq PossibleNames
  /\ types \in {{}} \union InstalledTypes /\ freed \in BOOLEAN /\ phase \in Phases
  /\ noted \subseteq PossibleNames
  /\ DOMAIN told = DOMAIN rows
  /\ \A p \in DOMAIN rows : Known(DOMAIN rows[p])
  /\ phase \in {"open", "entry", "type"} => job.incl # << >>
  /\ undefined = "no" /\ phase \in {"entry", "type"} => frames # << >>
  /\ undefined \in {"no", "element", "iterator", "node", "acl", "types", "escape"}

HasEscape(s) == Contains(s, Escape)

(* A pattern whose directory is written with an escape.                    *)
EscapedDir(p) == FirstUnescapedSpecialChar(p) # 0 /\ HasEscape(TopDir(p))

(* The include asks for the file: a literal one asks for the name it is    *)
(* when its escapes are taken away, a pattern for what it stands for.      *)
AsksFor(i, p) ==
  /\ Designates(i, p)
  /\ FirstUnescapedSpecialChar(i) # 0 => p # <<Sep>> /\ ~ \E x \in Excludes : Designates(x, p)

(* A scan during which no file changed has looked at the files that are    *)
(* there and that the includes stand for, and at no other file.  (But an   *)
(* include with escapes in its directory finds nothing: run_one_include    *)
(* takes the directory as it is written.)                                  *)
ScanFinds ==
  phase = "include" /\ job.incl = << >> /\ ~ job.event /\ calm /\ undefined = "no" =>
    {p \in handled : FileExists(p)} =
      {p \in DOMAIN tree : /\ FileExists(p)
                           /\ \E i \in DOMAIN Includes : /\ ~ EscapedDir(Includes[i])
                                                        /\ AsksFor(Includes[i], p)}

(* A crawl for the pattern i comes to p, and does not want it.             *)
PassedOver(p) ==
  \E i \in Crawled :
    /\ IsPrefix(TopDir(i), p) /\ p # TopDir(i)
    /\ ~ (Designates(i, p) /\ ~ \E x \in Excludes : Designates(x, p))

DirectoryMayGo ==
  \E p \in PossibleNames :
    /\ \E c \in PossibleContents(p) \ {Nothing} : c.ftype = "DIRECTORY"
    /\ \E c \in PossibleContents(p) : c # Nothing => c.ftype # "DIRECTORY" \/ ~ c.readable

(* Something undefined happens for six reasons only: an entry, below       *)
(* the directory of a pattern, is not matched or is excluded (the stale    *)
(* existing_elem); a directory cannot be opened or may go (the NULL        *)
(* iterator); the row of a file has an attribute that is not collected any *)
(* more (the node in two lists); a row has an access control list; a       *)
(* configuration was requested with an unknown type (attr_types is freed   *)
(* again when it is replaced); an include, or the name of a file an event  *)
(* is about, is a name that ends with an escape (unescape_pattern reads    *)
(* past its end).                                                          *)
UndefinedOnlyIf ==
  /\ undefined = "element" => \E p \in PossibleNames : PassedOver(p)
  /\ undefined = "iterator" => DirectoryMayGo
  /\ undefined = "node" =>
       \E T, U \in InstalledTypes, p \in PossibleNames : \E c, d \in PossibleContents(p) \ {Nothing} :
         ~ Collectable(c, T) \subseteq Collectable(d, U)
  /\ undefined = "acl" => "POSIX_ACL" \in UNION InstalledTypes
  /\ undefined = "types" => \E r \in Sc.types : ~ Known(r)
  /\ undefined = "escape" => \E i \in Patterns : ReadsPastEnd(i) /\ FirstUnescapedSpecialChar(i) = 0

(* The code's own patterns make a name with special characters mean        *)
(* something else when an event turns it into an include.                  *)
PlainName(p) == ~ HasEscape(p) /\ FirstUnescapedSpecialChar(p) = 0

Quiescent == phase = "idle" /\ queue = << >> /\ noted = {} /\ installs > 0

(* The names a scan finds if they are there, and keeps the rows of: not    *)
(* those with special characters, those that only an include with escapes  *)
(* in its directory stands for, and those that a crawl for another pattern *)
(* passes over: existing_elem may be NULL then, and the row is deleted.    *)
IsKept(p) ==
  /\ Monitored(p) /\ PlainName(p) /\ p # <<Sep>> /\ ~ PassedOver(p)
  /\ \E i \in DOMAIN Includes : Matches(p, Includes[i]) /\ ~ EscapedDir(Includes[i])

RowAgrees(p) ==
  /\ (p \in DOMAIN rows) <=> FileExists(p)
  /\ p \in DOMAIN rows => Visible(rows[p]) = Visible(Pack(CollectAttributes(tree[p], types)))

(* When there is nothing left to do, the rows of the files the             *)
(* configuration monitors are what they are, as far as an int tells the    *)
(* difference.                                                             *)
RowsAgreeAtRest ==
  Quiescent /\ undefined = "no" => \A p \in PossibleNames : IsKept(p) => RowAgrees(p)

(* Taken together, the reports tell of every name what its row says, as    *)
(* far as an int tells the difference: a number that differs by a multiple *)
(* of an int's range is in the row, if something else was different, and   *)
(* in no report.                                                           *)
ToldFollowsRows ==
  undefined = "no" => \A p \in DOMAIN rows : Visible(Pack(told[p])) = Visible(rows[p])

(* A configuration that asks for no hashes comes to rest; with hashes,     *)
(* looking at a file is a change of it, and leads to the next look.        *)
ComesToRest ==
  (\A T \in InstalledTypes : "SHA256" \notin T) =>
    <>[](installs > 0 => Quiescent \/ undefined # "no")

================================================================================
