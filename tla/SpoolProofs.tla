----------------------------- MODULE SpoolProofs -----------------------------
(***************************************************************************)
(* The guarantees of the spool, for every value of its constants.          *)
(*                                                                         *)
(* Order: its type invariant, FifoAtMostOnce and NothingLeftBehind, and    *)
(* that it implements the lossy FIFO queue of SpoolQueue.  They hold       *)
(* whatever the partition sizes and limits are, with crashes, torn events  *)
(* and failing calls.  The one assumption is that a failing remove() does  *)
(* not meet a sticky end-of-file: then the reader steps over events it has *)
(* not read, and a restart finds them again.                               *)
(*                                                                         *)
(* Contents: that nothing is lost but what cull reports, that the size it  *)
(* counts is the size of its directory, that this size is bounded and that *)
(* cull takes the oldest file.  These need the setting `Dependable'.       *)
(***************************************************************************)
EXTENDS Spool, NatSets, TLAPS

ASSUME RemoveAssumption == "remove" \in FileErrors => ~StickyEof

(* Of two files the newer holds the later events.                          *)
FilesOrdered ==
  \A p, q \in Linked : Older(p, q) =>
    \A a \in EventsOf(p), b \in EventsOf(q) : a < b

(* Nothing in the directory is newer than the write file.                  *)
WriterNewest == step # "down" => \A p \in Linked : ~Older(wpos, p)

(* find_oldest_file, started from position (0, 0), sees every file.         *)
AllBehindOrigin == \A p \in Linked : Older(Origin, p)

(* The reader's file is in the directory, unless it was just removed.      *)
ReaderLinked ==
  /\ ropen /\ step \notin {"down", "open"} => rpos \in Linked
  /\ step \in {"read", "open"} => ropen

(* A reader that could not open the next file is behind the writer.        *)
ReaderBehind == step # "down" /\ ~ropen => Older(rpos, wpos)

(* A file with the size of its header holds no event.                      *)
FileSizes ==
  \A p \in Linked : /\ files[p].bytes >= HeaderSize
                    /\ EventsOf(p) # {} => files[p].bytes > HeaderSize

(* What the reader has passed was read, or cut off by a crash.             *)
ReaderPassed ==
  step # "down" =>
    \A p \in Linked : \A e \in EventsOf(p) :
      Older(p, rpos) \/ (p = rpos /\ e <= rlast) => e \in visited \union torn

(* A file left behind when the next one is opened has nothing unread.      *)
ReaderDone ==
  step = "open" /\ rpos \in Linked => EventsOf(rpos) \subseteq visited \union torn

ReaderBounded == rlast <= pushed

PoppedBounded == \A i \in DOMAIN popped : popped[i] <= pushed

IInv ==
  /\ TypeOK
  /\ FilesOrdered
  /\ WriterNewest
  /\ AllBehindOrigin
  /\ FileSizes
  /\ ReaderLinked
  /\ ReaderBehind
  /\ ReaderPassed
  /\ ReaderDone
  /\ ReaderBounded
  /\ PoppedBounded
  /\ FifoAtMostOnce
  /\ NothingLeftBehind

-----------------------------------------------------------------------------
(* Older is a strict total order on positions.                             *)
LEMMA OlderOrder ==
  ASSUME NEW p \in Position, NEW q \in Position, NEW r \in Position
  PROVE  /\ ~Older(p, p)
         /\ Older(p, q) /\ Older(q, r) => Older(p, r)
         /\ Older(p, q) => ~Older(q, p)
         /\ Older(p, q) \/ Older(q, p) \/ p = q
<1>1. /\ p.major \in Nat /\ p.minor \in Nat
      /\ q.major \in Nat /\ q.minor \in Nat
      /\ r.major \in Nat /\ r.minor \in Nat
  BY DEF Position
<1>2. p.major = q.major /\ p.minor = q.minor => p = q
  BY DEF Position
<1>. QED BY <1>1, <1>2 DEF Older

(* A spool just made, with no file, satisfies IInv.                        *)
LEMMA InitIInv == Init => IInv
<1> SUFFICES ASSUME Init PROVE IInv
  OBVIOUS
<1>1. Linked = {} /\ DOMAIN popped = {}
  BY DEF Init, Linked
<1>2. TypeOK
  <2>1. popped \in Seq(Nat)
    BY DEF Init
  <2>2. Origin \in Position
    BY DEF Origin, Position
  <2>. QED BY <1>1, <2>1, <2>2 DEF Init, TypeOK, Steps
<1>. QED
  BY <1>1, <1>2 DEF Init, IInv, FilesOrdered, WriterNewest, AllBehindOrigin,
     FileSizes, ReaderLinked, ReaderBehind, ReaderPassed, ReaderDone, ReaderBounded,
     PoppedBounded, FifoAtMostOnce, NothingLeftBehind

(* TypeOK needs to know that the file the reader takes events from exists. *)
TypeInv == TypeOK /\ ReaderLinked /\ FileSizes

FilesTyped(fs, last) ==
  \A p \in DOMAIN fs : /\ p \in Position
                       /\ fs[p].events \subseteq 1 .. last
                       /\ fs[p].bytes \in Nat
                       /\ fs[p].bytes >= HeaderSize
                       /\ fs[p].events # {} => fs[p].bytes > HeaderSize

LEMMA AppendTyped ==
  ASSUME FilesTyped(files, pushed), pushed \in Nat, NEW sz \in Nat \ {0},
         AppendToWriteFile(pushed + 1, sz)
  PROVE  /\ DOMAIN files' = DOMAIN files
         /\ FilesTyped(files', pushed + 1)
<1>1. DOMAIN files' = DOMAIN files
  BY DEF AppendToWriteFile, Linked
<1>2. ASSUME NEW p \in DOMAIN files
      PROVE  /\ p \in Position
             /\ files'[p].events \subseteq 1 .. (pushed + 1)
             /\ files'[p].bytes \in Nat
             /\ files'[p].bytes >= HeaderSize
             /\ files'[p].events # {} => files'[p].bytes > HeaderSize
  <2>1. /\ p \in Position
        /\ files[p].events \subseteq 1 .. pushed
        /\ files[p].bytes \in Nat /\ files[p].bytes >= HeaderSize
        /\ files[p].events # {} => files[p].bytes > HeaderSize
    BY DEF FilesTyped
  <2>2. CASE p = wpos
    <3>1. /\ files'[p].events = files[p].events \union {pushed + 1}
          /\ files'[p].bytes = files[p].bytes + sz
      BY <2>2 DEF AppendToWriteFile, Linked, EventsOf
    <3>. QED BY <2>1, <3>1, SpoolAssumption
  <2>3. CASE p # wpos
    <3>1. files'[p] = files[p]
      BY <2>3 DEF AppendToWriteFile, Linked
    <3>. QED BY <2>1, <3>1
  <2>. QED BY <2>2, <2>3
<1>. QED BY <1>1, <1>2 DEF FilesTyped

LEMMA NewFileTyped ==
  ASSUME NEW D \in SUBSET DOMAIN files, NEW w \in Position,
         FilesTyped(files, pushed),
         files' = WithNewFile(D, w)
  PROVE  FilesTyped(files', pushed)
<1>1. ASSUME NEW p \in D \union {w}
      PROVE  /\ p \in Position
             /\ files'[p].events \subseteq 1 .. pushed
             /\ files'[p].bytes \in Nat
             /\ files'[p].bytes >= HeaderSize
             /\ files'[p].events # {} => files'[p].bytes > HeaderSize
  <2>1. CASE p = w
    <3>1. files'[p].events = {} /\ files'[p].bytes = HeaderSize
      BY <2>1 DEF WithNewFile
    <3>. QED BY <2>1, <3>1, SpoolAssumption
  <2>2. CASE p # w
    <3>1. files'[p] = files[p] /\ p \in DOMAIN files
      BY <2>2 DEF WithNewFile
    <3>. QED BY <3>1 DEF FilesTyped
  <2>. QED BY <2>1, <2>2
<1>. QED
  BY <1>1 DEF FilesTyped, WithNewFile

(* Every step of the spool keeps the types of its state.                   *)
LEMMA TypeStep == TypeInv /\ [Next]_vars => TypeInv'
<1> SUFFICES ASSUME TypeInv, [Next]_vars PROVE TypeInv'
  OBVIOUS
<1> USE SpoolAssumption DEF TypeInv, TypeOK, ReaderLinked, FileSizes, Linked,
      EventsOf, Steps, disk, history, writer, reader, WithNewFile, RemoveFile
<1>a. Origin \in Position
  BY DEF Origin, Position
<1>b. FilesTyped(files, pushed)
  BY DEF FilesTyped
<1>c. NextPartition \in Position
  BY SMTT(20) DEF NextPartition, Position
<1>1. CASE Create
  <2>1. PICK m \in {1} \union {p.major + 1 : p \in Kept} :
          LET w == [major |-> m, minor |-> 1]
          IN  /\ files' = WithNewFile(Kept, w)
              /\ wpos' = w
              /\ rpos' \in Kept \union {w}
    BY <1>1 DEF Create, OldestAfter
  <2>2. Kept \subseteq Linked
    BY DEF Kept
  <2>3. m \in Nat
    BY <2>2 DEF Position
  <2>4. wpos' \in Position
    BY <2>1, <2>3 DEF Position
  <2>5. FilesTyped(files', pushed)
    BY <2>1, <2>2, <2>4, <1>b, NewFileTyped
  <2>6. rpos' \in DOMAIN files'
    BY <2>1
  <2>. QED
    BY <1>1, <2>4, <2>5, <2>6 DEF Create, FilesTyped
<1>2. CASE CreateFails
  BY <1>2 DEF CreateFails, Kept
<1>3. CASE RollPartition
  <2>1. FilesTyped(files', pushed)
    BY <1>3, <1>b, <1>c, NewFileTyped DEF RollPartition
  <2>2. ropen => rpos \in DOMAIN files'
    BY <1>3 DEF RollPartition
  <2>. QED
    BY <1>3, <1>c, <2>1, <2>2 DEF RollPartition, FilesTyped
<1>4. CASE RollFails
  BY <1>4, <1>c DEF RollFails
<1>5. ASSUME NEW sz \in EventSizes, WriteEvent(sz) PROVE TypeInv'
  <2>1. AppendToWriteFile(pushed + 1, sz) /\ pushed' = pushed + 1
        /\ sz \in Nat \ {0}
    BY <1>5 DEF WriteEvent
  <2>2. FilesTyped(files', pushed') /\ DOMAIN files' = DOMAIN files
    BY <1>b, <2>1, AppendTyped
  <2>. QED
    BY <1>5, <2>1, <2>2 DEF WriteEvent, Writing, FilesTyped
<1>6. CASE Cull
  <2>1. PICK p \in Linked : /\ OldestAfter(p, Linked, rpos)
                            /\ files' = Without(p)
                            /\ culled' = culled \union EventsOf(p)
    BY <1>6 DEF Cull
  <2>2. p # rpos
    BY <2>1, OlderOrder DEF OldestAfter
  <2>5. ropen => rpos \in DOMAIN files'
    BY <1>6, <2>1, <2>2 DEF Without, Cull
  <2>3. FilesTyped(files', pushed)
    BY <2>1, <1>b DEF FilesTyped, Without
  <2>4. culled' \subseteq Nat
    <3>1. EventsOf(p) \subseteq Nat
      OBVIOUS
    <3>. QED BY <2>1, <3>1
  <2>. QED
    BY <1>6, <2>3, <2>4, <2>5 DEF Cull, FilesTyped
<1>7. CASE CullFails
  BY <1>7 DEF CullFails
<1>8. CASE PopStarts
  BY <1>8 DEF PopStarts, MayPop
<1>9. CASE PopWaits
  BY <1>9 DEF PopWaits, MayPop
<1>10. CASE PopWakes
  BY <1>10 DEF PopWakes, MayPop
<1>11. CASE PopTimesOut
  BY <1>11 DEF PopTimesOut, MayPop
<1>12. CASE ReadEvent
  <2>1. PICK e \in EventsOf(rpos) : /\ visited' = visited \union {e}
                                    /\ popped' = Append(popped, e)
                                    /\ rlast' = e
    BY <1>12 DEF ReadEvent
  <2>2. e \in Nat
    BY <1>12 DEF ReadEvent
  <2>3. visited' \subseteq Nat /\ popped' \in Seq(Nat) /\ rlast' \in Nat
    BY <2>1, <2>2
  <2>. QED
    BY <1>12, <2>3 DEF ReadEvent
<1>13. CASE ReadTornEvent
  BY <1>13 DEF ReadTornEvent
<1>14. CASE ReadNothing
  BY <1>14 DEF ReadNothing
<1>15. CASE RemoveReadFile
  BY <1>15 DEF RemoveReadFile, Without
<1>16. CASE RemoveReadFileFails
  BY <1>16 DEF RemoveReadFileFails
<1>17. CASE OpenNextReadFile
  BY <1>17 DEF OpenNextReadFile, OldestAfter
<1>23. CASE OpenNextFails
  BY <1>23 DEF OpenNextFails
<1>18. CASE Destroy
  BY <1>18, <1>a DEF Destroy, MayPop, Without, GoDown
<1>19. CASE Crash
  BY <1>19, <1>a DEF Crash, GoDown
<1>20. CASE CrashInPush
  <2>1. PICK sz \in EventSizes :
          \E part \in 1 .. sz - 1 : AppendToWriteFile(pushed + 1, part)
    BY <1>20 DEF CrashInPush
  <2>2. PICK part \in Nat \ {0} : AppendToWriteFile(pushed + 1, part)
    BY <2>1
  <2>3. FilesTyped(files', pushed')
    BY <1>20, <1>b, <2>2, AppendTyped DEF CrashInPush
  <2>4. pushed' \in Nat /\ torn' \subseteq Nat
    <3>1. pushed' = pushed + 1 /\ torn' = torn \union {pushed + 1}
      BY <1>20 DEF CrashInPush
    <3>2. pushed \in Nat /\ torn \subseteq Nat
      OBVIOUS
    <3>. QED BY ONLY <3>1, <3>2
  <2>. QED
    BY <1>20, <1>a, <2>3, <2>4 DEF CrashInPush, GoDown, FilesTyped
<1>21. CASE CrashInPop
  <2>1. PICK e \in EventsOf(rpos) : visited' = visited \union {e}
    BY <1>21 DEF CrashInPop
  <2>2. e \in Nat
    BY <1>21 DEF CrashInPop
  <2>. QED
    BY <1>21, <1>a, <2>1, <2>2 DEF CrashInPop, GoDown
<1>22. CASE UNCHANGED vars
  BY <1>22 DEF vars
<1>. QED
  BY <1>1, <1>2, <1>3, <1>4, <1>5, <1>6, <1>7, <1>8, <1>9, <1>10, <1>11,
     <1>12, <1>13, <1>14, <1>15, <1>16, <1>17, <1>18, <1>19, <1>20, <1>21,
     <1>22, <1>23 DEF Next, Push, Pop

(* Every variable of the spool keeps its type, whatever the limits, sizes  *)
(* and failures are.                                                       *)
THEOREM TypeCorrect == Spec => []TypeOK
<1>1. Init => TypeInv
  BY InitIInv DEF IInv, TypeInv
<1>2. TypeInv => TypeOK
  BY DEF TypeInv
<1>. QED
  BY <1>1, <1>2, TypeStep, PTL DEF Spec

-----------------------------------------------------------------------------
(* The part of IInv that is about the order of the events alone.           *)
OrderInv ==
  /\ FilesOrdered
  /\ PoppedBounded
  /\ FifoAtMostOnce
  /\ NothingLeftBehind

(* A step that adds no event to a file and returns none keeps the order.   *)
LEMMA NoNewEvents ==
  ASSUME OrderInv,
         \A p \in DOMAIN files' :
            \/ files'[p].events = {}
            \/ p \in Linked /\ files'[p].events = files[p].events,
         visited \subseteq visited',
         UNCHANGED <<torn, pushed, popped>>
  PROVE  OrderInv' /\ Unread' \subseteq Unread
<1>1. Unread' \subseteq Unread
  BY DEF Unread, OnDisk, Linked, EventsOf
<1>2. FilesOrdered'
  BY DEF OrderInv, FilesOrdered, Linked, EventsOf
<1>3. NothingLeftBehind'
  BY <1>1 DEF OrderInv, NothingLeftBehind
<1>. QED
  BY <1>1, <1>2, <1>3 DEF OrderInv, PoppedBounded, FifoAtMostOnce

(* A step that adds the next event to the newest file keeps the order.     *)
LEMMA NewEvent ==
  ASSUME IInv, step # "down", NEW sz \in Nat,
         AppendToWriteFile(pushed + 1, sz),
         pushed' = pushed + 1, torn \subseteq torn',
         UNCHANGED <<visited, popped>>
  PROVE  OrderInv' /\ Unread' \subseteq Unread \union {pushed + 1}
<1> USE DEF IInv
<1>1. /\ DOMAIN files' = Linked
      /\ \A p \in Linked : p # wpos => files'[p].events = EventsOf(p)
      /\ wpos \in Linked => files'[wpos].events = EventsOf(wpos) \union {pushed + 1}
  BY DEF AppendToWriteFile, EventsOf
<1>2. Unread' \subseteq Unread \union {pushed + 1}
  BY <1>1 DEF Unread, OnDisk, Linked, EventsOf
<1>3. FilesOrdered'
  <2> SUFFICES ASSUME NEW p \in Linked, NEW q \in Linked, Older(p, q),
                      NEW a \in files'[p].events, NEW b \in files'[q].events
               PROVE  a < b
    BY <1>1 DEF FilesOrdered, Linked, EventsOf
  <2>1. p # wpos
    BY DEF WriterNewest
  <2>2. a \in EventsOf(p) /\ a \in 1 .. pushed
    BY <1>1, <2>1 DEF TypeOK
  <2>3. CASE b \in EventsOf(q)
    BY <2>2, <2>3 DEF FilesOrdered
  <2>4. CASE b = pushed + 1
    BY <2>2, <2>4 DEF TypeOK
  <2>. QED
    BY <1>1, <2>3, <2>4
<1>4. PoppedBounded' /\ FifoAtMostOnce'
  BY DEF PoppedBounded, FifoAtMostOnce, TypeOK
<1>5. NothingLeftBehind'
  BY <1>2 DEF NothingLeftBehind, PoppedBounded, TypeOK
<1>. QED
  BY <1>2, <1>3, <1>4, <1>5 DEF OrderInv

(* The event spool_pop returns is the oldest one nobody has read.          *)
LEMMA ReadsOldest ==
  ASSUME IInv, step = "read", NEW e, NextUnvisited(e), e \notin torn
  PROVE  /\ e \in Unread /\ e \in Nat
         /\ \A f \in Unread : f \in Nat /\ e <= f
<1> USE DEF IInv
<1>1. rpos \in Linked
  BY DEF ReaderLinked
<1>2. e \in Unread /\ e \in Nat
  BY <1>1 DEF Unread, OnDisk, NextUnvisited, TypeOK
<1>3. ASSUME NEW f \in Unread PROVE f \in Nat /\ e <= f
  <2>1. PICK p \in Linked : f \in EventsOf(p)
    BY DEF Unread, OnDisk
  <2>2. f \in Nat /\ f \notin visited /\ f \notin torn
    BY <2>1 DEF Unread, TypeOK
  <2>3. CASE p = rpos
    BY <2>1, <2>2, <2>3, <1>2 DEF ReaderPassed, NextUnvisited, TypeOK
  <2>4. CASE Older(rpos, p)
    BY <1>1, <1>2, <2>1, <2>2, <2>4 DEF FilesOrdered, NextUnvisited
  <2>5. CASE Older(p, rpos)
    BY <2>1, <2>2, <2>5 DEF ReaderPassed
  <2>. QED
    BY <2>2, <2>3, <2>4, <2>5, OlderOrder DEF TypeOK
<1>. QED
  BY <1>2, <1>3

(* The reader is never ahead of the writer.                                *)
LEMMA ReaderNotAhead ==
  ASSUME IInv, step \notin {"down", "open"}
  PROVE  ~Older(wpos, rpos)
<1>1. rpos \in Position /\ wpos \in Position
  BY DEF IInv, TypeOK
<1>2. CASE ropen
  BY <1>2 DEF IInv, ReaderLinked, WriterNewest
<1>3. CASE ~ropen
  BY <1>1, <1>3, OlderOrder DEF IInv, ReaderBehind
<1>. QED BY <1>2, <1>3

(* A reader without a file stays where it is, and the writer goes forward. *)
LEMMA ReaderStaysBehind == IInv /\ [Next]_vars => ReaderBehind'
<1> SUFFICES ASSUME IInv, [Next]_vars, step' # "down", ~ropen' PROVE Older(rpos', wpos')
  BY DEF ReaderBehind
<1> USE DEF reader, writer
<1>a. /\ rpos \in Position /\ wpos \in Position /\ NextPartition \in Position
      /\ Older(wpos, NextPartition)
  <2>1. rpos \in Position /\ wpos \in Position
    BY DEF IInv, TypeOK
  <2>. QED BY <2>1 DEF NextPartition, Position, Older
<1>1. CASE OpenNextFails
  <2>1. PICK p \in Linked : Older(rpos, p)
    BY <1>1 DEF OpenNextFails, OldestAfter
  <2>2. p \in Position /\ ~Older(wpos, p)
    BY <1>1, <2>1 DEF OpenNextFails, IInv, TypeOK, WriterNewest
  <2>3. Older(rpos, wpos)
    BY <1>a, <2>1, <2>2, OlderOrder
  <2>. QED BY <1>1, <2>3 DEF OpenNextFails
<1>2. CASE RollPartition \/ RollFails
  <2>1. Older(rpos, wpos)
    BY <1>2 DEF RollPartition, RollFails, IInv, ReaderBehind
  <2>. QED
    BY <1>a, <1>2, <2>1, OlderOrder DEF RollPartition, RollFails
<1>3. CASE UNCHANGED <<ropen, rpos, wpos>> /\ step # "down"
  BY <1>3 DEF IInv, ReaderBehind
<1>4. \/ OpenNextFails \/ RollPartition \/ RollFails
      \/ UNCHANGED <<ropen, rpos, wpos>> /\ step # "down"
  BY DEF Next, Push, Pop, vars, Create, CreateFails, WriteEvent, Writing, MayPop,
     Cull, CullFails, PopStarts, PopWaits, PopWakes, PopTimesOut, ReadEvent,
     ReadTornEvent, ReadNothing, RemoveReadFile, RemoveReadFileFails,
     OpenNextReadFile, Destroy, Crash, CrashInPush, CrashInPop, GoDown,
     IInv, ReaderLinked
<1>. QED BY <1>1, <1>2, <1>3, <1>4

(* What the steps that only take files or events away leave to check.      *)
LEMMA StepIInv == IInv /\ [Next]_vars => IInv'
<1> SUFFICES ASSUME IInv, [Next]_vars PROVE IInv'
  OBVIOUS
<1>a. TypeInv' /\ TypeInv
  BY TypeStep DEF IInv, TypeInv
<1>b. OrderInv
  BY DEF IInv, OrderInv
<1>d. ReaderBehind'
  BY ReaderStaysBehind
<1> SUFFICES OrderInv' /\ WriterNewest' /\ AllBehindOrigin' /\ ReaderPassed'
             /\ ReaderDone' /\ ReaderBounded'
  BY <1>a, <1>d DEF IInv, OrderInv, TypeInv
<1> USE DEF Linked, EventsOf, disk, history, writer, reader, WithNewFile,
      RemoveFile
<1>c. ASSUME UNCHANGED <<disk, history>>
      PROVE  OrderInv' /\ AllBehindOrigin'
  BY <1>c DEF IInv, OrderInv, FilesOrdered, PoppedBounded, FifoAtMostOnce,
     NothingLeftBehind, Unread, OnDisk, AllBehindOrigin
<1>1. CASE Create
  <2>1. PICK m \in {1} \union {p.major + 1 : p \in Kept} :
          LET w == [major |-> m, minor |-> 1]
          IN  /\ FirstMajor(m)
              /\ files' = WithNewFile(Kept, w)
              /\ wpos' = w
              /\ OldestAfter(rpos', Kept \union {w}, Origin)
    BY <1>1 DEF Create
  <2> DEFINE w == [major |-> m, minor |-> 1]
  <2>2. Kept \subseteq Linked
    BY DEF Kept
  <2>3. OrderInv'
    BY <1>1, <1>b, <2>1, <2>2, NoNewEvents DEF Create
  <2>4. m \in Nat /\ m > 0 /\ w \in Position
    BY <2>1, <2>2 DEF IInv, TypeOK, Position
  <2>5. \A p \in Kept : p \in Position /\ p.major < m
    <3>1. CASE Kept = {}
      BY <3>1
    <3>2. CASE Kept # {}
      <4>1. PICK n \in Kept : NewestIn(n, Kept) /\ m = n.major + 1
        BY <2>1, <3>2 DEF FirstMajor
      <4>2. SUFFICES ASSUME NEW p \in Kept PROVE p \in Position /\ p.major < m
        OBVIOUS
      <4>3. n \in Position /\ p \in Position /\ ~Older(n, p)
        BY <2>2, <4>1 DEF IInv, TypeOK, NewestIn
      <4>. QED
        BY <4>1, <4>3 DEF Older, Position
    <3>. QED BY <3>1, <3>2
  <2>6. WriterNewest'
    BY <2>1, <2>4, <2>5 DEF WriterNewest, Older, Position
  <2>7. AllBehindOrigin'
    BY <2>1, <2>2, <2>4 DEF IInv, AllBehindOrigin, Older, Origin, Position
  <2>8. ReaderPassed'
    <3>1. \A p \in DOMAIN files' : ~Older(p, rpos')
      BY <2>1, <2>7 DEF OldestAfter, AllBehindOrigin
    <3>2. pushed \in Nat
          /\ \A p \in DOMAIN files' : files'[p].events \subseteq 1 .. pushed
      BY <2>1, <2>2 DEF IInv, TypeOK
    <3>3. /\ rlast' = 0
          /\ UNCHANGED <<visited, torn>>
      BY <1>1 DEF Create
    <3>4. \A p \in DOMAIN files' : \A e \in files'[p].events : ~(e <= rlast')
      BY <3>2, <3>3
    <3>. QED
      BY <3>1, <3>4 DEF ReaderPassed
  <2>. QED
    BY <1>1, <2>3, <2>6, <2>7, <2>8
       DEF Create, ReaderDone, ReaderBounded, IInv, TypeOK
<1>2. CASE CreateFails
  <2>1. OrderInv'
    BY <1>2, <1>b, NoNewEvents DEF CreateFails, Kept
  <2>. QED
    BY <1>2, <2>1 DEF CreateFails, Kept, WriterNewest, AllBehindOrigin,
       ReaderPassed, ReaderDone, ReaderBounded, IInv
<1>3. CASE RollPartition
  <2>1. OrderInv'
    BY <1>3, <1>b, NoNewEvents DEF RollPartition
  <2>2. /\ NextPartition \in Position /\ Older(wpos, NextPartition)
        /\ Older(Origin, NextPartition)
    BY DEF NextPartition, Position, Older, Origin, IInv, TypeOK
  <2>3. WriterNewest'
    <3>1. \A p \in Linked : ~Older(NextPartition, p)
      BY <1>3, <2>2, OlderOrder DEF RollPartition, WriterNewest, IInv, TypeOK
    <3>2. ~Older(NextPartition, NextPartition)
      BY <2>2, OlderOrder
    <3>. QED
      BY <1>3, <3>1, <3>2 DEF RollPartition, WriterNewest
  <2>4. AllBehindOrigin'
    BY <1>3, <2>2 DEF RollPartition, AllBehindOrigin, IInv
  <2>5. ReaderPassed'
    BY <1>3 DEF RollPartition, ReaderPassed, IInv
  <2>. QED
    BY <1>3, <2>1, <2>3, <2>4, <2>5
       DEF RollPartition, ReaderDone, ReaderBounded, IInv
<1>4. CASE RollFails
  <2>1. NextPartition \in Position /\ Older(wpos, NextPartition)
    BY DEF NextPartition, Position, Older, IInv, TypeOK
  <2>2. WriterNewest'
    BY <1>4, <2>1, OlderOrder DEF RollFails, WriterNewest, IInv, TypeOK
  <2>. QED
    BY <1>4, <1>c, <2>2
       DEF RollFails, ReaderPassed, ReaderDone, ReaderBounded, IInv
<1>5. ASSUME NEW sz \in EventSizes, WriteEvent(sz)
      PROVE  OrderInv' /\ WriterNewest' /\ AllBehindOrigin' /\ ReaderPassed'
             /\ ReaderDone' /\ ReaderBounded'
  <2>1. sz \in Nat /\ step # "down" /\ step' \in {"full", "free"}
    BY <1>5, SpoolAssumption DEF WriteEvent, Writing
  <2>2. OrderInv'
    BY <1>5, <2>1, NewEvent DEF WriteEvent
  <2>3. DOMAIN files' = Linked
    BY <1>5 DEF WriteEvent, AppendToWriteFile
  <2>4. WriterNewest' /\ AllBehindOrigin'
    BY <1>5, <2>1, <2>3 DEF WriteEvent, WriterNewest, AllBehindOrigin, IInv
  <2>5. ReaderPassed'
    <3> SUFFICES ASSUME NEW p \in Linked, NEW e \in files'[p].events,
                        Older(p, rpos) \/ (p = rpos /\ e <= rlast)
                 PROVE  e \in visited \union torn
      BY <1>5, <2>3 DEF WriteEvent, ReaderPassed
    <3>1. rpos \in Position /\ wpos \in Position
      BY DEF IInv, TypeOK
    <3>5. step \in {"free", "write"}
      BY <1>5 DEF WriteEvent, Writing
    <3>2. CASE e \in EventsOf(p)
      BY <2>1, <3>2 DEF IInv, ReaderPassed
    <3>3. CASE p = wpos /\ e = pushed + 1
      <4>1. ~Older(wpos, rpos)
        BY <3>5, ReaderNotAhead
      <4>. QED
        BY <3>3, <4>1 DEF IInv, ReaderBounded, TypeOK
    <3>. QED
      BY <1>5, <3>2, <3>3 DEF WriteEvent, AppendToWriteFile
  <2>. QED
    BY <1>5, <2>1, <2>2, <2>4, <2>5
       DEF WriteEvent, ReaderDone, ReaderBounded, IInv, TypeOK
<1>6. CASE Cull
  <2>1. PICK p \in Linked : files' = Without(p)
    BY <1>6 DEF Cull
  <2>2. OrderInv'
    BY <1>6, <1>b, <2>1, NoNewEvents DEF Cull, Without
  <2>. QED
    BY <1>6, <2>1, <2>2 DEF Cull, Without, IInv, WriterNewest,
       AllBehindOrigin, ReaderPassed, ReaderDone, ReaderBounded
<1>7. CASE CullFails
  BY <1>7, <1>c DEF CullFails, IInv, WriterNewest, ReaderPassed, ReaderDone,
     ReaderBounded
<1>8. CASE PopStarts
  BY <1>8, <1>c DEF PopStarts, MayPop, IInv, WriterNewest, ReaderPassed, ReaderDone,
     ReaderBounded
<1>9. CASE PopWaits
  BY <1>9, <1>c DEF PopWaits, MayPop, IInv, WriterNewest, ReaderPassed, ReaderDone,
     ReaderBounded
<1>10. CASE PopWakes
  BY <1>10, <1>c DEF PopWakes, MayPop, IInv, WriterNewest, ReaderPassed, ReaderDone,
     ReaderBounded
<1>11. CASE PopTimesOut
  BY <1>11, <1>c DEF PopTimesOut, MayPop, IInv, WriterNewest, ReaderPassed, ReaderDone,
     ReaderBounded
<1>12. CASE ReadEvent
  <2>1. PICK e \in EventsOf(rpos) :
          /\ NextUnvisited(e) /\ e \notin torn
          /\ visited' = visited \union {e}
          /\ popped' = Append(popped, e)
          /\ rlast' = e
    BY <1>12 DEF ReadEvent
  <2>2. step = "read" /\ rpos \in Linked
    BY <1>12 DEF ReadEvent, IInv, ReaderLinked
  <2>3. /\ e \in Unread /\ e \in Nat
        /\ \A f \in Unread : f \in Nat /\ e <= f
    BY <2>1, <2>2, ReadsOldest
  <2>4. /\ DOMAIN popped' = 1 .. Len(popped) + 1
        /\ DOMAIN popped = 1 .. Len(popped) /\ Len(popped) \in Nat
        /\ \A i \in DOMAIN popped : popped'[i] = popped[i]
        /\ popped'[Len(popped) + 1] = e
    BY <2>1, <2>3 DEF IInv, TypeOK
  <2>5. \A i \in DOMAIN popped : popped[i] < e /\ popped[i] \in Nat
    BY <2>3 DEF IInv, NothingLeftBehind, TypeOK
  <2>6. FifoAtMostOnce'
    BY <2>4, <2>5 DEF IInv, FifoAtMostOnce
  <2>7. e <= pushed
    BY <2>1, <2>2 DEF IInv, TypeOK
  <2>8. PoppedBounded' /\ ReaderBounded'
    BY <1>12, <2>1, <2>4, <2>7 DEF ReadEvent, IInv, PoppedBounded, ReaderBounded
  <2>9. NothingLeftBehind'
    <3>1. Unread' = Unread \ {e}
      BY <1>12, <2>1 DEF ReadEvent, Unread, OnDisk
    <3>2. \A f \in Unread' : f \in Unread /\ f \in Nat /\ e < f
      BY <2>3, <3>1
    <3>. QED
      BY <2>4, <3>2 DEF IInv, NothingLeftBehind
  <2>10. FilesOrdered' /\ WriterNewest' /\ AllBehindOrigin'
    BY <1>12 DEF ReadEvent, IInv, FilesOrdered, WriterNewest, AllBehindOrigin
  <2>11. ReaderPassed'
    <3> SUFFICES ASSUME NEW p \in Linked, NEW f \in EventsOf(p),
                        Older(p, rpos) \/ (p = rpos /\ f <= e)
                 PROVE  f \in visited \union {e} \union torn
      BY <1>12, <2>1 DEF ReadEvent, ReaderPassed
    <3>. QED
      BY SMTT(20), <2>1, <2>2, <2>3 DEF IInv, ReaderPassed, NextUnvisited, TypeOK
  <2>. QED
    BY <1>12, <2>6, <2>8, <2>9, <2>10, <2>11 DEF ReadEvent, OrderInv, ReaderDone
<1>13. CASE ReadTornEvent
  <2>1. PICK e \in EventsOf(rpos) : NextUnvisited(e) /\ e \in torn /\ rlast' = e
    BY <1>13 DEF ReadTornEvent
  <2>2. step = "read" /\ rpos \in Linked
    BY <1>13 DEF ReadTornEvent, IInv, ReaderLinked
  <2>3. ReaderPassed'
    <3> SUFFICES ASSUME NEW p \in Linked, NEW f \in EventsOf(p),
                        Older(p, rpos) \/ (p = rpos /\ f <= e)
                 PROVE  f \in visited \union torn
      BY <1>13, <2>1 DEF ReadTornEvent, ReaderPassed
    <3>. QED
      BY <2>1, <2>2 DEF IInv, ReaderPassed, NextUnvisited, TypeOK
  <2>. QED
    BY <1>13, <1>c, <2>1, <2>2, <2>3 DEF ReadTornEvent, IInv, WriterNewest,
       ReaderDone, ReaderBounded, TypeOK
<1>14. CASE ReadNothing
  BY <1>14, <1>c DEF ReadNothing, IInv, WriterNewest, ReaderPassed,
     ReaderDone, ReaderBounded
<1>15. CASE RemoveReadFile
  <2>1. OrderInv'
    BY <1>15, <1>b, NoNewEvents DEF RemoveReadFile, Without
  <2>. QED
    BY <1>15, <2>1 DEF RemoveReadFile, Without, IInv, WriterNewest,
       AllBehindOrigin, ReaderPassed, ReaderDone, ReaderBounded
<1>16. CASE RemoveReadFileFails
  <2>1. ReaderDone'
    BY <1>16, RemoveAssumption DEF RemoveReadFileFails, ReaderDone, AtEof,
       EofFails, IInv, ReaderPassed
  <2>. QED
    BY <1>16, <1>c, <2>1 DEF RemoveReadFileFails, IInv, WriterNewest,
       ReaderPassed, ReaderBounded
<1>17. CASE OpenNextReadFile
  <2>1. PICK p \in Linked : OldestAfter(p, Linked, rpos) /\ rpos' = p
    BY <1>17 DEF OpenNextReadFile
  <2>2. ReaderPassed'
    <3> SUFFICES ASSUME NEW q \in Linked, NEW e \in EventsOf(q),
                        Older(q, p) \/ (q = p /\ e <= 0)
                 PROVE  e \in visited \union torn
      BY <1>17, <2>1 DEF OpenNextReadFile, ReaderPassed
    <3>1. e \in 1 .. pushed /\ pushed \in Nat
      BY DEF IInv, TypeOK
    <3>2. Older(q, p)
      BY <3>1
    <3>3. ~Older(rpos, q)
      BY <2>1, <3>2 DEF OldestAfter
    <3>4. Older(q, rpos) \/ q = rpos
      BY <3>3, OlderOrder DEF IInv, TypeOK
    <3>. QED
      BY <1>17, <3>4 DEF OpenNextReadFile, IInv, ReaderPassed, ReaderDone
  <2>. QED
    BY <1>17, <1>c, <2>2 DEF OpenNextReadFile, IInv, WriterNewest, ReaderDone,
       ReaderBounded, TypeOK
<1>23. CASE OpenNextFails
  BY <1>23, <1>c DEF OpenNextFails, IInv, WriterNewest, ReaderPassed, ReaderDone,
     ReaderBounded
<1>18. CASE Destroy
  <2>1. OrderInv'
    BY <1>18, <1>b, NoNewEvents DEF Destroy, Without
  <2>. QED
    BY <1>18, <2>1 DEF Destroy, GoDown, Without, IInv, WriterNewest,
       AllBehindOrigin, ReaderPassed, ReaderDone, ReaderBounded, TypeOK
<1>19. CASE Crash
  BY <1>19, <1>c DEF Crash, GoDown, IInv, WriterNewest, ReaderPassed,
     ReaderDone, ReaderBounded, TypeOK
<1>20. CASE CrashInPush
  <2>1. PICK sz \in EventSizes :
          \E part \in 1 .. sz - 1 : AppendToWriteFile(pushed + 1, part)
    BY <1>20 DEF CrashInPush
  <2>2. PICK part \in Nat \ {0} : AppendToWriteFile(pushed + 1, part)
    BY <2>1
  <2>3. OrderInv'
    BY <1>20, <2>2, NewEvent DEF CrashInPush, Writing
  <2>4. AllBehindOrigin'
    BY <2>2 DEF AppendToWriteFile, IInv, AllBehindOrigin
  <2>. QED
    BY <1>20, <2>3, <2>4 DEF CrashInPush, GoDown, WriterNewest, ReaderPassed,
       ReaderDone, ReaderBounded, IInv, TypeOK
<1>21. CASE CrashInPop
  <2>1. visited \subseteq visited'
    BY <1>21 DEF CrashInPop
  <2>2. OrderInv'
    BY <1>21, <1>b, <2>1, NoNewEvents DEF CrashInPop
  <2>. QED
    BY <1>21, <2>2 DEF CrashInPop, GoDown, WriterNewest, AllBehindOrigin,
       ReaderPassed, ReaderDone, ReaderBounded, IInv, TypeOK
<1>22. CASE UNCHANGED vars
  BY <1>22, <1>c DEF vars, IInv, WriterNewest, ReaderPassed, ReaderDone,
     ReaderBounded
<1>. QED
  BY <1>1, <1>2, <1>3, <1>4, <1>5, <1>6, <1>7, <1>8, <1>9, <1>10, <1>11,
     <1>12, <1>13, <1>14, <1>15, <1>16, <1>17, <1>18, <1>19, <1>20, <1>21,
     <1>22, <1>23 DEF Next, Push, Pop

(* spool_pop returns events in the order they were pushed and none of them *)
(* twice, across culls, torn writes, crashes and restarts, and leaves none *)
(* that is older than one it has returned.                                 *)
THEOREM SpoolIsFifo == Spec => []InOrder
<1>1. IInv => InOrder
  BY DEF IInv, InOrder
<1>. QED
  BY InitIInv, StepIInv, <1>1, PTL DEF Spec

-----------------------------------------------------------------------------
(* Refinement: each step of the spool is a step of the lossy FIFO queue.   *)

(* A file's unread events are consecutive ones among all unread events, so *)
(* removing the file drops a run of the queue.                             *)
LEMMA FileIsRun ==
  ASSUME IInv, NEW p \in Linked,
         NEW a \in EventsOf(p), NEW b \in EventsOf(p),
         NEW q \in Linked, NEW c \in EventsOf(q), a < c, c < b
  PROVE  q = p
<1>1. p \in Position /\ q \in Position /\ a \in Nat /\ b \in Nat /\ c \in Nat
  BY DEF IInv, TypeOK
<1>2. ~Older(p, q) /\ ~Older(q, p)
  BY <1>1 DEF IInv, FilesOrdered
<1>. QED
  BY <1>1, <1>2, OlderOrder

LEMMA RemovingAFileDropsARun ==
  ASSUME IInv, NEW p \in Linked, files' = Without(p),
         UNCHANGED <<visited, torn, pushed, popped>>
  PROVE  Queue!Drop
<1>1. Unread' \subseteq Unread
  BY DEF Unread, OnDisk, Linked, EventsOf, Without
<1>2. \A a \in Unread \ Unread' : a \in EventsOf(p)
  BY DEF Unread, OnDisk, Linked, EventsOf, Without
<1>3. ASSUME NEW a \in Unread \ Unread', NEW b \in Unread \ Unread',
             NEW c \in Unread, a < c, c < b, c \in Unread'
      PROVE  FALSE
  <2>1. PICK q \in Linked \ {p} : c \in EventsOf(q)
    BY <1>3 DEF Unread, OnDisk, Linked, EventsOf, Without
  <2>2. q = p
    BY <1>2, <1>3, <2>1, FileIsRun
  <2>. QED
    BY <2>1, <2>2
<1>. QED
  BY <1>1, <1>3 DEF Queue!Drop

(* Dropping one event of the queue, or none, is a run too.                 *)
LEMMA DroppingOneIsARun ==
  ASSUME NEW e \in Nat, Unread' \subseteq Unread, Unread \ Unread' \subseteq {e},
         UNCHANGED <<pushed, popped>>
  PROVE  Queue!Drop
<1>1. \A a, b \in Unread \ Unread' : \A c \in Unread :
        a < c /\ c < b => c \notin Unread'
  <2> SUFFICES ASSUME NEW a \in Unread \ Unread', NEW b \in Unread \ Unread',
                      NEW c \in Unread, a < c, c < b
               PROVE  c \notin Unread'
    OBVIOUS
  <2>1. a = e /\ b = e
    OBVIOUS
  <2>. QED BY <2>1
<1>. QED
  BY <1>1 DEF Queue!Drop

(* Every step of the spool is a step of the abstract queue or a stutter.   *)
LEMMA QueueStep == IInv /\ [Next]_vars => [Queue!Next]_(Queue!vars)
<1> SUFFICES ASSUME IInv, [Next]_vars PROVE [Queue!Next]_(Queue!vars)
  OBVIOUS
<1> USE DEF Linked, EventsOf, disk, history, writer, reader, WithNewFile,
      RemoveFile
<1>a. ASSUME UNCHANGED <<files, visited, torn, pushed, popped>>
      PROVE  UNCHANGED Queue!vars
  BY <1>a DEF Queue!vars, Unread, OnDisk
<1>b. ASSUME NEW p \in Linked, files' = Without(p),
             UNCHANGED <<visited, torn, pushed, popped>>
      PROVE  Queue!Next
  BY <1>b, RemovingAFileDropsARun DEF Queue!Next
<1>1. CASE Create \/ CreateFails
  <2>1. Kept \subseteq Linked
    BY DEF Kept
  <2>2. \A p \in Linked \ Kept : EventsOf(p) = {}
    BY DEF Kept, IInv, FileSizes, TypeOK
  <2>3. /\ \A p \in Kept : p \in DOMAIN files' /\ files'[p].events = EventsOf(p)
        /\ \A p \in DOMAIN files' \ Kept : files'[p].events = {}
    <3>1. CASE CreateFails
      BY <3>1 DEF CreateFails
    <3>2. CASE Create
      <4>1. PICK m \in {1} \union {p.major + 1 : p \in Kept} :
              LET w == [major |-> m, minor |-> 1]
              IN  /\ FirstMajor(m)
                  /\ files' = WithNewFile(Kept, w)
        BY <3>2 DEF Create
      <4>2. [major |-> m, minor |-> 1] \notin Kept
        BY <2>1, <4>1 DEF FirstMajor, NewestIn, Older, IInv, TypeOK, Position
      <4>. QED
        BY <4>1, <4>2
    <3>. QED BY <1>1, <3>1, <3>2
  <2>4. OnDisk' = OnDisk
    BY <2>1, <2>2, <2>3 DEF OnDisk
  <2>. QED
    BY <1>1, <2>4 DEF Create, CreateFails, Queue!vars, Unread
<1>3. CASE RollPartition
  <2>1. NextPartition \notin Linked
    BY <1>3 DEF RollPartition, NextPartition, IInv, WriterNewest, TypeOK,
       Position, Older
  <2>2. OnDisk' = OnDisk
    BY <1>3, <2>1 DEF RollPartition, OnDisk
  <2>. QED
    BY <1>3, <2>2 DEF RollPartition, Queue!vars, Unread
<1>4. CASE RollFails
  BY <1>4, <1>a DEF RollFails
<1>5. ASSUME NEW sz \in Nat, AppendToWriteFile(pushed + 1, sz),
             pushed' = pushed + 1,
             torn' \in {torn, torn \union {pushed + 1}},
             UNCHANGED <<visited, popped>>
      PROVE  Queue!Next
  <2>1. OnDisk' \in {OnDisk, OnDisk \union {pushed + 1}}
    BY <1>5 DEF AppendToWriteFile, OnDisk
  <2>2. pushed + 1 \notin OnDisk
    BY DEF OnDisk, IInv, TypeOK
  <2>3. Unread' \in {Unread, Unread \union {pushed + 1}}
    BY <1>5, <2>1, <2>2 DEF Unread
  <2>. QED
    BY <1>5, <2>3 DEF Queue!Next, Queue!Push
<1>6. ASSUME NEW sz \in EventSizes, WriteEvent(sz)
      PROVE  Queue!Next
  BY <1>5, <1>6, SpoolAssumption DEF WriteEvent
<1>7. CASE Cull
  BY <1>7, <1>b DEF Cull
<1>8. CASE CullFails \/ PopStarts \/ PopWaits \/ PopWakes \/ PopTimesOut
  BY <1>8, <1>a DEF CullFails, PopStarts, PopWaits, PopWakes, PopTimesOut
<1>9. CASE ReadEvent
  <2>1. PICK e \in EventsOf(rpos) :
          /\ NextUnvisited(e) /\ e \notin torn
          /\ visited' = visited \union {e}
          /\ popped' = Append(popped, e)
    BY <1>9 DEF ReadEvent
  <2>2. e \in Unread /\ \A f \in Unread : e <= f
    BY <1>9, <2>1, ReadsOldest DEF ReadEvent
  <2>3. Unread' = Unread \ {e}
    BY <1>9, <2>1 DEF ReadEvent, Unread, OnDisk
  <2>. QED
    BY <1>9, <2>1, <2>2, <2>3 DEF ReadEvent, Queue!Next, Queue!Pop
<1>10. CASE ReadTornEvent \/ ReadNothing
  BY <1>10, <1>a DEF ReadTornEvent, ReadNothing
<1>11. CASE RemoveReadFile
  BY <1>11, <1>b DEF RemoveReadFile, IInv, ReaderLinked
<1>12. CASE RemoveReadFileFails \/ OpenNextReadFile \/ OpenNextFails \/ Crash
  BY <1>12, <1>a DEF RemoveReadFileFails, OpenNextReadFile, OpenNextFails, Crash
<1>13. CASE Destroy
  <2>1. CASE wpos \in Linked
    BY <1>13, <1>a, <1>b, <2>1 DEF Destroy
  <2>2. CASE wpos \notin Linked
    <3>1. OnDisk' = OnDisk
      BY ZenonT(30), <1>13, <2>2 DEF Destroy, Without, OnDisk
    <3>. QED
      BY <1>13, <3>1 DEF Destroy, Queue!vars, Unread
  <2>. QED
    BY <2>1, <2>2
<1>14. CASE CrashInPush
  <2>1. PICK sz \in EventSizes :
          \E part \in 1 .. sz - 1 : AppendToWriteFile(pushed + 1, part)
    BY <1>14 DEF CrashInPush
  <2>2. PICK part \in Nat : AppendToWriteFile(pushed + 1, part)
    BY <2>1
  <2>. QED
    BY <1>5, <1>14, <2>2 DEF CrashInPush
<1>15. CASE CrashInPop
  <2>1. PICK e \in EventsOf(rpos) :
          /\ NextUnvisited(e) /\ e \notin torn
          /\ visited' = visited \union {e}
    BY <1>15 DEF CrashInPop
  <2>2. e \in Nat
    BY <1>15, <2>1, ReadsOldest DEF CrashInPop
  <2>3. Unread' \subseteq Unread /\ Unread \ Unread' \subseteq {e}
    BY <1>15, <2>1 DEF CrashInPop, Unread, OnDisk
  <2>. QED
    BY <1>15, <2>2, <2>3, DroppingOneIsARun DEF CrashInPop, Queue!Next
<1>16. CASE UNCHANGED vars
  BY <1>16, <1>a DEF vars
<1>. QED
  BY <1>1, <1>3, <1>4, <1>6, <1>7, <1>8, <1>9, <1>10, <1>11, <1>12, <1>13,
     <1>14, <1>15, <1>16 DEF Next, Push, Pop

(* The spool implements the lossy FIFO queue: whatever happens to it, its  *)
(* users see events come out in order, at most once, with only runs of     *)
(* consecutive events missing.                                             *)
THEOREM SpoolImplementsQueue == Spec => ImplementsQueue
<1>1. Init => Queue!Init
  BY DEF Init, Queue!Init, Unread, OnDisk, Linked
<1>. QED
  BY InitIInv, StepIInv, QueueStep, <1>1, PTL
     DEF Spec, ImplementsQueue, Queue!Spec

-----------------------------------------------------------------------------
(* What a file may exceed the partition size by.                           *)
LargestEvent == Max(EventSizes)

Limit == MaxPartitions * MaxPartitionSize

(* The setting in which the spool keeps what it is given: files can be     *)
(* removed, fread() goes on after an end of file, an empty partition is    *)
(* not full, and the limit leaves room for more than the two files cull    *)
(* must not touch, the one that is read and the one that is written.       *)
(* Without that room cull removes the write file, or finds none.           *)
Dependable ==
  /\ ~StickyEof
  /\ "remove" \notin FileErrors
  /\ IsFiniteSet(EventSizes) /\ EventSizes # {}
  /\ HeaderSize < MaxPartitionSize
  /\ 2 * (MaxPartitionSize + LargestEvent) <= Limit

(* The writer is at the end of a file in the directory.                    *)
WriterLinked ==
  /\ wopen => /\ step # "down" /\ wpos \in Linked
              /\ wbytes = files[wpos].bytes
  /\ ~wopen => wpos \notin Linked
  /\ step \in {"write", "full"} => wopen
  /\ step = "write" => wbytes = HeaderSize

(* No event of the write file was read that the reader is not behind.      *)
WriteFileUnread ==
  wopen => \A e \in EventsOf(wpos) \cap visited : rpos = wpos /\ e <= rlast

(* Only events that were written can have been read.                       *)
VisitedBounded == \A e \in visited : e <= pushed

(* The reader is in the oldest file, and done with it before the writer.   *)
ReaderOldest ==
  /\ step # "down" => \A p \in Linked : ~Older(p, rpos)
  /\ step = "open" => Older(rpos, wpos) /\ rpos \notin Linked

(* No file exceeds its partition by more than an event.                    *)
FilesBounded ==
  \A p \in Linked : files[p].bytes < MaxPartitionSize + LargestEvent

(* Only the write file may be without events, and only the first one of a  *)
(* process stays so.                                                       *)
FilesUsed ==
  /\ step # "down" =>
       \A p \in Linked : (p = wpos /\ wopen) \/ files[p].bytes > HeaderSize
  /\ wopen /\ wpos.minor > 1 /\ step # "write" => wbytes > HeaderSize

SizeCounted ==
  /\ step # "down" => size = BytesOf(files)
  /\ step = "full" => SpoolFull(size)

KeptInv ==
  /\ IsFiniteSet(Linked)
  /\ WriterLinked
  /\ WriteFileUnread
  /\ VisitedBounded
  /\ ReaderOldest
  /\ FilesBounded
  /\ FilesUsed
  /\ SizeCounted
  /\ NoSilentLoss

(* In the spool's first process every file but the last is a partition.    *)
BoundInv ==
  wpos.major = 1 =>
    /\ step \in {"free", "read", "open"} => size < Limit
    /\ step = "write" => size < Limit + HeaderSize
    /\ step = "full" => size < Limit + HeaderSize + LargestEvent
    /\ \A p \in Linked \ {wpos} : files[p].bytes >= MaxPartitionSize

(* A spool numbers its partitions from (1, 1) on.                          *)
MajorsFromOne ==
  /\ \A p \in Linked : p.major >= 1
  /\ IF step = "down" THEN wpos.major = 0 ELSE wpos.major >= 1

-----------------------------------------------------------------------------
(* A finite set of naturals has a largest element.                         *)
LEMMA LargestExists ==
  ASSUME NEW S \in SUBSET Nat, IsFiniteSet(S), S # {}
  PROVE  Max(S) \in S /\ \A x \in S : x <= Max(S)
<1> DEFINE P == {s \in SUBSET S : s = {} \/ \E x \in s : \A y \in s : x >= y}
<1>1. ASSUME NEW s \in SUBSET S, \A x \in s : s \ {x} \in P PROVE s \in P
  <2> SUFFICES ASSUME s # {} PROVE \E x \in s : \A y \in s : x >= y
    OBVIOUS
  <2>1. PICK x \in s : TRUE
    OBVIOUS
  <2>2. CASE s \ {x} = {}
    BY <2>1, <2>2
  <2>3. CASE \E z \in s \ {x} : \A y \in s \ {x} : z >= y
    <3>1. PICK z \in s \ {x} : \A y \in s \ {x} : z >= y
      BY <2>3
    <3>2. x \in Nat /\ z \in Nat /\ \A y \in s : y \in Nat
      OBVIOUS
    <3>3. CASE z >= x
      BY <3>1, <3>3
    <3>4. CASE x >= z
      BY <3>1, <3>2, <3>4, <2>1
    <3>. QED BY <3>2, <3>3, <3>4
  <2>. QED BY <1>1, <2>1, <2>2, <2>3
<1>2. P = SUBSET S
  <2>1. P \in SUBSET SUBSET S
    OBVIOUS
  <2> HIDE DEF P
  <2>. QED BY <1>1, <2>1, SubsetInduction
<1>3. \E x \in S : \A y \in S : x >= y
  BY <1>2
<1>4. Max(S) \in S /\ \A y \in S : Max(S) >= y
  BY <1>3 DEF Max
<1>. QED
  BY <1>4

(* The size of a directory is a number, and 0 without files.               *)
LEMMA BytesIsNat ==
  ASSUME NEW fs, IsFiniteSet(DOMAIN fs), \A p \in DOMAIN fs : fs[p].bytes \in Nat
  PROVE  /\ BytesOf(fs) \in Nat
         /\ DOMAIN fs = {} => BytesOf(fs) = 0
  BY SumIsNat DEF BytesOf

(* The bytes of a directory are those of one file and of the others.       *)
LEMMA BytesWithout ==
  ASSUME NEW fs, IsFiniteSet(DOMAIN fs), \A p \in DOMAIN fs : fs[p].bytes \in Nat,
         NEW y \in DOMAIN fs, NEW gs, DOMAIN gs = DOMAIN fs \ {y},
         \A p \in DOMAIN gs : gs[p].bytes = fs[p].bytes
  PROVE  BytesOf(fs) = fs[y].bytes + BytesOf(gs) /\ BytesOf(gs) \in Nat
<1> DEFINE w == [p \in DOMAIN fs |-> fs[p].bytes]
           v == [p \in DOMAIN gs |-> gs[p].bytes]
<1>1. /\ IsFiniteSet(DOMAIN w) /\ (\A p \in DOMAIN w : w[p] \in Nat)
      /\ y \in DOMAIN w /\ DOMAIN v = DOMAIN w \ {y}
      /\ \A p \in DOMAIN v : v[p] = w[p]
      /\ w[y] = fs[y].bytes
  OBVIOUS
<1>2. IsFiniteSet(DOMAIN gs)
  BY FS_Subset
<1>3. BytesOf(gs) \in Nat
  BY <1>2, BytesIsNat
<1>4. BytesOf(fs) = SumFunction(w) /\ BytesOf(gs) = SumFunction(v)
  BY DEF BytesOf
<1> HIDE DEF w, v
<1>5. SumFunction(w) = w[y] + SumFunction(v)
  BY <1>1, SumWithout
<1>. QED
  BY <1>1, <1>3, <1>4, <1>5

(* The first file behind a position exists when there is one behind it.    *)
LEMMA OldestExists ==
  ASSUME Linked \subseteq Position, NEW pos, NEW p \in Linked, Older(pos, p)
  PROVE  \E o \in Linked : OldestAfter(o, Linked, pos)
<1> DEFINE behind == {q \in Linked : Older(pos, q)}
           majors == {q.major : q \in behind}
<1>1. majors \in SUBSET Nat /\ majors # {}
  BY DEF Position
<1>2. PICK m \in majors : \A n \in majors : m <= n
  <2> HIDE DEF majors
  <2>. QED BY <1>1, NatMinimum
<1> DEFINE minors == {q.minor : q \in {b \in behind : b.major = m}}
<1>3. minors \in SUBSET Nat /\ minors # {}
  BY DEF Position
<1>4. PICK k \in minors : \A n \in minors : k <= n
  <2> HIDE DEF minors
  <2>. QED BY <1>3, NatMinimum
<1>5. PICK o \in behind : o.major = m /\ o.minor = k
  OBVIOUS
<1>6. ASSUME NEW q \in Linked, Older(pos, q) PROVE ~Older(q, o)
  <2>1. q \in behind /\ q.major \in majors /\ (q.major = m => q.minor \in minors)
    BY <1>6
  <2>2. m <= q.major /\ (q.major = m => k <= q.minor)
    BY <1>2, <1>4, <2>1
  <2>3. q.major \in Nat /\ q.minor \in Nat /\ m \in Nat /\ k \in Nat
    BY <1>1, <1>3 DEF Position
  <2>. QED BY <1>5, <2>2, <2>3 DEF Older
<1>. QED
  BY <1>5, <1>6 DEF OldestAfter

(* The constants as numbers.                                               *)
LEMMA DependableSizes ==
  ASSUME Dependable
  PROVE  /\ LargestEvent \in Nat \ {0} /\ Limit \in Nat
         /\ \A sz \in EventSizes : sz \in Nat \ {0} /\ sz <= LargestEvent
<1>1. LargestEvent \in EventSizes /\ \A x \in EventSizes : x <= LargestEvent
  BY LargestExists, SpoolAssumption DEF Dependable, LargestEvent
<1>2. Limit \in Nat
  BY SpoolAssumption DEF Limit
<1>. QED
  BY <1>1, <1>2, SpoolAssumption

(* A full spool has a file between the one that is read and the one that   *)
(* is written: those two are not a full spool.                             *)
LEMMA FullHasMiddle ==
  ASSUME Dependable, IInv, KeptInv, step = "full"
  PROVE  /\ wpos \in Linked
         /\ \E p \in Linked : Older(rpos, p) /\ Older(p, wpos)
<1>a. /\ wopen /\ wpos \in Linked
      /\ rpos \in Position /\ wpos \in Position /\ Linked \subseteq Position
  BY DEF IInv, KeptInv, WriterLinked, TypeOK
<1> SUFFICES ASSUME ~ \E p \in Linked : Older(rpos, p) /\ Older(p, wpos)
             PROVE  FALSE
  BY <1>a
<1>1. Linked \subseteq {rpos, wpos}
  <2> SUFFICES ASSUME NEW p \in Linked PROVE p = rpos \/ p = wpos
    OBVIOUS
  <2>1. p \in Position /\ ~Older(p, rpos) /\ ~Older(wpos, p)
    BY <1>a DEF IInv, KeptInv, ReaderOldest, WriterNewest
  <2>. QED
    BY <1>a, <2>1, OlderOrder
<1>2. /\ IsFiniteSet(DOMAIN files) /\ size = BytesOf(files)
      /\ \A p \in DOMAIN files : /\ files[p].bytes \in Nat
                                 /\ files[p].bytes < MaxPartitionSize + LargestEvent
  BY DEF IInv, TypeOK, KeptInv, SizeCounted, FilesBounded, Linked
<1> DEFINE rest == Without(wpos)
<1>3. /\ DOMAIN rest = DOMAIN files \ {wpos}
      /\ \A p \in DOMAIN rest : rest[p].bytes = files[p].bytes
  BY DEF Without, Linked
<1>4. size = files[wpos].bytes + BytesOf(rest) /\ BytesOf(rest) \in Nat
  <2> HIDE DEF rest
  <2>. QED BY <1>a, <1>2, <1>3, BytesWithout DEF Linked
<1>5. IsFiniteSet(DOMAIN rest)
  BY <1>2, <1>3, FS_Subset
<1>6. BytesOf(rest) < MaxPartitionSize + LargestEvent
  <2> HIDE DEF rest
  <2>0. MaxPartitionSize + LargestEvent > 0
    BY DependableSizes, SpoolAssumption
  <2>1. CASE DOMAIN rest = {}
    BY <1>5, <2>0, <2>1, BytesIsNat
  <2>2. CASE DOMAIN rest # {}
    <3>1. rpos \in DOMAIN rest /\ DOMAIN rest = {rpos}
      BY <1>1, <1>3, <2>2 DEF Linked
    <3> DEFINE none == [p \in {} |-> files[p]]
    <3>2. DOMAIN none = DOMAIN rest \ {rpos} /\ \A p \in DOMAIN none : none[p].bytes = rest[p].bytes
      BY <3>1
    <3>3. BytesOf(none) = 0
      BY FS_EmptySet, BytesIsNat
    <3> HIDE DEF none
    <3>4. \A p \in DOMAIN rest : rest[p].bytes \in Nat
      BY <1>2, <1>3
    <3>5. BytesOf(rest) = rest[rpos].bytes + BytesOf(none)
      BY <1>5, <3>1, <3>2, <3>4, BytesWithout
    <3>. QED BY <1>2, <1>3, <3>1, <3>3, <3>5
  <2>. QED BY <2>1, <2>2
<1>7. size >= Limit
  BY DEF KeptInv, SizeCounted, SpoolFull, Limit
<1>. QED
  BY <1>a, <1>2, <1>4, <1>6, <1>7, DependableSizes, SpoolAssumption
     DEF Dependable, Linked

(* A step that ends the process leaves only the directory to look at.      *)
LEMMA DownKeptInv ==
  ASSUME IInv', GoDown, IsFiniteSet(Linked'), FilesBounded', VisitedBounded',
         NoSilentLoss'
  PROVE  KeptInv'
<1>1. Origin \notin DOMAIN files'
  BY DEF IInv, AllBehindOrigin, Linked, Older, Origin
<1>2. WriterLinked' /\ WriteFileUnread' /\ ReaderOldest' /\ FilesUsed' /\ SizeCounted'
  BY <1>1 DEF GoDown, WriterLinked, WriteFileUnread, ReaderOldest, FilesUsed,
     SizeCounted, Linked
<1>. QED
  BY <1>2 DEF KeptInv

(* The directory without one of its files.                                 *)
LEMMA RemovedFile ==
  ASSUME IInv, KeptInv, NEW y \in Linked, files' = Without(y)
  PROVE  /\ DOMAIN files' = Linked \ {y}
         /\ \A p \in DOMAIN files' : files'[p] = files[p]
         /\ IsFiniteSet(DOMAIN files')
         /\ BytesOf(files) = files[y].bytes + BytesOf(files')
         /\ BytesOf(files') \in Nat /\ files[y].bytes \in Nat
<1>1. DOMAIN files' = Linked \ {y} /\ \A p \in DOMAIN files' : files'[p] = files[p]
  BY DEF Without
<1>2. IsFiniteSet(DOMAIN files')
  BY <1>1, FS_Subset DEF KeptInv
<1>3. /\ IsFiniteSet(DOMAIN files) /\ \A p \in DOMAIN files : files[p].bytes \in Nat
      /\ y \in DOMAIN files
  BY DEF KeptInv, IInv, TypeOK, Linked
<1>4. DOMAIN files' = DOMAIN files \ {y} /\ \A p \in DOMAIN files' : files'[p].bytes = files[p].bytes
  BY <1>1 DEF Linked
<1>5. BytesOf(files) = files[y].bytes + BytesOf(files') /\ BytesOf(files') \in Nat
  BY <1>3, <1>4, BytesWithout
<1>. QED
  BY <1>1, <1>2, <1>3, <1>5

(* The directory with one file more.                                       *)
LEMMA AddedFile ==
  ASSUME IInv, KeptInv, NEW D \in SUBSET Linked, NEW y, y \notin D,
         files' = WithNewFile(D, y)
  PROVE  /\ DOMAIN files' = D \union {y}
         /\ \A p \in D : files'[p] = files[p]
         /\ files'[y] = [events |-> {}, bytes |-> HeaderSize]
         /\ IsFiniteSet(DOMAIN files')
         /\ BytesOf(files') = BytesOf([p \in D |-> files[p]]) + HeaderSize
<1>1. /\ DOMAIN files' = D \union {y}
      /\ \A p \in D : files'[p] = files[p]
      /\ files'[y] = [events |-> {}, bytes |-> HeaderSize]
  BY DEF WithNewFile
<1>2. IsFiniteSet(D) /\ IsFiniteSet(DOMAIN files')
  BY <1>1, FS_Subset, FS_AddElement DEF KeptInv
<1> DEFINE old == [p \in D |-> files[p]]
<1>3. /\ \A p \in DOMAIN files' : files'[p].bytes \in Nat
      /\ y \in DOMAIN files' /\ DOMAIN old = DOMAIN files' \ {y}
      /\ \A p \in DOMAIN old : old[p].bytes = files'[p].bytes
      /\ files'[y].bytes = HeaderSize
  BY <1>1, SpoolAssumption DEF IInv, TypeOK
<1>4. BytesOf(files') = HeaderSize + BytesOf(old) /\ BytesOf(old) \in Nat
  <2> HIDE DEF old
  <2>. QED BY <1>2, <1>3, BytesWithout
<1>. QED
  BY <1>1, <1>2, <1>4, SpoolAssumption

(* The directory after an event, or a part of one, was written.            *)
LEMMA LongerFile ==
  ASSUME IInv, KeptInv, Dependable, Writing, NEW sz \in Nat \ {0}, sz <= LargestEvent,
         AppendToWriteFile(pushed + 1, sz)
  PROVE  /\ DOMAIN files' = Linked
         /\ \A p \in Linked \ {wpos} : files'[p] = files[p]
         /\ wpos \in Linked
         /\ files'[wpos].events = EventsOf(wpos) \union {pushed + 1}
         /\ files'[wpos].bytes = files[wpos].bytes + sz
         /\ files[wpos].bytes < MaxPartitionSize
         /\ files[wpos].bytes \in Nat /\ files[wpos].bytes >= HeaderSize
         /\ BytesOf(files') = BytesOf(files) + sz
         /\ FilesBounded'
<1>1. wopen /\ step # "down" /\ wpos \in Linked /\ wbytes = files[wpos].bytes
  BY DEF Writing, MayPush, KeptInv, WriterLinked
<1>2. /\ DOMAIN files' = Linked
      /\ \A p \in Linked \ {wpos} : files'[p] = files[p]
      /\ files'[wpos].events = EventsOf(wpos) \union {pushed + 1}
      /\ files'[wpos].bytes = files[wpos].bytes + sz
  BY <1>1 DEF AppendToWriteFile
<1>3. files[wpos].bytes < MaxPartitionSize
  BY <1>1, SpoolAssumption DEF Writing, KeptInv, WriterLinked, Dependable
<1>4. /\ IsFiniteSet(DOMAIN files) /\ \A p \in DOMAIN files : files[p].bytes \in Nat
      /\ wpos \in DOMAIN files
  BY <1>1 DEF KeptInv, IInv, TypeOK, Linked
<1> DEFINE rest == Without(wpos)
<1>5. /\ DOMAIN rest = DOMAIN files \ {wpos}
      /\ \A p \in DOMAIN rest : rest[p].bytes = files[p].bytes /\ rest[p].bytes = files'[p].bytes
  BY <1>2 DEF Without, Linked
<1>6. IsFiniteSet(DOMAIN files') /\ \A p \in DOMAIN files' : files'[p].bytes \in Nat
  BY <1>2, <1>4 DEF Linked
<1>7. /\ BytesOf(files) = files[wpos].bytes + BytesOf(rest)
      /\ BytesOf(files') = files'[wpos].bytes + BytesOf(rest)
      /\ BytesOf(rest) \in Nat
  <2> HIDE DEF rest
  <2>1. BytesOf(files) = files[wpos].bytes + BytesOf(rest) /\ BytesOf(rest) \in Nat
    BY <1>4, <1>5, BytesWithout
  <2>2. wpos \in DOMAIN files' /\ DOMAIN rest = DOMAIN files' \ {wpos}
    BY <1>2, <1>4, <1>5 DEF Linked
  <2>3. BytesOf(files') = files'[wpos].bytes + BytesOf(rest)
    BY ZenonT(30), <1>5, <1>6, <2>2, BytesWithout
  <2>. QED BY <2>1, <2>3
<1>8. BytesOf(files') = BytesOf(files) + sz
  <2> HIDE DEF rest
  <2>. QED BY <1>2, <1>4, <1>7
<1>9. FilesBounded'
  <2>1. files'[wpos].bytes < MaxPartitionSize + LargestEvent
    BY <1>2, <1>3, <1>4, DependableSizes, SpoolAssumption
  <2>. QED
    BY <1>2, <2>1 DEF FilesBounded, KeptInv, Linked
<1>10. files[wpos].bytes >= HeaderSize
  BY <1>1 DEF IInv, FileSizes
<1>. QED
  BY <1>1, <1>2, <1>3, <1>4, <1>8, <1>9, <1>10 DEF Linked

(* Every step keeps the invariant, one case per action.                    *)
LEMMA StepKeptInv == Dependable /\ IInv /\ KeptInv /\ [Next]_vars => KeptInv'
<1> SUFFICES ASSUME Dependable, IInv, KeptInv, [Next]_vars PROVE KeptInv'
  OBVIOUS
<1>a. IInv'
  BY StepIInv
<1>b. /\ Linked \subseteq Position /\ rpos \in Position /\ wpos \in Position
      /\ wopen \in BOOLEAN
      /\ pushed \in Nat
      /\ \A p \in Linked : EventsOf(p) \subseteq 1 .. pushed
  BY DEF IInv, TypeOK
<1>c. ASSUME UNCHANGED <<files, visited, torn, pushed, culled, wpos, wopen, wbytes, rpos, size>>,
             step' # "down", step' # "open", step' # "write", step' # "full",
             step \notin {"down", "open", "write", "full"},
             rlast' \in Nat, rlast <= rlast'
      PROVE  KeptInv'
  <2>1. WriteFileUnread'
    <3> SUFFICES ASSUME wopen, NEW e \in EventsOf(wpos), e \in visited
                 PROVE  rpos = wpos /\ e <= rlast'
      BY <1>c DEF WriteFileUnread, EventsOf
    <3>1. rpos = wpos /\ e <= rlast
      BY DEF KeptInv, WriteFileUnread
    <3>2. e \in Nat /\ rlast \in Nat
      BY DEF IInv, TypeOK
    <3>. QED BY <1>c, <3>1, <3>2
  <2>. QED
    BY <1>c, <2>1 DEF KeptInv, WriterLinked, VisitedBounded, ReaderOldest,
       FilesBounded, FilesUsed, SizeCounted, NoSilentLoss, OnDisk, Linked, EventsOf
<1> USE DEF disk, history, writer, reader
<1>1. CASE Create
  <2>1. PICK m \in {1} \union {p.major + 1 : p \in Kept} :
          LET w == [major |-> m, minor |-> 1]
          IN  /\ FirstMajor(m)
              /\ files' = WithNewFile(Kept, w)
              /\ size' = BytesOf([p \in Kept |-> files[p]]) + HeaderSize
              /\ wpos' = w
              /\ OldestAfter(rpos', Kept \union {w}, Origin)
    BY <1>1 DEF Create
  <2> DEFINE w == [major |-> m, minor |-> 1]
  <2>2. Kept \subseteq Linked /\ w \notin Kept
    BY <2>1, <1>b DEF Kept, FirstMajor, NewestIn, Older, Position
  <2>3. /\ DOMAIN files' = Kept \union {w}
        /\ \A p \in Kept : files'[p] = files[p]
        /\ files'[w] = [events |-> {}, bytes |-> HeaderSize]
        /\ IsFiniteSet(DOMAIN files')
        /\ size' = BytesOf(files')
    BY <2>1, <2>2, AddedFile
  <2>4. /\ wopen' /\ wbytes' = HeaderSize /\ wpos' = w /\ step' = "free"
        /\ UNCHANGED <<visited, torn, pushed, culled>>
    BY <1>1, <2>1 DEF Create
  <2> HIDE DEF w
  <2>5. WriterLinked' /\ WriteFileUnread' /\ VisitedBounded' /\ SizeCounted'
    BY <2>3, <2>4 DEF WriterLinked, WriteFileUnread, VisitedBounded, SizeCounted,
       KeptInv, Linked, EventsOf
  <2>6. ReaderOldest'
    BY <1>a, <2>1, <2>3, <2>4 DEF ReaderOldest, OldestAfter, IInv, AllBehindOrigin, Linked, w
  <2>7. FilesBounded'
    BY <2>2, <2>3, DependableSizes, SpoolAssumption DEF FilesBounded, KeptInv, Linked, Dependable
  <2>8. FilesUsed'
    BY <2>2, <2>3, <2>4, SpoolAssumption DEF FilesUsed, Kept, IInv, FileSizes, TypeOK, Linked, w
  <2>9. NoSilentLoss'
    <3>1. \A p \in Linked \ Kept : EventsOf(p) = {}
      BY SpoolAssumption DEF Kept, IInv, FileSizes
    <3>2. OnDisk \subseteq OnDisk'
      BY <2>3, <3>1 DEF OnDisk, Linked, EventsOf
    <3>. QED BY <2>4, <3>2 DEF KeptInv, NoSilentLoss
  <2>. QED
    BY <2>3, <2>5, <2>6, <2>7, <2>8, <2>9 DEF KeptInv, Linked
<1>2. CASE CreateFails
  <2>1. /\ step = "down" /\ step' = "down" /\ ~wopen
        /\ DOMAIN files' = Kept /\ Kept \subseteq Linked
        /\ \A p \in Kept : files'[p] = files[p]
        /\ UNCHANGED <<visited, torn, pushed, culled, wpos, wopen>>
    BY <1>2 DEF CreateFails, Kept, KeptInv, WriterLinked
  <2>2. IsFiniteSet(DOMAIN files')
    BY <2>1, FS_Subset DEF KeptInv
  <2>3. NoSilentLoss'
    <3>1. \A p \in Linked \ Kept : EventsOf(p) = {}
      BY SpoolAssumption DEF Kept, IInv, FileSizes
    <3>2. OnDisk \subseteq OnDisk'
      BY <2>1, <3>1 DEF OnDisk, Linked, EventsOf
    <3>. QED BY <2>1, <3>2 DEF KeptInv, NoSilentLoss
  <2>. QED
    BY <2>1, <2>2, <2>3 DEF KeptInv, WriterLinked, WriteFileUnread, VisitedBounded,
       ReaderOldest, FilesBounded, FilesUsed, SizeCounted, Linked
<1>3. CASE RollPartition
  <2> DEFINE n == NextPartition
  <2>1. n \in Position /\ Older(wpos, n) /\ n \notin Linked
    BY <1>3, <1>b DEF RollPartition, NextPartition, IInv, WriterNewest, Position, Older
  <2>2. /\ step = "free" /\ step' = "write" /\ wopen /\ wopen'
        /\ wbytes >= MaxPartitionSize /\ wbytes' = HeaderSize /\ wpos' = n
        /\ files' = WithNewFile(Linked, n) /\ size' = size + HeaderSize
        /\ UNCHANGED <<visited, torn, pushed, culled, rpos, rlast>>
    BY <1>3 DEF RollPartition, MayPush
  <2> HIDE DEF n
  <2>3. /\ DOMAIN files' = Linked \union {n}
        /\ \A p \in Linked : files'[p] = files[p]
        /\ files'[n] = [events |-> {}, bytes |-> HeaderSize]
        /\ IsFiniteSet(DOMAIN files')
        /\ BytesOf(files') = BytesOf([p \in Linked |-> files[p]]) + HeaderSize
    BY <2>1, <2>2, AddedFile
  <2>4. size' = BytesOf(files')
    <3>1. BytesOf([p \in Linked |-> files[p]]) = BytesOf(files)
      BY DEF BytesOf, Linked
    <3>. QED BY <2>2, <2>3, <3>1 DEF KeptInv, SizeCounted
  <2>5. WriterLinked' /\ WriteFileUnread' /\ VisitedBounded' /\ SizeCounted'
    BY <2>2, <2>3, <2>4 DEF WriterLinked, WriteFileUnread, VisitedBounded, SizeCounted,
       KeptInv, Linked, EventsOf
  <2>6. ReaderOldest'
    <3>1. ~Older(wpos, rpos)
      BY <2>2, ReaderNotAhead
    <3>2. ~Older(n, rpos)
      BY <1>b, <2>1, <3>1, OlderOrder
    <3>. QED
      BY <2>2, <2>3, <3>2 DEF ReaderOldest, KeptInv, Linked
  <2>7. FilesBounded'
    BY <2>2, <2>3, DependableSizes, SpoolAssumption DEF FilesBounded, KeptInv, Linked, Dependable
  <2>8. FilesUsed'
    <3>1. \A p \in Linked : files[p].bytes > HeaderSize
      BY <2>2, SpoolAssumption DEF KeptInv, FilesUsed, WriterLinked, Dependable, IInv, TypeOK
    <3>. QED
      BY <2>2, <2>3, <3>1 DEF FilesUsed, Linked
  <2>9. NoSilentLoss'
    <3>2. OnDisk \subseteq OnDisk'
      BY <2>3 DEF OnDisk, Linked, EventsOf
    <3>. QED BY <2>2, <3>2 DEF KeptInv, NoSilentLoss
  <2>. QED
    BY <2>3, <2>5, <2>6, <2>7, <2>8, <2>9 DEF KeptInv, Linked
<1>4. CASE RollFails
  <2>1. NextPartition \in Position /\ Older(wpos, NextPartition) /\ NextPartition \notin Linked
    BY <1>4, <1>b DEF RollFails, NextPartition, IInv, WriterNewest, Position, Older
  <2>2. /\ step = "free" /\ step' = "free" /\ wopen /\ ~wopen'
        /\ wbytes >= MaxPartitionSize /\ wpos' = NextPartition
        /\ UNCHANGED <<files, visited, torn, pushed, culled, rpos, rlast, size>>
    BY <1>4 DEF RollFails, MayPush
  <2>3. FilesUsed'
    <3>1. \A p \in Linked : files[p].bytes > HeaderSize
      BY <2>2, SpoolAssumption DEF KeptInv, FilesUsed, WriterLinked, Dependable, IInv, TypeOK
    <3>. QED
      BY <2>2, <3>1 DEF FilesUsed, Linked
  <2>. QED
    BY <2>1, <2>2, <2>3 DEF KeptInv, WriterLinked, WriteFileUnread, VisitedBounded,
       ReaderOldest, FilesBounded, SizeCounted, NoSilentLoss, OnDisk, Linked, EventsOf
<1>5. ASSUME NEW sz \in EventSizes, WriteEvent(sz) PROVE KeptInv'
  <2>1. /\ Writing /\ wopen /\ wopen' /\ pushed' = pushed + 1
        /\ AppendToWriteFile(pushed + 1, sz)
        /\ wbytes' = wbytes + sz /\ size' = size + sz
        /\ step' = IF SpoolFull(size + sz) THEN "full" ELSE "free"
        /\ step # "down" /\ step # "open"
        /\ UNCHANGED <<visited, torn, culled, wpos, rpos, rlast>>
    BY <1>5 DEF WriteEvent, Writing, MayPush
  <2>2. sz \in Nat \ {0} /\ sz <= LargestEvent
    BY DependableSizes
  <2>3. /\ DOMAIN files' = Linked
        /\ \A p \in Linked \ {wpos} : files'[p] = files[p]
        /\ wpos \in Linked
        /\ files'[wpos].events = EventsOf(wpos) \union {pushed + 1}
        /\ files'[wpos].bytes = files[wpos].bytes + sz
        /\ files[wpos].bytes \in Nat /\ files[wpos].bytes >= HeaderSize
        /\ BytesOf(files') = BytesOf(files) + sz
        /\ FilesBounded'
    BY <2>1, <2>2, LongerFile
  <2>4. IsFiniteSet(Linked') /\ WriterLinked' /\ ReaderOldest' /\ SizeCounted'
    BY <2>1, <2>3 DEF KeptInv, WriterLinked, ReaderOldest, SizeCounted, Linked
  <2>5. VisitedBounded' /\ WriteFileUnread'
    <3>1. pushed + 1 \notin visited /\ \A e \in visited : e <= pushed + 1
      <4>1. \A e \in visited : e \in Nat /\ e <= pushed
        BY DEF KeptInv, VisitedBounded, IInv, TypeOK
      <4>. QED BY <1>b, <4>1
    <3>. QED
      BY <2>1, <2>3, <3>1 DEF KeptInv, WriteFileUnread, VisitedBounded, EventsOf
  <2>6. FilesUsed'
    <3>1. wbytes = files[wpos].bytes /\ wbytes' > HeaderSize /\ files'[wpos].bytes > HeaderSize
      BY <2>1, <2>2, <2>3, SpoolAssumption DEF KeptInv, WriterLinked
    <3>. QED
      BY <2>1, <2>3, <3>1 DEF FilesUsed, KeptInv, Linked
  <2>7. NoSilentLoss'
    <3>1. pushed + 1 \in OnDisk' /\ OnDisk \subseteq OnDisk'
      BY <2>3 DEF OnDisk, Linked, EventsOf
    <3>2. \A e \in 1 .. (pushed + 1) : e \in 1 .. pushed \/ e = pushed + 1
      BY <1>b
    <3>. QED
      BY <2>1, <3>1, <3>2 DEF KeptInv, NoSilentLoss
  <2>. QED
    BY <2>3, <2>4, <2>5, <2>6, <2>7 DEF KeptInv
<1>6. CASE Cull
  <2>1. PICK p \in Linked : /\ OldestAfter(p, Linked, rpos)
                            /\ files' = Without(p) /\ size' = size - files[p].bytes
                            /\ culled' = culled \union EventsOf(p)
    BY <1>6 DEF Cull, RemoveFile
  <2>2. /\ step = "full" /\ step' = "free" /\ wopen
        /\ UNCHANGED <<visited, torn, pushed, wpos, wopen, wbytes, rpos, rlast>>
    BY <1>6 DEF Cull, KeptInv, WriterLinked
  <2>3. p # wpos /\ wpos \in Linked
    BY <2>1, <2>2, FullHasMiddle DEF OldestAfter
  <2>4. /\ DOMAIN files' = Linked \ {p}
        /\ \A q \in DOMAIN files' : files'[q] = files[q]
        /\ IsFiniteSet(DOMAIN files')
        /\ BytesOf(files) = files[p].bytes + BytesOf(files')
        /\ BytesOf(files') \in Nat /\ files[p].bytes \in Nat
    BY <2>1, RemovedFile
  <2>5. NoSilentLoss'
    <3>1. OnDisk \subseteq OnDisk' \union EventsOf(p)
      BY <2>4 DEF OnDisk, Linked, EventsOf
    <3>. QED
      BY <2>1, <2>2, <3>1 DEF KeptInv, NoSilentLoss
  <2>6. SizeCounted'
    BY <2>1, <2>2, <2>4 DEF KeptInv, SizeCounted
  <2>. QED
    BY <2>2, <2>3, <2>4, <2>5, <2>6 DEF KeptInv, WriterLinked, WriteFileUnread,
       VisitedBounded, ReaderOldest, FilesBounded, FilesUsed, Linked, EventsOf
<1>7. CASE CullFails
  BY <1>7 DEF CullFails, Dependable
<1>8. CASE PopStarts \/ PopWaits \/ PopWakes \/ PopTimesOut \/ ReadNothing
  BY <1>8, <1>c DEF PopStarts, PopWaits, PopWakes, PopTimesOut, MayPop, ReadNothing, IInv, TypeOK
<1>9. CASE ReadEvent
  <2>1. PICK e \in EventsOf(rpos) :
          /\ NextUnvisited(e)
          /\ visited' = visited \union {e}
          /\ rlast' = e
    BY <1>9 DEF ReadEvent
  <2>2. /\ step = "read" /\ step' = "free" /\ rpos \in Linked
        /\ UNCHANGED <<files, torn, pushed, culled, wpos, wopen, wbytes, rpos, size>>
    BY <1>9 DEF ReadEvent, IInv, ReaderLinked
  <2>3. e \in 1 .. pushed /\ e > rlast
    BY <1>b, <2>1, <2>2 DEF NextUnvisited
  <2>4. WriteFileUnread'
    <3> SUFFICES ASSUME wopen, NEW f \in EventsOf(wpos), f \in visited \union {e}
                 PROVE  rpos = wpos /\ f <= e
      BY <2>1, <2>2 DEF WriteFileUnread, EventsOf
    <3>1. wpos \in Linked /\ f \in Nat /\ e \in Nat /\ rlast \in Nat
      BY <1>b, <2>3 DEF KeptInv, WriterLinked, IInv, TypeOK
    <3>2. CASE f \in visited
      BY <2>3, <3>1, <3>2 DEF KeptInv, WriteFileUnread
    <3>3. CASE f = e
      <4>1. ~Older(rpos, wpos) /\ ~Older(wpos, rpos)
        BY <2>1, <2>2, <3>1, <3>3 DEF IInv, FilesOrdered
      <4>. QED
        BY <1>b, <3>1, <3>3, <4>1, OlderOrder
    <3>. QED BY <3>2, <3>3
  <2>5. VisitedBounded' /\ NoSilentLoss'
    BY <2>1, <2>2, <2>3 DEF KeptInv, VisitedBounded, NoSilentLoss, OnDisk, Linked, EventsOf
  <2>. QED
    BY <2>2, <2>4, <2>5 DEF KeptInv, WriterLinked, ReaderOldest, FilesBounded,
       FilesUsed, SizeCounted, Linked
<1>10. CASE ReadTornEvent
  <2>1. PICK e \in EventsOf(rpos) : NextUnvisited(e) /\ rlast' = e
    BY <1>10 DEF ReadTornEvent
  <2>2. rpos \in Linked
    BY <1>10 DEF ReadTornEvent, IInv, ReaderLinked
  <2>3. e \in Nat /\ rlast \in Nat /\ rlast <= e
    BY <1>b, <2>1, <2>2 DEF NextUnvisited, IInv, TypeOK
  <2>. QED
    BY <1>10, <1>c, <2>1, <2>3 DEF ReadTornEvent
<1>11. CASE RemoveReadFile
  <2>1. /\ step = "read" /\ step' = "open" /\ AtEof /\ WriteAheadOfRead
        /\ files' = Without(rpos) /\ size' = size - files[rpos].bytes
        /\ rpos \in Linked
        /\ UNCHANGED <<visited, torn, pushed, culled, wpos, wopen, wbytes, rpos, rlast>>
    BY <1>11 DEF RemoveReadFile, RemoveFile, IInv, ReaderLinked
  <2>2. \A e \in EventsOf(rpos) : e \in visited \/ e <= rlast
    BY <2>1 DEF AtEof, EofFails, Dependable
  <2>3. rpos # wpos
    <3>1. CASE ~wopen
      BY <2>1, <3>1 DEF KeptInv, WriterLinked
    <3>2. CASE wopen
      <4> SUFFICES ASSUME rpos = wpos PROVE FALSE
        OBVIOUS
      <4>1. PICK e \in EventsOf(rpos) : e > rlast
        BY <1>b, <2>1, OlderOrder DEF WriteAheadOfRead
      <4>2. e \in Nat /\ rlast \in Nat
        BY <1>b, <2>1 DEF IInv, TypeOK
      <4>. QED
        BY <2>2, <3>2, <4>1, <4>2 DEF KeptInv, WriteFileUnread
    <3>. QED BY <1>b, <3>1, <3>2
  <2>4. Older(rpos, wpos)
    BY <1>b, <2>1, <2>3, OlderOrder DEF IInv, WriterNewest
  <2>5. /\ DOMAIN files' = Linked \ {rpos}
        /\ \A q \in DOMAIN files' : files'[q] = files[q]
        /\ IsFiniteSet(DOMAIN files')
        /\ BytesOf(files) = files[rpos].bytes + BytesOf(files')
        /\ BytesOf(files') \in Nat /\ files[rpos].bytes \in Nat
    BY <2>1, RemovedFile
  <2>6. NoSilentLoss'
    <3>1. EventsOf(rpos) \subseteq visited \union torn
      BY <2>1, <2>2 DEF IInv, ReaderPassed
    <3>2. OnDisk \subseteq OnDisk' \union EventsOf(rpos)
      BY <2>5 DEF OnDisk, Linked, EventsOf
    <3>. QED
      BY <2>1, <3>1, <3>2 DEF KeptInv, NoSilentLoss
  <2>7. SizeCounted'
    BY <2>1, <2>5 DEF KeptInv, SizeCounted
  <2>. QED
    BY <2>1, <2>3, <2>4, <2>5, <2>6, <2>7 DEF KeptInv, WriterLinked, WriteFileUnread,
       VisitedBounded, ReaderOldest, FilesBounded, FilesUsed, Linked, EventsOf
<1>12. CASE RemoveReadFileFails
  BY <1>12 DEF RemoveReadFileFails, Dependable
<1>13. CASE OpenNextReadFile
  <2>1. PICK p \in Linked : OldestAfter(p, Linked, rpos) /\ rpos' = p
    BY <1>13 DEF OpenNextReadFile
  <2>2. /\ step = "open" /\ step' = "read" /\ rlast' = 0
        /\ UNCHANGED <<files, visited, torn, pushed, culled, wpos, wopen, wbytes, size>>
    BY <1>13 DEF OpenNextReadFile
  <2>3. Older(rpos, wpos) /\ rpos \notin Linked /\ rpos # wpos
    BY <1>b, <2>2, OlderOrder DEF KeptInv, ReaderOldest
  <2>4. ReaderOldest'
    <3>1. ASSUME NEW q \in Linked PROVE ~Older(q, p)
      <4>1. Older(rpos, q)
        BY <1>b, <2>2, <2>3, OlderOrder DEF KeptInv, ReaderOldest
      <4>. QED
        BY <2>1, <4>1 DEF OldestAfter
    <3>. QED
      BY <2>1, <2>2, <3>1 DEF ReaderOldest, Linked
  <2>5. WriteFileUnread'
    BY <2>2, <2>3 DEF KeptInv, WriteFileUnread, EventsOf
  <2>. QED
    BY <2>2, <2>4, <2>5 DEF KeptInv, WriterLinked, VisitedBounded, FilesBounded,
       FilesUsed, SizeCounted, NoSilentLoss, OnDisk, Linked, EventsOf
<1>19. CASE OpenNextFails
  <2>1. /\ step = "open" /\ step' = "free"
        /\ UNCHANGED <<files, visited, torn, pushed, culled, wpos, wopen, wbytes, rpos, rlast, size>>
    BY <1>19 DEF OpenNextFails
  <2>. QED
    BY <2>1 DEF KeptInv, WriterLinked, WriteFileUnread, VisitedBounded, ReaderOldest,
       FilesBounded, FilesUsed, SizeCounted, NoSilentLoss, OnDisk, Linked, EventsOf
<1>14. CASE Destroy
  <2>1. /\ wopen /\ wpos \in Linked /\ wbytes = files[wpos].bytes
        /\ GoDown /\ UNCHANGED <<visited, torn, pushed, culled>>
    BY <1>14 DEF Destroy, KeptInv, WriterLinked
  <2>2. CASE wbytes = HeaderSize
    <3>0. /\ files[wpos].bytes = HeaderSize
          /\ EventsOf(wpos) # {} => files[wpos].bytes > HeaderSize
      BY <2>1, <2>2 DEF IInv, FileSizes
    <3>1. files' = Without(wpos) /\ EventsOf(wpos) = {}
      BY <1>14, <2>2, <3>0, SpoolAssumption DEF Destroy
    <3>2. /\ DOMAIN files' = Linked \ {wpos}
          /\ \A q \in DOMAIN files' : files'[q] = files[q]
          /\ IsFiniteSet(DOMAIN files')
      BY <2>1, <3>1, RemovedFile
    <3>3. OnDisk \subseteq OnDisk'
      BY <3>1, <3>2 DEF OnDisk, Linked, EventsOf
    <3>4. IsFiniteSet(Linked') /\ FilesBounded' /\ VisitedBounded' /\ NoSilentLoss'
      BY <2>1, <3>2, <3>3 DEF KeptInv, FilesBounded, VisitedBounded, NoSilentLoss, Linked
    <3>. QED
      BY <1>a, <2>1, <3>4, DownKeptInv
  <2>3. CASE wbytes # HeaderSize
    <3>1. UNCHANGED files
      BY <1>14, <2>3 DEF Destroy
    <3>2. IsFiniteSet(Linked') /\ FilesBounded' /\ VisitedBounded' /\ NoSilentLoss'
      BY <2>1, <3>1 DEF KeptInv, FilesBounded, VisitedBounded, NoSilentLoss, Linked, OnDisk, EventsOf
    <3>. QED
      BY <1>a, <2>1, <3>2, DownKeptInv
  <2>. QED BY <2>2, <2>3
<1>15. CASE Crash
  <2>1. GoDown /\ UNCHANGED <<files, visited, torn, pushed, culled>>
    BY <1>15 DEF Crash
  <2>2. IsFiniteSet(Linked') /\ FilesBounded' /\ VisitedBounded' /\ NoSilentLoss'
    BY <2>1 DEF KeptInv, FilesBounded, VisitedBounded, NoSilentLoss, Linked, OnDisk, EventsOf
  <2>. QED
    BY <1>a, <2>1, <2>2, DownKeptInv
<1>16. CASE CrashInPush
  <2>1. PICK sz \in EventSizes : \E part \in 1 .. sz - 1 : AppendToWriteFile(pushed + 1, part)
    BY <1>16 DEF CrashInPush
  <2>2. PICK part \in 1 .. sz - 1 : AppendToWriteFile(pushed + 1, part)
    BY <2>1
  <2>3. part \in Nat \ {0} /\ part <= LargestEvent
    BY DependableSizes
  <2>4. /\ Writing /\ GoDown /\ pushed' = pushed + 1 /\ torn' = torn \union {pushed + 1}
        /\ UNCHANGED <<visited, culled>>
    BY <1>16 DEF CrashInPush
  <2>5. /\ DOMAIN files' = Linked
        /\ \A p \in Linked \ {wpos} : files'[p] = files[p]
        /\ wpos \in Linked
        /\ files'[wpos].events = EventsOf(wpos) \union {pushed + 1}
        /\ FilesBounded'
    BY <2>2, <2>3, <2>4, LongerFile
  <2>6. OnDisk \subseteq OnDisk'
    BY <2>5 DEF OnDisk, Linked, EventsOf
  <2>7. \A e \in 1 .. (pushed + 1) : e \in 1 .. pushed \/ e = pushed + 1
    BY <1>b
  <2>8. IsFiniteSet(Linked') /\ NoSilentLoss'
    BY <2>4, <2>5, <2>6, <2>7 DEF KeptInv, NoSilentLoss, Linked
  <2>9. VisitedBounded'
    BY <1>b, <2>4 DEF KeptInv, VisitedBounded, IInv, TypeOK
  <2>. QED
    BY <1>a, <2>4, <2>5, <2>8, <2>9, DownKeptInv
<1>17. CASE CrashInPop
  <2>1. PICK e \in EventsOf(rpos) : visited' = visited \union {e}
    BY <1>17 DEF CrashInPop
  <2>2. /\ rpos \in Linked /\ GoDown
        /\ UNCHANGED <<files, torn, pushed, culled>>
    BY <1>17 DEF CrashInPop, IInv, ReaderLinked
  <2>3. e <= pushed
    BY <1>b, <2>2
  <2>4. IsFiniteSet(Linked') /\ FilesBounded' /\ VisitedBounded' /\ NoSilentLoss'
    BY <2>1, <2>2, <2>3 DEF KeptInv, FilesBounded, VisitedBounded, NoSilentLoss, Linked, OnDisk, EventsOf
  <2>. QED
    BY <1>a, <2>2, <2>4, DownKeptInv
<1>18. CASE UNCHANGED vars
  BY <1>18 DEF vars, KeptInv, WriterLinked, WriteFileUnread, VisitedBounded, ReaderOldest,
     FilesBounded, FilesUsed, SizeCounted, NoSilentLoss, OnDisk, Linked, EventsOf
<1>. QED
  BY <1>1, <1>2, <1>3, <1>4, <1>5, <1>6, <1>7, <1>8, <1>9, <1>10, <1>11,
     <1>12, <1>13, <1>14, <1>15, <1>16, <1>17, <1>18, <1>19 DEF Next, Push, Pop

(* KeptInv holds of a spool just made.                                     *)
LEMMA InitKeptInv == Init => KeptInv
  BY FS_EmptySet, SpoolAssumption DEF Init, KeptInv, WriterLinked, WriteFileUnread, VisitedBounded,
     ReaderOldest, FilesBounded, FilesUsed, SizeCounted, NoSilentLoss, Linked

(* The size of a directory that is the size of one header tells that there *)
(* is one file and nothing in it.                                          *)
LEMMA SizesAreRight == IInv /\ KeptInv => SizeIsRight
<1> SUFFICES ASSUME IInv, KeptInv, step = "free", size = HeaderSize
             PROVE  Unread = {} /\ wbytes <= HeaderSize /\ wpos.minor <= 1
  BY DEF SizeIsRight, SizeIsDiskUse, EmptyMeansUnused, SpoolEmptyOfMessages,
     KeptInv, SizeCounted
<1>1. /\ IsFiniteSet(DOMAIN files) /\ size = BytesOf(files)
      /\ \A p \in DOMAIN files : files[p].bytes \in Nat /\ files[p].bytes >= HeaderSize
      /\ HeaderSize \in Nat \ {0}
  BY SpoolAssumption DEF KeptInv, SizeCounted, IInv, TypeOK, FileSizes, Linked
<1>2. PICK p \in DOMAIN files : TRUE
  BY <1>1, BytesIsNat
<1> DEFINE rest == Without(p)
<1>3. /\ DOMAIN rest = DOMAIN files \ {p}
      /\ \A q \in DOMAIN rest : rest[q].bytes = files[q].bytes
  BY DEF Without, Linked
<1>4. size = files[p].bytes + BytesOf(rest) /\ BytesOf(rest) \in Nat
  <2> HIDE DEF rest
  <2>. QED BY <1>1, <1>2, <1>3, BytesWithout
<1>5. files[p].bytes = HeaderSize /\ BytesOf(rest) = 0
  <2> HIDE DEF rest
  <2>1. files[p].bytes \in Nat /\ files[p].bytes >= HeaderSize
    BY <1>1, <1>2
  <2>. QED
    BY <1>1, <1>4, <2>1
<1>6. DOMAIN rest = {}
  <2> SUFFICES ASSUME NEW q \in DOMAIN rest PROVE FALSE
    OBVIOUS
  <2> DEFINE more == [x \in DOMAIN rest \ {q} |-> rest[x]]
  <2>1. DOMAIN more = DOMAIN rest \ {q} /\ \A x \in DOMAIN more : more[x].bytes = rest[x].bytes
    OBVIOUS
  <2>2. IsFiniteSet(DOMAIN rest) /\ \A x \in DOMAIN rest : rest[x].bytes \in Nat
    BY <1>1, <1>3, FS_Subset
  <2> HIDE DEF rest, more
  <2>3. BytesOf(rest) = rest[q].bytes + BytesOf(more) /\ BytesOf(more) \in Nat
    BY <2>1, <2>2, BytesWithout
  <2>4. rest[q].bytes \in Nat /\ rest[q].bytes >= HeaderSize
    BY <1>1, <1>3
  <2>. QED
    BY <1>1, <1>5, <2>3, <2>4
<1>7. Linked = {p}
  BY <1>2, <1>3, <1>6 DEF Linked
<1>8. p = wpos /\ wopen
  BY <1>1, <1>5, <1>7 DEF KeptInv, FilesUsed
<1>9. EventsOf(p) = {}
  BY <1>1, <1>5, <1>7 DEF IInv, FileSizes
<1>10. Unread = {}
  BY <1>7, <1>9 DEF Unread, OnDisk
<1>11. wbytes = HeaderSize
  BY <1>5, <1>8 DEF KeptInv, WriterLinked
<1>12. wpos.minor \in Nat /\ wpos.minor <= 1
  <2>1. wpos.minor \in Nat
    <3>1. wpos \in Position
      BY DEF IInv, TypeOK
    <3>. QED BY <3>1 DEF Position
  <2>2. ~(wbytes > HeaderSize)
    BY <1>11, SpoolAssumption
  <2>3. ~(wpos.minor > 1)
    BY <1>8, <2>2 DEF KeptInv, FilesUsed
  <2>. QED BY <2>1, <2>3
<1>13. wbytes <= HeaderSize
  BY <1>11, SpoolAssumption
<1>. QED
  BY <1>10, <1>12, <1>13

(* NoSilentLoss: every event given to spool_push is in the directory, was  *)
(* returned by spool_pop, was cut off by a crash, or was in a file that    *)
(* cull removed, for any number of crashes and restarts.                   *)
THEOREM NothingIsLost ==
  ASSUME Dependable PROVE Spec => []NoSilentLoss
<1>1. KeptInv => NoSilentLoss
  BY DEF KeptInv
<1>2. IInv /\ KeptInv /\ [Next]_vars => IInv' /\ KeptInv'
  BY StepIInv, StepKeptInv
<1>3. Init => IInv /\ KeptInv
  BY InitIInv, InitKeptInv
<1>. QED
  BY <1>1, <1>2, <1>3, PTL DEF Spec

(* SizeIsRight: stats.current_size is the size of the files there are, and *)
(* spool_empty_of_messages lets a message bypass the spool only when the   *)
(* spool holds none and this process has put none into it.                 *)
THEOREM SizeIsKept ==
  ASSUME Dependable PROVE Spec => []SizeIsRight
<1>2. IInv /\ KeptInv /\ [Next]_vars => IInv' /\ KeptInv'
  BY StepIInv, StepKeptInv
<1>3. Init => IInv /\ KeptInv
  BY InitIInv, InitKeptInv
<1>. QED
  BY SizesAreRight, <1>2, <1>3, PTL DEF Spec

-----------------------------------------------------------------------------
(* Culling one whole partition brings the size below the limit again.      *)
LEMMA StepBoundInv ==
  ASSUME Dependable, HeaderSize + LargestEvent <= MaxPartitionSize,
         IInv, KeptInv, BoundInv, MajorsFromOne, [Next]_vars
  PROVE  BoundInv' /\ MajorsFromOne'
<1>a. /\ IInv' /\ KeptInv'
      /\ HeaderSize \in Nat \ {0} /\ MaxPartitionSize \in Nat
      /\ LargestEvent \in Nat /\ Limit \in Nat
      /\ wpos \in Position /\ wpos.major \in Nat /\ wpos.minor \in Nat
      /\ \A p \in Linked : p.major \in Nat /\ p.minor \in Nat /\ files[p].bytes \in Nat
  BY StepIInv, StepKeptInv, DependableSizes, SpoolAssumption DEF IInv, TypeOK, Position
<1>b. step # "down" => size \in Nat
  BY BytesIsNat, <1>a DEF KeptInv, SizeCounted, Linked
<1> USE DEF disk, history, writer, reader
<1>c. ASSUME UNCHANGED <<files, wpos, size>>, step \in {"free", "read", "open"},
             step' \in {"free", "read", "open"}
      PROVE  BoundInv' /\ MajorsFromOne'
  BY <1>c DEF BoundInv, MajorsFromOne, Linked
<1>d. ASSUME GoDown, DOMAIN files' \subseteq Linked
      PROVE  BoundInv' /\ MajorsFromOne'
  BY <1>d DEF GoDown, BoundInv, MajorsFromOne, Linked, Origin
<1>1. CASE Create
  <2>1. PICK m \in {1} \union {p.major + 1 : p \in Kept} :
          LET w == [major |-> m, minor |-> 1]
          IN  /\ FirstMajor(m)
              /\ files' = WithNewFile(Kept, w)
              /\ size' = BytesOf([p \in Kept |-> files[p]]) + HeaderSize
              /\ wpos' = w
    BY <1>1 DEF Create
  <2>2. /\ DOMAIN files' = Kept \union {wpos'} /\ Kept \subseteq Linked
        /\ wpos'.major = m /\ step' = "free"
    BY <1>1, <2>1 DEF WithNewFile, Kept, Create
  <2>3. m \in Nat /\ m >= 1 /\ (Kept # {} => m > 1)
    BY <1>a, <2>1, <2>2 DEF FirstMajor, MajorsFromOne
  <2>4. MajorsFromOne'
    BY <2>2, <2>3 DEF MajorsFromOne, Linked
  <2>5. BoundInv'
    <3> SUFFICES ASSUME m = 1
                 PROVE  size' < Limit /\ DOMAIN files' \ {wpos'} = {}
      BY <2>2 DEF BoundInv, Linked
    <3>1. Kept = {}
      BY <2>3
    <3> DEFINE none == [p \in Kept |-> files[p]]
    <3>2. BytesOf(none) = 0
      <4>1. DOMAIN none = {} /\ IsFiniteSet(DOMAIN none)
        BY <3>1, FS_EmptySet
      <4> HIDE DEF none
      <4>. QED BY <4>1, BytesIsNat
    <3>3. size' = HeaderSize
      BY <1>a, <2>1, <3>2
    <3>. QED
      BY <1>a, <2>2, <3>1, <3>3 DEF Dependable
  <2>. QED BY <2>4, <2>5
<1>2. CASE CreateFails
  BY <1>2 DEF CreateFails, Kept, BoundInv, MajorsFromOne, Linked
<1>3. CASE RollPartition
  <2>1. /\ step = "free" /\ step' = "write" /\ wopen
        /\ wbytes >= MaxPartitionSize /\ wpos' = NextPartition
        /\ wpos'.major = wpos.major
        /\ files' = WithNewFile(Linked, NextPartition) /\ size' = size + HeaderSize
    BY <1>3, <1>a DEF RollPartition, MayPush, NextPartition, Position
  <2>2. DOMAIN files' = Linked \union {wpos'}
        /\ \A p \in Linked \ {wpos'} : files'[p] = files[p]
    BY <2>1 DEF WithNewFile
  <2>3. wpos \in Linked /\ files[wpos].bytes >= MaxPartitionSize
    BY <2>1 DEF KeptInv, WriterLinked
  <2>. QED
    BY <1>a, <1>b, <2>1, <2>2, <2>3 DEF BoundInv, MajorsFromOne, Linked
<1>4. CASE RollFails
  <2>1. /\ step = "free" /\ step' = "free" /\ wopen
        /\ wbytes >= MaxPartitionSize
        /\ wpos'.major = wpos.major
        /\ UNCHANGED <<files, size>>
    BY <1>4, <1>a DEF RollFails, MayPush, NextPartition, Position
  <2>2. wpos \in Linked /\ files[wpos].bytes >= MaxPartitionSize
    BY <2>1 DEF KeptInv, WriterLinked
  <2>. QED
    BY <1>a, <2>1, <2>2 DEF BoundInv, MajorsFromOne, Linked
<1>5. ASSUME NEW sz \in EventSizes, WriteEvent(sz) PROVE BoundInv' /\ MajorsFromOne'
  <2>1. /\ Writing /\ AppendToWriteFile(pushed + 1, sz)
        /\ size' = size + sz
        /\ step' = IF SpoolFull(size + sz) THEN "full" ELSE "free"
        /\ step \in {"write", "free"}
        /\ UNCHANGED wpos
    BY <1>5 DEF WriteEvent, Writing
  <2>2. sz \in Nat \ {0} /\ sz <= LargestEvent
    BY DependableSizes
  <2>3. /\ DOMAIN files' = Linked
        /\ \A p \in Linked \ {wpos} : files'[p] = files[p]
    BY <2>1, <2>2, LongerFile
  <2>4. MajorsFromOne'
    BY <2>1, <2>3 DEF MajorsFromOne, Linked
  <2>5. step' = "full" \/ (step' = "free" /\ size' < Limit)
    BY <1>a, <1>b, <2>1, <2>2 DEF SpoolFull, Limit
  <2>6. BoundInv'
    <3> SUFFICES ASSUME wpos.major = 1
                 PROVE  /\ size' < Limit + HeaderSize + LargestEvent
                        /\ \A p \in Linked \ {wpos} : files'[p].bytes >= MaxPartitionSize
      BY <2>1, <2>3, <2>5 DEF BoundInv, Linked
    <3>1. size < Limit + HeaderSize
      BY <1>a, <1>b, <2>1 DEF BoundInv
    <3>. QED
      BY <1>a, <1>b, <2>1, <2>2, <2>3, <3>1 DEF BoundInv
  <2>. QED BY <2>4, <2>6
<1>6. CASE Cull
  <2>1. PICK p \in Linked : /\ OldestAfter(p, Linked, rpos)
                            /\ files' = Without(p) /\ size' = size - files[p].bytes
    BY <1>6 DEF Cull, RemoveFile
  <2>2. step = "full" /\ step' = "free" /\ UNCHANGED wpos
    BY <1>6 DEF Cull
  <2>3. p # wpos
    BY <2>1, <2>2, FullHasMiddle DEF OldestAfter
  <2>4. /\ DOMAIN files' = Linked \ {p}
        /\ \A q \in DOMAIN files' : files'[q] = files[q]
    BY <2>1, RemovedFile
  <2>5. wpos.major = 1 => size' < Limit
    <3>1. wpos.major = 1 => /\ files[p].bytes >= MaxPartitionSize
                            /\ size < Limit + HeaderSize + LargestEvent
      BY <2>2, <2>3 DEF BoundInv
    <3>. QED BY <1>a, <1>b, <2>1, <2>2, <3>1
  <2>. QED
    BY <2>2, <2>4, <2>5 DEF BoundInv, MajorsFromOne, Linked
<1>7. CASE CullFails
  BY <1>7 DEF CullFails, Dependable
<1>8. CASE PopStarts \/ PopWaits \/ PopWakes \/ PopTimesOut \/ ReadEvent
           \/ ReadTornEvent \/ ReadNothing \/ OpenNextReadFile \/ OpenNextFails
  BY <1>8, <1>c DEF PopStarts, PopWaits, PopWakes, PopTimesOut, MayPop, ReadEvent,
     ReadTornEvent, ReadNothing, OpenNextReadFile, OpenNextFails
<1>9. CASE RemoveReadFile
  <2>1. /\ step = "read" /\ step' = "open" /\ rpos \in Linked
        /\ files' = Without(rpos) /\ size' = size - files[rpos].bytes
        /\ UNCHANGED wpos
    BY <1>9 DEF RemoveReadFile, RemoveFile, IInv, ReaderLinked
  <2>2. /\ DOMAIN files' = Linked \ {rpos}
        /\ \A q \in DOMAIN files' : files'[q] = files[q]
    BY <2>1, RemovedFile
  <2>3. size' <= size /\ size' \in Int /\ size \in Nat
    BY <1>a, <1>b, <2>1
  <2>. QED
    BY <1>a, <2>1, <2>2, <2>3 DEF BoundInv, MajorsFromOne, Linked
<1>10. CASE RemoveReadFileFails
  BY <1>10 DEF RemoveReadFileFails, Dependable
<1>11. CASE Destroy
  <2>1. DOMAIN files' \subseteq Linked
    BY <1>11 DEF Destroy, Without, Linked
  <2>. QED
    BY <1>11, <1>d, <2>1 DEF Destroy
<1>12. CASE Crash
  BY <1>12, <1>d DEF Crash, Linked
<1>13. CASE CrashInPush
  <2>1. DOMAIN files' = Linked
    BY <1>13 DEF CrashInPush, AppendToWriteFile
  <2>. QED
    BY <1>13, <1>d, <2>1 DEF CrashInPush
<1>14. CASE CrashInPop
  BY <1>14, <1>d DEF CrashInPop, Linked
<1>15. CASE UNCHANGED vars
  BY <1>15 DEF vars, BoundInv, MajorsFromOne, Linked
<1>. QED
  BY <1>1, <1>2, <1>3, <1>4, <1>5, <1>6, <1>7, <1>8, <1>9, <1>10, <1>11,
     <1>12, <1>13, <1>14, <1>15 DEF Next, Push, Pop

(* SpoolBounded: before its first restart the spool exceeds its limit by   *)
(* less than a header and an event, if these fit into a partition.         *)
THEOREM SpoolIsBounded ==
  ASSUME Dependable, HeaderSize + LargestEvent <= MaxPartitionSize
  PROVE  Spec => []SpoolBounded
<1>1. Init => IInv /\ KeptInv /\ BoundInv /\ MajorsFromOne
  BY InitIInv, InitKeptInv DEF Init, BoundInv, MajorsFromOne, Origin, Linked
<1>2. IInv /\ KeptInv /\ BoundInv /\ MajorsFromOne /\ [Next]_vars
        => IInv' /\ KeptInv' /\ BoundInv' /\ MajorsFromOne'
  BY StepIInv, StepKeptInv, StepBoundInv
<1>3. IInv /\ KeptInv /\ BoundInv /\ MajorsFromOne => SpoolBounded
  <2> SUFFICES ASSUME IInv, KeptInv, BoundInv, MajorsFromOne, wpos.major = 1
               PROVE  size < Limit + HeaderSize + LargestEvent
    BY DEF SpoolBounded, Limit, LargestEvent
  <2>1. /\ Limit \in Nat /\ HeaderSize \in Nat \ {0} /\ LargestEvent \in Nat
    BY DependableSizes, SpoolAssumption
  <2>2. step \in {"free", "read", "open", "write", "full"}
    BY DEF MajorsFromOne, IInv, TypeOK, Steps
  <2>3. size \in Nat
    <3>1. size = BytesOf(files)
      BY <2>2 DEF KeptInv, SizeCounted
    <3>2. IsFiniteSet(DOMAIN files) /\ \A p \in DOMAIN files : files[p].bytes \in Nat
      BY DEF KeptInv, IInv, TypeOK, Linked
    <3>. QED BY <3>1, <3>2, BytesIsNat
  <2>. QED
    BY <2>1, <2>2, <2>3 DEF BoundInv
<1>. QED
  BY <1>1, <1>2, <1>3, PTL DEF Spec

-----------------------------------------------------------------------------
(* Where every file can be opened the writer always has one.               *)
WriterOpen == step # "down" => wopen

(* CulledIsOldest: cull and increment_read_spool_partition always find a   *)
(* file, so neither dereferences NULL, and cull never takes the newest one.*)
THEOREM CullFindsOldest ==
  ASSUME Dependable, "open" \notin FileErrors
  PROVE  Spec => CulledIsOldest
<1>1. Init => IInv /\ KeptInv /\ WriterOpen
  BY InitIInv, InitKeptInv DEF Init, WriterOpen
<1>2. WriterOpen /\ [Next]_vars => WriterOpen'
  <2> SUFFICES ASSUME WriterOpen, [Next]_vars PROVE WriterOpen'
    OBVIOUS
  <2>1. CASE Create \/ Destroy \/ Crash \/ CrashInPush \/ CrashInPop
    BY <2>1 DEF WriterOpen, Create, Destroy, Crash, CrashInPush, CrashInPop, GoDown
  <2>2. CASE Push
    BY <2>2 DEF WriterOpen, Push, writer, RollPartition, RollFails, WriteEvent, Writing,
       MayPush, Cull, CullFails
  <2>3. CASE Pop
    BY <2>3 DEF WriterOpen, Pop, writer, PopStarts, PopWaits, PopWakes, PopTimesOut,
       MayPop, ReadEvent, ReadTornEvent, ReadNothing, RemoveReadFile,
       RemoveReadFileFails, OpenNextReadFile, OpenNextFails
  <2>4. CASE CreateFails \/ UNCHANGED vars
    BY <2>4 DEF WriterOpen, CreateFails, vars, writer
  <2>. QED
    BY <2>1, <2>2, <2>3, <2>4 DEF Next
<1>3. ASSUME IInv, KeptInv, WriterOpen, step \in {"full", "open"}
      PROVE  \E p \in Linked : OldestAfter(p, Linked, rpos)
  <2>1. \E p \in Linked : Older(rpos, p)
    BY <1>3, FullHasMiddle DEF WriterOpen, KeptInv, WriterLinked, ReaderOldest
  <2>. QED
    BY <1>3, <2>1, OldestExists DEF IInv, TypeOK
<1>4. ASSUME IInv, KeptInv, [Next]_vars, step = "full", NEW p \in Linked, p \notin DOMAIN files'
      PROVE  \E q \in Linked : Older(p, q)
  <2>1. Cull
    BY <1>4 DEF Next, Push, Pop, vars, disk, history, writer, reader,
       Create, CreateFails, RollPartition, RollFails, WriteEvent, Writing,
       CullFails, PopStarts, PopWaits, PopWakes, PopTimesOut, MayPop, ReadEvent,
       ReadTornEvent, ReadNothing, RemoveReadFile, RemoveReadFileFails,
       OpenNextReadFile, OpenNextFails, Destroy, Crash, CrashInPush, CrashInPop, Linked
  <2>2. PICK o \in Linked : OldestAfter(o, Linked, rpos) /\ files' = Without(o)
    BY <2>1 DEF Cull, RemoveFile
  <2>3. p = o
    BY <1>4, <2>2 DEF Without
  <2>4. wpos \in Linked /\ o # wpos
    BY <1>4, <2>2, FullHasMiddle DEF OldestAfter
  <2>. QED
    BY <1>4, <2>3, <2>4, OlderOrder DEF IInv, TypeOK, WriterNewest
<1>5. IInv /\ KeptInv /\ WriterOpen /\ [Next]_vars
        => [/\ step \in {"full", "open"} => \E p \in Linked : OldestAfter(p, Linked, rpos)
            /\ step = "full" =>
                 \A p \in Linked \ DOMAIN files' : \E q \in Linked : Older(p, q)]_vars
  BY <1>3, <1>4
<1>6. IInv /\ KeptInv /\ [Next]_vars => IInv' /\ KeptInv'
  BY StepIInv, StepKeptInv
<1>. QED
  BY <1>1, <1>2, <1>5, <1>6, PTL DEF Spec, CulledIsOldest

-----------------------------------------------------------------------------
(* RemovedOnlyWhenRead: where fread() goes on after an end of file the     *)
(* reader removes, or leaves behind, only files it has read to the end.    *)
(* (Where it does not, the run spool_sticky_eof shows the contrary.)       *)
THEOREM RemovedFilesWereRead ==
  ASSUME ~StickyEof
  PROVE  Spec => RemovedOnlyWhenRead
<1>1. ASSUME IInv, [Next]_vars, step = "read", step' = "open"
      PROVE  EventsOf(rpos) \subseteq visited \union torn
  <2>1. AtEof /\ rpos \in Linked
    BY <1>1 DEF Next, Push, Pop, vars, disk, history, writer, reader,
       Create, CreateFails, RollPartition, RollFails, WriteEvent, Writing,
       Cull, CullFails, PopStarts, PopWaits, PopWakes, PopTimesOut, ReadEvent,
       ReadTornEvent, ReadNothing, RemoveReadFile, RemoveReadFileFails,
       OpenNextReadFile, OpenNextFails, Destroy, Crash, CrashInPush, CrashInPop, GoDown,
       IInv, ReaderLinked
  <2>2. \A e \in EventsOf(rpos) : e \in visited \/ e <= rlast
    BY <2>1 DEF AtEof, EofFails
  <2>. QED
    BY <1>1, <2>1, <2>2 DEF IInv, ReaderPassed
<1>2. IInv /\ [Next]_vars
        => [step = "read" /\ step' = "open"
              => EventsOf(rpos) \subseteq visited \union torn]_vars
  BY <1>1
<1>. QED
  BY InitIInv, StepIInv, <1>2, PTL DEF Spec, RemovedOnlyWhenRead

==============================================================================
