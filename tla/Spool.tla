-------------------------------- MODULE Spool --------------------------------
(***************************************************************************)
(* The agent's disk spool (agent/agent/spool.c): a persistent FIFO queue   *)
(* of events kept in partition files <major>-<minor>.yella.spool.  The     *)
(* agent's threads push, one spool thread pops, and every operation runs   *)
(* under the spool's mutex `guard'.                                        *)
(*                                                                         *)
(* An event is the number of the push that wrote it, so the order of a     *)
(* file's events is the order of their numbers and a file's contents are a *)
(* set.  The steps of one critical section are separate actions, because   *)
(* the process can be killed between any two of them; `step' says where    *)
(* inside its critical section the holder of the guard is, and every other *)
(* operation waits for it.                                                 *)
(***************************************************************************)
EXTENDS Integers, FiniteSets, Sequences, FiniteSetsExt

CONSTANTS
  HeaderSize,        (* bytes of the YELLA_SPOOL_ID a file starts with     *)
  EventSizes,        (* bytes an event may take in a file                  *)
  MaxPartitionSize,  (* agent/max-spool-partition-size                     *)
  MaxPartitions,     (* agent/max-spool-partitions                         *)
  StickyEof,         (* whether fread() keeps failing once the stream's    *)
                     (* end-of-file indicator is set, as C11 7.21.8.1 and  *)
                     (* glibc from 2.28 have it                            *)
  FileErrors,        (* which of "open" and "remove" may fail              *)
  MaxPushes          (* bound on the pushes of a behaviour                 *)

ASSUME SpoolAssumption ==
  /\ HeaderSize \in Nat \ {0}
  /\ EventSizes \subseteq Nat \ {0}
  /\ MaxPartitionSize \in Nat
  /\ MaxPartitions \in Nat
  /\ StickyEof \in BOOLEAN
  /\ FileErrors \subseteq {"open", "remove"}
  /\ MaxPushes \in Nat

VARIABLES
  files,    (* the spool directory: position -> [events, bytes]            *)
  visited,  (* events whose visited bit was set in their file              *)
  torn,     (* events a crash cut off in the middle of their bytes         *)
  pushed,   (* number of the last event written                            *)
  popped,   (* the events spool_pop returned, in the order it did          *)
  culled,   (* the events of the files cull removed                        *)
  step,     (* where the holder of the guard is                            *)
  waiting,  (* the spool thread sleeps on was_written_cond                 *)
  wpos,     (* sp->write_pos                                               *)
  wopen,    (* sp->writef # NULL                                           *)
  wbytes,   (* ftell(sp->writef)                                           *)
  ropen,    (* sp->readf # NULL                                            *)
  rpos,     (* sp->read_pos                                                *)
  rlast,    (* last event before the offset of sp->readf, 0 at the header  *)
  reof,     (* feof(sp->readf)                                             *)
  size      (* sp->stats.current_size                                      *)

disk     == <<files, visited, torn>>
history  == <<pushed, popped, culled>>
writer   == <<wpos, wopen, wbytes>>
reader   == <<ropen, rpos, rlast, reof>>
vars     == <<disk, history, step, waiting, writer, reader, size>>

Position == [major : Nat, minor : Nat]
Origin   == [major |-> 0, minor |-> 0]

(* down   no spool object exists                                           *)
(* free   nobody holds the guard                                           *)
(* write  spool_push opened a new partition and has not written to it      *)
(* full   spool_push wrote its event and the spool reached its limit       *)
(* read   spool_pop is at the head of the loop of advance_to_next_unvisited*)
(* open   spool_pop removed the file it had read to the end                *)
Steps == {"down", "free", "write", "full", "read", "open"}

Older(p, q) == \/ p.major < q.major
               \/ p.major = q.major /\ p.minor < q.minor

Linked == DOMAIN files

EventsOf(p) == files[p].events

OnDisk == UNION {EventsOf(p) : p \in Linked}

(* The complete events on disk that no pop has returned.                   *)
Unread == OnDisk \ (visited \union torn)

Without(p) == [q \in Linked \ {p} |-> files[q]]

(* The files of `kept' and a new one at w with nothing but its header.      *)
WithNewFile(kept, w) ==
  [p \in kept \union {w} |->
     IF p = w THEN [events |-> {}, bytes |-> HeaderSize] ELSE files[p]]

(* Slip: the size is asked for after the file is removed.                  *)
RemoveFileUncounted(p) == files' = Without(p) /\ UNCHANGED size

(* The size is taken before the file is removed.                           *)
RemoveFile(p) ==
  /\ files' = Without(p)
  /\ size' = size - files[p].bytes

(* Slip: the comparison of find_oldest_file the wrong way round.           *)
NewestAfter(p, domain, pos) ==
  /\ p \in domain
  /\ Older(pos, p)
  /\ \A q \in domain : Older(pos, q) => ~Older(p, q)

(* find_oldest_file: the first file behind the one being read.             *)
OldestAfter(p, domain, pos) ==
  /\ p \in domain
  /\ Older(pos, p)
  /\ \A q \in domain : Older(pos, q) => ~Older(q, p)

(* find_newest_file                                                        *)
NewestIn(p, domain) ==
  /\ p \in domain
  /\ \A q \in domain : ~Older(p, q)

(* Slip: the offsets within one file are not compared.                     *)
WriteAheadByPosition == Older(rpos, wpos)

(* compare_write_to_read(sp) > 0                                           *)
WriteAheadOfRead ==
  \/ Older(rpos, wpos)
  \/ /\ rpos = wpos
     /\ \E e \in EventsOf(rpos) : e > rlast

-----------------------------------------------------------------------------

Init ==
  /\ files = << >>
  /\ visited = {} /\ torn = {} /\ culled = {}
  /\ pushed = 0 /\ popped = << >>
  /\ step = "down" /\ waiting = FALSE
  /\ wpos = Origin /\ wopen = FALSE /\ wbytes = 0
  /\ ropen = FALSE /\ rpos = Origin /\ rlast = 0 /\ reof = FALSE
  /\ size = 0

(* The process is gone: its files stay, everything else is forgotten.      *)
GoDown ==
  /\ step' = "down" /\ waiting' = FALSE
  /\ wpos' = Origin /\ wopen' = FALSE /\ wbytes' = 0
  /\ ropen' = FALSE /\ rpos' = Origin /\ rlast' = 0 /\ reof' = FALSE
  /\ size' = 0

-----------------------------------------------------------------------------
(* create_spool                                                            *)

Kept == {p \in Linked : files[p].bytes # HeaderSize}

BytesOf(fs) == SumFunction([p \in DOMAIN fs |-> fs[p].bytes])

FirstMajor(m) ==
  \/ Kept = {} /\ m = 1
  \/ \E p \in Kept : NewestIn(p, Kept) /\ m = p.major + 1

(* current_spool_size removes the files without events, init_writer starts *)
(* a partition behind the newest file, init_reader opens the oldest.       *)
Create ==
  /\ step = "down"
  /\ \E m \in {1} \union {p.major + 1 : p \in Kept} :
       LET w == [major |-> m, minor |-> 1]
           found == [p \in Kept |-> files[p]]
       IN  /\ FirstMajor(m)
           /\ files' = WithNewFile(Kept, w)
           /\ size' = BytesOf(found) + HeaderSize
           /\ wpos' = w /\ wopen' = TRUE /\ wbytes' = HeaderSize
           /\ \E r \in Kept \union {w} :
                OldestAfter(r, Kept \union {w}, Origin) /\ rpos' = r
  /\ ropen' = TRUE /\ rlast' = 0 /\ reof' = FALSE
  /\ step' = "free" /\ waiting' = FALSE
  /\ UNCHANGED <<visited, torn, history>>

(* init_writer could not open its file: create_spool returns NULL.  (Where *)
(* init_reader cannot, it leaves what Create and a Crash leave.)           *)
CreateFails ==
  /\ step = "down"
  /\ "open" \in FileErrors
  /\ files' = [p \in Kept |-> files[p]]
  /\ UNCHANGED <<visited, torn, history, step, waiting, writer, reader, size>>

-----------------------------------------------------------------------------
(* spool_push                                                              *)

MayPush == wopen /\ pushed < MaxPushes

NextPartition == [wpos EXCEPT !.minor = @ + 1]

(* increment_write_spool_partition, once the partition has its size.       *)
RollPartition ==
  /\ step = "free" /\ MayPush
  /\ wbytes >= MaxPartitionSize
  /\ wpos' = NextPartition
  /\ files' = WithNewFile(Linked, NextPartition)
  /\ wbytes' = HeaderSize
  /\ size' = size + HeaderSize
  /\ step' = "write"
  /\ UNCHANGED <<visited, torn, history, waiting, wopen, reader>>

(* The new partition cannot be opened: spool_push returns                  *)
(* YELLA_FILE_SYSTEM_ERROR and leaves sp->writef NULL, which the next      *)
(* spool_push hands to ftell.                                              *)
RollFails ==
  /\ step = "free" /\ MayPush
  /\ wbytes >= MaxPartitionSize
  /\ "open" \in FileErrors
  /\ wpos' = NextPartition
  /\ wopen' = FALSE /\ wbytes' = 0
  /\ UNCHANGED <<disk, history, step, waiting, reader, size>>

Writing ==
  /\ MayPush
  /\ \/ step = "write"
     \/ step = "free" /\ wbytes < MaxPartitionSize

(* The bytes go to the inode behind writef: a write file that has been     *)
(* unlinked swallows them.                                                 *)
AppendToWriteFile(e, sz) ==
  files' = [p \in Linked |->
              IF p = wpos THEN [events |-> EventsOf(p) \union {e},
                                bytes  |-> files[p].bytes + sz]
                          ELSE files[p]]

(* Slip: a limit one partition too high.                                   *)
SpoolOverfull(n) == n >= (MaxPartitions + 1) * MaxPartitionSize

SpoolFull(n) == n >= MaxPartitions * MaxPartitionSize

(* The event is written, flushed and counted; the signal wakes a waiting   *)
(* pop, which is PopWakes.                                                 *)
WriteEvent(sz) ==
  /\ Writing
  /\ pushed' = pushed + 1
  /\ AppendToWriteFile(pushed + 1, sz)
  /\ wbytes' = wbytes + sz
  /\ size' = size + sz
  /\ step' = IF SpoolFull(size + sz) THEN "full" ELSE "free"
  /\ UNCHANGED <<visited, torn, popped, culled, waiting, wpos, wopen, reader>>

(* cull removes the oldest file behind the one being read.  When there is  *)
(* none the code dereferences NULL, and only Crash is left.                *)
Cull ==
  /\ step = "full"
  /\ \E p \in Linked :
       /\ OldestAfter(p, Linked, rpos)
       /\ RemoveFile(p)
       /\ culled' = culled \union EventsOf(p)
  /\ step' = "free"
  /\ UNCHANGED <<visited, torn, pushed, popped, waiting, writer, reader>>

CullFails ==
  /\ step = "full"
  /\ "remove" \in FileErrors
  /\ \E p \in Linked : OldestAfter(p, Linked, rpos)
  /\ step' = "free"
  /\ UNCHANGED <<disk, history, waiting, writer, reader, size>>

Push ==
  \/ RollPartition
  \/ RollFails
  \/ \E sz \in EventSizes : WriteEvent(sz)
  \/ Cull
  \/ CullFails

-----------------------------------------------------------------------------
(* spool_pop                                                               *)

(* Without a file to read from a pop hands NULL to fread, and only a crash *)
(* is left: the positions still say that there is something to read.       *)
MayPop == step = "free" /\ ropen

PopStarts ==
  /\ MayPop /\ ~waiting
  /\ WriteAheadOfRead
  /\ step' = "read"
  /\ UNCHANGED <<disk, history, waiting, writer, reader, size>>

PopWaits ==
  /\ MayPop /\ ~waiting
  /\ ~WriteAheadOfRead
  /\ waiting' = TRUE
  /\ UNCHANGED <<disk, history, step, writer, reader, size>>

(* The wait returned true, for a signal or for no reason, and the positions*)
(* are compared once more.                                                 *)
PopWakes ==
  /\ MayPop /\ waiting
  /\ WriteAheadOfRead
  /\ waiting' = FALSE
  /\ step' = "read"
  /\ UNCHANGED <<disk, history, writer, reader, size>>

(* The wait timed out, or it woke and there was nothing to read.           *)
PopTimesOut ==
  /\ MayPop /\ waiting
  /\ waiting' = FALSE
  /\ UNCHANGED <<disk, history, step, writer, reader, size>>

(* Slip: what StickyEof FALSE rules out.                                   *)
EofFailsIfSet == reof

(* fread() fails without reading, because the stream is at its end.        *)
EofFails == StickyEof /\ reof

(* Slip: the visited bit is not looked at.                                 *)
NextEvent(e) ==
  /\ e \in EventsOf(rpos)
  /\ e > rlast
  /\ \A f \in EventsOf(rpos) : f > rlast => e <= f

(* The first event behind the reader's offset whose visited bit is not set.*)
NextUnvisited(e) ==
  /\ e \in EventsOf(rpos) \ visited
  /\ e > rlast
  /\ \A f \in EventsOf(rpos) \ visited : f > rlast => e <= f

AtEof ==
  \/ EofFails
  \/ \A e \in EventsOf(rpos) \ visited : e <= rlast

(* The event is read, its visited bit is written to the file (the fseek    *)
(* that follows flushes it) and the caller gets it.                        *)
ReadEvent ==
  /\ step = "read" /\ ~EofFails
  /\ \E e \in EventsOf(rpos) :
       /\ NextUnvisited(e)
       /\ e \notin torn
       /\ visited' = visited \union {e}
       /\ popped' = Append(popped, e)
       /\ rlast' = e
  /\ reof' = FALSE
  /\ step' = "free"
  /\ UNCHANGED <<files, torn, pushed, culled, waiting, writer, ropen, rpos, size>>

(* The bytes of the event end early: spool_pop returns YELLA_READ_ERROR.   *)
ReadTornEvent ==
  /\ step = "read" /\ ~EofFails
  /\ \E e \in EventsOf(rpos) :
       /\ NextUnvisited(e)
       /\ e \in torn
       /\ rlast' = e
  /\ reof' = TRUE
  /\ step' = "free"
  /\ UNCHANGED <<disk, history, waiting, writer, ropen, rpos, size>>

(* At the end of the file the writer writes to too: YELLA_TIMED_OUT.       *)
ReadNothing ==
  /\ step = "read" /\ AtEof
  /\ ~WriteAheadOfRead
  /\ reof' = TRUE
  /\ step' = "free"
  /\ UNCHANGED <<disk, history, waiting, writer, ropen, rpos, rlast, size>>

(* "Done reading from %s. It is being removed."                            *)
RemoveReadFile ==
  /\ step = "read" /\ AtEof
  /\ WriteAheadOfRead
  /\ RemoveFile(rpos)
  /\ step' = "open"
  /\ UNCHANGED <<visited, torn, history, waiting, writer, reader>>

RemoveReadFileFails ==
  /\ step = "read" /\ AtEof
  /\ WriteAheadOfRead
  /\ "remove" \in FileErrors
  /\ step' = "open"
  /\ UNCHANGED <<disk, history, waiting, writer, reader, size>>

(* increment_read_spool_partition opens the next file and the loop goes    *)
(* round.  When there is none the code dereferences NULL.                  *)
OpenNextReadFile ==
  /\ step = "open"
  /\ \E p \in Linked : OldestAfter(p, Linked, rpos) /\ rpos' = p
  /\ rlast' = 0 /\ reof' = FALSE
  /\ step' = "read"
  /\ UNCHANGED <<disk, history, waiting, writer, ropen, size>>

(* The next file cannot be opened: spool_pop returns YELLA_LOGIC_ERROR and *)
(* leaves sp->readf NULL and sp->read_pos at the file it is done with.     *)
OpenNextFails ==
  /\ step = "open"
  /\ "open" \in FileErrors
  /\ \E p \in Linked : OldestAfter(p, Linked, rpos)
  /\ ropen' = FALSE
  /\ step' = "free"
  /\ UNCHANGED <<disk, history, waiting, writer, rpos, rlast, reof, size>>

Pop ==
  \/ PopStarts \/ PopWaits \/ PopWakes \/ PopTimesOut
  \/ ReadEvent \/ ReadTornEvent \/ ReadNothing
  \/ RemoveReadFile \/ RemoveReadFileFails
  \/ OpenNextReadFile \/ OpenNextFails

(* spool_empty_of_messages                                                 *)
SpoolEmptyOfMessages == size = HeaderSize

-----------------------------------------------------------------------------
(* destroy_spool: the agent has joined the spool thread by now.  It closes *)
(* both streams, which must be open.                                       *)
Destroy ==
  /\ MayPop /\ ~waiting /\ wopen
  /\ files' = IF wbytes = HeaderSize THEN Without(wpos) ELSE files
  /\ GoDown
  /\ UNCHANGED <<visited, torn, history>>

Crash ==
  /\ step # "down"
  /\ GoDown
  /\ UNCHANGED <<disk, history>>

(* The process dies inside spool_push.  An event longer than the stream's  *)
(* buffer reaches the file in pieces.                                      *)
CrashInPush ==
  /\ Writing
  /\ \E sz \in EventSizes : \E part \in 1 .. sz - 1 :
       AppendToWriteFile(pushed + 1, part)
  /\ pushed' = pushed + 1
  /\ torn' = torn \union {pushed + 1}
  /\ GoDown
  /\ UNCHANGED <<visited, popped, culled>>

(* The process dies after the visited bit is in the file and before the    *)
(* caller has the event.                                                   *)
CrashInPop ==
  /\ step = "read" /\ ~EofFails
  /\ \E e \in EventsOf(rpos) :
       /\ NextUnvisited(e)
       /\ e \notin torn
       /\ visited' = visited \union {e}
  /\ GoDown
  /\ UNCHANGED <<files, torn, history>>

-----------------------------------------------------------------------------

Next ==
  \/ Create \/ CreateFails
  \/ Push
  \/ Pop
  \/ Destroy
  \/ Crash \/ CrashInPush \/ CrashInPop

Spec == Init /\ [][Next]_vars

(* The spool thread calls spool_pop again and again (router.c, spool_main) *)
(* and whoever holds the guard goes on.                                    *)
Fairness ==
  /\ WF_vars(Pop)
  /\ WF_vars(step # "free" /\ Push)

FairSpec == Spec /\ Fairness

-----------------------------------------------------------------------------
(* Properties                                                              *)

TypeOK ==
  /\ Linked \subseteq Position
  /\ \A p \in Linked : /\ EventsOf(p) \subseteq 1 .. pushed
                       /\ files[p].bytes \in Nat
  /\ visited \subseteq Nat /\ torn \subseteq Nat /\ culled \subseteq Nat
  /\ pushed \in Nat /\ popped \in Seq(Nat)
  /\ step \in Steps /\ waiting \in BOOLEAN
  /\ wpos \in Position /\ wopen \in BOOLEAN /\ wbytes \in Nat
  /\ ropen \in BOOLEAN /\ rpos \in Position /\ rlast \in Nat /\ reof \in BOOLEAN

(* spool_pop returns the events in the order spool_push wrote them and     *)
(* none of them twice, whatever was culled, torn or restarted in between.  *)
FifoAtMostOnce ==
  \A i, j \in DOMAIN popped : i < j => popped[i] < popped[j]

(* No event that is still to be read is older than one already returned:   *)
(* the reader never leaves an unread event behind it.                      *)
NothingLeftBehind ==
  \A i \in DOMAIN popped : \A e \in Unread : popped[i] < e

(* The events come out in order, those that are to come included.          *)
InOrder == FifoAtMostOnce /\ NothingLeftBehind

(* Every event pushed is on disk, was returned or cut off by a crash, or   *)
(* was in a file that cull reported: push never loses one silently, and    *)
(* the reader never removes one it has not read.                           *)
NoSilentLoss ==
  \A e \in 1 .. pushed : e \in OnDisk \union visited \union torn \union culled

(* stats.current_size is the size of the files in the directory.           *)
SizeIsDiskUse == step # "down" => size = BytesOf(files)

(* When spool_empty_of_messages lets a sender bypass the spool, nothing in *)
(* the spool is waiting to be sent before it, and nothing was written in   *)
(* this process: once in use its spool never looks empty again, so every   *)
(* later message stays behind the spooled ones.                            *)
EmptyMeansUnused ==
  step = "free" /\ SpoolEmptyOfMessages
    => Unread = {} /\ wbytes <= HeaderSize /\ wpos.minor <= 1

(* What the size is asked for is right: when to cull (spool.c:819), and    *)
(* whether a message may bypass the spool (spool.c:632).                   *)
SizeIsRight == SizeIsDiskUse /\ EmptyMeansUnused

(* A spool that was created on an empty directory never holds more than    *)
(* its limit and the one event, in a new file, that made it cull.  (After  *)
(* a restart it may: a crash before the cull leaves the excess behind.)    *)
SpoolBounded ==
  wpos.major = 1 =>
    size < MaxPartitions * MaxPartitionSize + HeaderSize + Max(EventSizes)

(* "Done reading from %s. It is being removed." (spool.c:401): the reader  *)
(* removes a file only when every event in it was read.                    *)
RemovedOnlyWhenRead ==
  [][step = "read" /\ step' = "open"
       => EventsOf(rpos) \subseteq visited \union torn]_vars

(* "The spool filled, so the oldest bytes were culled." (spool.c:276): a   *)
(* file that is culled is not the newest one, and cull, like               *)
(* increment_read_spool_partition, always finds one: neither hands a NULL  *)
(* name to yella_to_utf8.                                                  *)
CulledIsOldest ==
  [][/\ step \in {"full", "open"} => \E p \in Linked : OldestAfter(p, Linked, rpos)
     /\ step = "full" =>
          \A p \in Linked \ DOMAIN files' : \E q \in Linked : Older(p, q)]_vars

(* While the agent stays up, its spool thread empties the spool.           *)
DrainedWhileUp == <>[](step # "down") => <>[](Unread = {})

(* The spool implements the lossy FIFO queue of SpoolQueue.                *)
Queue == INSTANCE SpoolQueue WITH queue <- Unread

ImplementsQueue == Queue!Spec

==============================================================================
