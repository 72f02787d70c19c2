------------------------------ MODULE AgentRouter ------------------------------
(***************************************************************************)
(* The agent's side of the connection to the router (agent/agent/router.c, *)
(* and the heartbeat of agent.c): threads that send, the spool thread that *)
(* empties the spool while there is a connection, and the socket worker    *)
(* that owns the ZeroMQ DEALER socket.                                     *)
(*                                                                         *)
(* Every sender has a PUSH socket connected to the worker's PULL socket,   *)
(* modelled as a pipe of its own.  send_router_message looks at the state  *)
(* of the connection, then at the spool, and only then acts, each under a  *)
(* different lock, so that what it saw may be gone by then.                *)
(*                                                                         *)
(* The spool is the lossy FIFO queue of SpoolQueue together with what      *)
(* spool_empty_of_messages makes of its files: the files of earlier runs   *)
(* go when they have been read, the one of this run stays once an event    *)
(* has been written to it (EmptyMeansUnused of Spool).                      *)
(***************************************************************************)
EXTENDS Naturals, Sequences, Functions

CONSTANTS
  Senders,      (* the threads that call send_router_message               *)
  Spooler,      (* spool_main                                              *)
  Heartbeat,    (* heartbeat_thr                                           *)
  ReadyValues,  (* what the uninitialized `ready' of spool_main may hold   *)
  Errors,       (* which of "push", "send" and the "worker" may fail       *)
  PipeLimit,    (* high-water mark of a pipe                               *)
  WireLimit,    (* high-water mark of the DEALER socket                    *)
  MaxLeftover,  (* bound on the messages earlier runs left in the spool    *)
  MaxSends,     (* bound on the messages of one sender                     *)
  MaxBeats,     (* bound on the heartbeats                                 *)
  ReportedStates, (* the states the monitor's events lead to               *)
  MaxEvents     (* bound on the events of the socket monitor               *)

Threads == Senders \union {Spooler, Heartbeat}

States == {"pending", "connected", "disconnected", "closed"}

ASSUME RouterAssumption ==
  /\ Spooler \notin Senders /\ Heartbeat \notin Senders
  /\ Spooler # Heartbeat
  /\ ReadyValues \subseteq BOOLEAN
  /\ Errors \subseteq {"push", "send", "worker"}
  /\ ReportedStates \subseteq States
  /\ PipeLimit \in Nat \ {0} /\ WireLimit \in Nat \ {0}
  /\ MaxLeftover \in Nat /\ MaxSends \in Nat /\ MaxBeats \in Nat /\ MaxEvents \in Nat

VARIABLES
  state,      (* rtr->state                                                *)
  stop,       (* rtr->should_stop                                          *)
  destroyer,  (* where destroy_router is                                   *)
  sockets,    (* the senders whose PUSH socket is open                     *)
  events,     (* how many events the monitor has reported                  *)
  worker,     (* where the loop of socket_worker_main is                   *)
  pipe,       (* the messages between each sender and the worker           *)
  forwarded,  (* the messages given to the DEALER socket, in that order    *)
  unread,     (* how many of these the socket still holds                  *)
  spool,      (* the unread events of the spool                            *)
  oldFiles,   (* the spool holds files of an earlier run                   *)
  newFiles,   (* an event was written to the spool in this run             *)
  spooler,    (* where spool_main is                                       *)
  hand,       (* what spool_main has popped, as a sequence of at most one  *)
  ready,      (* the local variable of that name                           *)
  pc,         (* where each sending thread is in its call                  *)
  sent,       (* how many messages each thread has sent or is sending      *)
  spooled,    (* every message that was pushed to the spool                *)
  gone        (* messages culled, or dropped by a send or push that failed *)

spoolVars   == <<spool, oldFiles, newFiles, spooled>>
wireVars    == <<forwarded, unread>>
workerVars  == <<state, events, worker, wireVars>>
spoolerVars == <<spooler, hand, ready>>
senderVars  == <<pc, sent>>
stopVars    == <<stop, destroyer, sockets>>
vars == <<spoolVars, workerVars, spoolerVars, senderVars, stopVars, pipe, gone>>

(* The n-th message of a thread; those of the spooler are what earlier runs*)
(* left in the spool.                                                      *)
Messages == [from : Threads, n : Nat]
Message(t, n) == [from |-> t, n |-> n]
Current(t) == Message(t, sent[t])

(* Slips: the spool is empty when nothing is left to pop, or when nothing  *)
(* was written in this run.                                                *)
SpoolDrained == spool = << >>
SpoolUnwritten == ~newFiles

(* spool_empty_of_messages                                                 *)
SpoolEmpty == ~oldFiles /\ ~newFiles

-----------------------------------------------------------------------------

Init ==
  /\ state = "pending" /\ events = 0
  /\ stop = FALSE /\ destroyer = "no" /\ sockets = {}
  /\ worker = "start" /\ unread = 0
  /\ pipe = [t \in Threads |-> << >>]
  /\ forwarded = << >>
  /\ \E left \in 0 .. MaxLeftover :
       /\ spool = [i \in 1 .. left |-> Message(Spooler, i)]
       /\ oldFiles = (left > 0)
  /\ newFiles = FALSE
  /\ spooler = "wait" /\ hand = << >> /\ ready \in ReadyValues
  /\ pc = [t \in Threads |-> "idle"]
  /\ sent = [t \in Threads |-> 0]
  /\ spooled = Range(spool)
  /\ gone = {}

-----------------------------------------------------------------------------
(* send_router_message                                                     *)

Goto(t, l) == pc' = [pc EXCEPT ![t] = l]

Connected == state = "connected"

(* send_plugin_message: a thread gets its socket with its first message.   *)
(* There is none to be had any more once the context is being destroyed.   *)
OpenSocket(s) ==
  \/ /\ sent[s] = 0 /\ destroyer # "done"
     /\ sockets' = sockets \union {s}
  \/ /\ sent[s] > 0 \/ destroyer \in {"term", "done"}
     /\ UNCHANGED sockets

(* cur_st is read under rtr->mtx, which is released before it is used.     *)
ReadState(s) ==
  /\ pc[s] = "idle" /\ sent[s] < MaxSends
  /\ OpenSocket(s)
  /\ sent' = [sent EXCEPT ![s] = @ + 1]
  /\ Goto(s, IF Connected THEN "look" ELSE "push")
  /\ UNCHANGED <<spoolVars, workerVars, spoolerVars, stop, destroyer, pipe, gone>>

LookAtSpool(s) ==
  /\ pc[s] = "look"
  /\ Goto(s, IF SpoolEmpty THEN "send" ELSE "push")
  /\ UNCHANGED <<sent, spoolVars, workerVars, spoolerVars, stopVars, pipe, gone>>

(* The events that are left when those from i to j were in a culled file.  *)
Culled(q, i, j) == SubSeq(q, 1, i - 1) \o SubSeq(q, j + 1, Len(q))

(* spool_push; a spool that is full drops some file behind the reader's.   *)
PushToSpool(s) ==
  /\ pc[s] = "push"
  /\ LET all == Append(spool, Current(s))
     IN  \E i \in 1 .. Len(all) + 1 : \E j \in i - 1 .. Len(all) :
           /\ spool' = Culled(all, i, j)
           /\ gone' = gone \union Range(SubSeq(all, i, j))
  /\ newFiles' = TRUE
  /\ spooled' = spooled \union {Current(s)}
  /\ Goto(s, "idle")
  /\ UNCHANGED <<oldFiles, sent, workerVars, spoolerVars, stopVars, pipe>>

(* The data is freed, send_plugin_message ignores the result.              *)
PushFails(s) ==
  /\ pc[s] = "push" /\ "push" \in Errors
  /\ gone' = gone \union {Current(s)}
  /\ Goto(s, "idle")
  /\ UNCHANGED <<sent, spoolVars, workerVars, spoolerVars, stopVars, pipe>>

(* zmq_msg_send blocks while the pipe is full or the worker's end of it is *)
(* closed.                                                                 *)
CanSend(t) == worker # "done" /\ Len(pipe[t]) < PipeLimit

SendTransient(t) ==
  /\ pc[t] = "send" /\ CanSend(t)
  /\ pipe' = [pipe EXCEPT ![t] = Append(@, Current(t))]
  /\ Goto(t, "idle")
  /\ UNCHANGED <<sent, spoolVars, workerVars, spoolerVars, stopVars, gone>>

SendTransientFails(t) ==
  /\ pc[t] = "send" /\ "send" \in Errors
  /\ gone' = gone \union {Current(t)}
  /\ Goto(t, "idle")
  /\ UNCHANGED <<sent, spoolVars, workerVars, spoolerVars, stopVars, pipe>>

(* The sender a thread uses was destroyed, or the router's mutex: freed    *)
(* memory is used.  The call goes on as it does with memory that holds what*)
(* it held, or it fails, or the process crashes.                           *)
Dangling(s) == (sent[s] > 0 /\ s \notin sockets) \/ destroyer \in {"term", "done"}

DanglingCallFails(s) ==
  /\ pc[s] # "idle" /\ Dangling(s)
  /\ gone' = gone \union {Current(s)}
  /\ Goto(s, "idle")
  /\ UNCHANGED <<sent, spoolVars, workerVars, spoolerVars, stopVars, pipe>>

Crash(s) ==
  /\ pc[s] # "idle" /\ Dangling(s)
  /\ destroyer' = "crashed"
  /\ UNCHANGED <<spoolVars, workerVars, spoolerVars, senderVars, stop, sockets, pipe, gone>>

(* heartbeat_thr: nothing is sent unless there is a connection, and what is*)
(* sent never goes through the spool.                                      *)
Beat ==
  /\ pc[Heartbeat] = "idle" /\ destroyer = "no" /\ sent[Heartbeat] < MaxBeats
  /\ Connected
  /\ sent' = [sent EXCEPT ![Heartbeat] = @ + 1]
  /\ Goto(Heartbeat, "send")
  /\ UNCHANGED <<spoolVars, workerVars, spoolerVars, stopVars, pipe, gone>>

(* A call that was begun goes on, or fails.                                *)
Continue(t) == LookAtSpool(t) \/ PushToSpool(t) \/ SendTransient(t)

CallFails(t) == PushFails(t) \/ SendTransientFails(t)

-----------------------------------------------------------------------------
(* spool_main                                                              *)

(* Slip: the loop that waits for a connection does not look at should_stop.*)
WorthWaking == Connected /\ ~SpoolEmpty

WaitIsOver == stop \/ (Connected /\ ~SpoolEmpty)

(* The loop around conn_condition; nobody signals it, it polls every 500ms.*)
Wake ==
  /\ spooler = "wait"
  /\ WaitIsOver
  /\ spooler' = IF stop \/ ~Connected THEN "over" ELSE "pop"
  /\ UNCHANGED <<hand, ready, spoolVars, workerVars, senderVars, stopVars, pipe, gone>>

(* should_stop is looked at once more, without the mutex.                  *)
LeaveLoop ==
  /\ \/ spooler = "pop" /\ stop
     \/ spooler = "over"
  /\ spooler' = "done"
  /\ UNCHANGED <<hand, ready, spoolVars, workerVars, senderVars, stopVars, pipe, gone>>

(* `ready' is FALSE, or spool_pop has nothing to return; on its way it     *)
(* removed the files of earlier runs.                                      *)
PopNothing ==
  /\ spooler = "pop" /\ ~stop
  /\ ~ready \/ spool = << >>
  /\ oldFiles' = (oldFiles /\ ~ready)
  /\ spooler' = "wait"
  /\ UNCHANGED <<hand, ready, spool, newFiles, spooled, workerVars, senderVars,
                 stopVars, pipe, gone>>

(* spool_pop.  The build is one without assertions: with them the process  *)
(* aborts here, where two parts are expected, for send_plugin_message sends*)
(* one.                                                                    *)
PopMessage ==
  /\ spooler = "pop" /\ ~stop
  /\ ready /\ spool # << >>
  /\ hand' = <<Head(spool)>>
  /\ spool' = Tail(spool)
  /\ spooler' = "send"
  /\ UNCHANGED <<ready, oldFiles, newFiles, spooled, workerVars, senderVars,
                 stopVars, pipe, gone>>

(* Slip: the send does not block, and its result is not looked at.         *)
SpoolerSendsIfItCan ==
  /\ spooler = "send"
  /\ pipe' = IF CanSend(Spooler) THEN [pipe EXCEPT ![Spooler] = @ \o hand] ELSE pipe
  /\ spooler' = "free"
  /\ UNCHANGED <<hand, ready, spoolVars, workerVars, senderVars, stopVars, gone>>

SpoolerSends ==
  /\ spooler = "send" /\ CanSend(Spooler)
  /\ pipe' = [pipe EXCEPT ![Spooler] = @ \o hand]
  /\ spooler' = "free"
  /\ UNCHANGED <<hand, ready, spoolVars, workerVars, senderVars, stopVars, gone>>

SpoolerSendFails ==
  /\ spooler = "send" /\ "send" \in Errors
  /\ gone' = gone \union Range(hand)
  /\ spooler' = "free"
  /\ UNCHANGED <<hand, ready, spoolVars, workerVars, senderVars, stopVars, pipe>>

(* The parts, whose buffers were handed to ZeroMQ, are freed.              *)
FreeParts ==
  /\ spooler = "free"
  /\ hand' = << >>
  /\ spooler' = "wait"
  /\ UNCHANGED <<ready, spoolVars, workerVars, senderVars, stopVars, pipe, gone>>

SpoolMain ==
  \/ Wake \/ LeaveLoop \/ PopNothing \/ PopMessage
  \/ SpoolerSends \/ FreeParts

-----------------------------------------------------------------------------
(* socket_worker_main                                                      *)

(* The worker closes its sockets, with what is in the pipes.  Nobody is    *)
(* told: the state stays what it was.                                      *)
WorkerExits ==
  /\ worker' = "done"
  /\ pipe' = [t \in Threads |-> << >>]
  /\ gone' = gone \union UNION {Range(pipe[t]) : t \in Threads}
  /\ UNCHANGED <<state, events, wireVars, spoolVars, spoolerVars, senderVars, stopVars>>

CreateSockets ==
  /\ worker = "start"
  /\ worker' = "poll"
  /\ UNCHANGED <<state, events, wireVars, spoolVars, spoolerVars, senderVars, stopVars, pipe, gone>>

(* There is no setting for the router, or ZeroMQ refuses a socket.         *)
CreateSocketsFails ==
  /\ worker = "start" /\ "worker" \in Errors
  /\ WorkerExits

(* An event cannot be processed.                                           *)
EventFails ==
  /\ worker \in {"outgoing", "monitor"} /\ "worker" \in Errors
  /\ WorkerExits

WorkerFails == CreateSocketsFails \/ EventFails

WorkerStops ==
  /\ worker = "poll" /\ stop
  /\ WorkerExits

Poll ==
  /\ worker = "poll" /\ ~stop
  /\ worker' = "outgoing"
  /\ UNCHANGED <<state, events, wireVars, spoolVars, spoolerVars, senderVars, stopVars, pipe, gone>>

(* The DEALER socket is full: the peer does not read, or is not there.     *)
WireFull == unread = WireLimit

(* process_outgoing_in_event: one message of one of the pipes; zmq_msg_send*)
(* blocks while the DEALER socket is full.                                 *)
ForwardOne(t) ==
  /\ worker = "outgoing" /\ pipe[t] # << >> /\ ~WireFull
  /\ forwarded' = Append(forwarded, Head(pipe[t]))
  /\ unread' = unread + 1
  /\ pipe' = [pipe EXCEPT ![t] = Tail(@)]
  /\ worker' = "monitor"
  /\ UNCHANGED <<state, events, spoolerVars, spoolVars, senderVars, stopVars, gone>>

NothingToForward ==
  /\ worker = "outgoing" /\ \A t \in Threads : pipe[t] = << >>
  /\ worker' = "monitor"
  /\ UNCHANGED <<state, events, wireVars, spoolVars, spoolerVars, senderVars, stopVars, pipe, gone>>

(* process_monitor_in_event, set_state                                     *)
MonitorEvent(st) ==
  /\ worker = "monitor" /\ events < MaxEvents
  /\ state' = st
  /\ events' = events + 1
  /\ worker' = "poll"
  /\ UNCHANGED <<wireVars, spoolVars, spoolerVars, senderVars, stopVars, pipe, gone>>

NoMonitorEvent ==
  /\ worker = "monitor"
  /\ worker' = "poll"
  /\ UNCHANGED <<state, events, wireVars, spoolVars, spoolerVars, senderVars, stopVars, pipe, gone>>

SocketWorker ==
  \/ CreateSockets \/ Poll \/ WorkerStops
  \/ \E t \in Threads : ForwardOne(t)
  \/ NothingToForward
  \/ \E st \in ReportedStates : MonitorEvent(st)
  \/ NoMonitorEvent

(* The peer takes a message the DEALER socket holds, also one that it holds*)
(* after it was closed.  Nothing makes the peer do so.                     *)
PeerReads ==
  /\ unread > 0
  /\ unread' = unread - 1
  /\ UNCHANGED <<state, events, worker, forwarded, spoolVars, spoolerVars, senderVars,
                 stopVars, pipe, gone>>

-----------------------------------------------------------------------------
(* yella_destroy_agent and destroy_router                                  *)

(* The heartbeat was joined, and its socket is closed with its thread.  The*)
(* threads of the plugins, which are stopped later, lose theirs.           *)
DestroySenders ==
  /\ destroyer = "no" /\ pc[Heartbeat] = "idle"
  /\ destroyer' = "senders" /\ sockets' = {}
  /\ UNCHANGED <<spoolVars, workerVars, spoolerVars, senderVars, stop, pipe, gone>>

(* destroy_router, up to the join of the worker                            *)
Stop ==
  /\ destroyer = "senders"
  /\ stop' = TRUE /\ destroyer' = "worker"
  /\ UNCHANGED <<spoolVars, workerVars, spoolerVars, senderVars, sockets, pipe, gone>>

JoinWorker ==
  /\ destroyer = "worker" /\ worker = "done"
  /\ destroyer' = "spooler"
  /\ UNCHANGED <<spoolVars, workerVars, spoolerVars, senderVars, stop, sockets, pipe, gone>>

(* Then the condition and the mutex go.                                    *)
JoinSpooler ==
  /\ destroyer = "spooler" /\ spooler = "done"
  /\ destroyer' = "term"
  /\ UNCHANGED <<spoolVars, workerVars, spoolerVars, senderVars, stop, sockets, pipe, gone>>

(* zmq_ctx_term waits for every socket, and without ZMQ_LINGER for every   *)
(* message the DEALER socket held when it was closed.                      *)
TermContext ==
  /\ destroyer = "term" /\ sockets = {} /\ unread = 0
  /\ destroyer' = "done"
  /\ UNCHANGED <<spoolVars, workerVars, spoolerVars, senderVars, stop, sockets, pipe, gone>>

DestroyRouter == JoinWorker \/ JoinSpooler \/ TermContext

Running == destroyer # "crashed"

(* If the worker is gone before the others are, whoever sends waits for    *)
(* ever.                                                                   *)
Ended == (worker = "done" \/ ~Running) /\ UNCHANGED vars

Next ==
  \/ /\ Running
     /\ \/ \E s \in Senders : ReadState(s) \/ DanglingCallFails(s) \/ Crash(s)
        \/ Beat
        \/ \E t \in Threads : Continue(t) \/ CallFails(t)
        \/ SpoolMain \/ SpoolerSendFails
        \/ SocketWorker \/ WorkerFails \/ PeerReads
        \/ DestroySenders \/ Stop \/ DestroyRouter
  \/ Ended

Spec == Init /\ [][Next]_vars

(* Every thread runs; that an operation fails, or the peer reads, is not   *)
(* assumed.                                                                *)
Fairness ==
  /\ WF_vars(Running /\ SpoolMain)
  /\ WF_vars(Running /\ SocketWorker)
  /\ WF_vars(Running /\ DestroyRouter)
  /\ \A t \in Threads : WF_vars(Running /\ Continue(t))

FairSpec == Spec /\ Fairness

-----------------------------------------------------------------------------
(* Properties                                                              *)

TypeOK ==
  /\ state \in States /\ events \in 0 .. MaxEvents
  /\ stop \in BOOLEAN /\ sockets \subseteq Senders
  /\ destroyer \in {"no", "senders", "worker", "spooler", "term", "done", "crashed"}
  /\ unread \in 0 .. WireLimit
  /\ worker \in {"start", "poll", "outgoing", "monitor", "done"}
  /\ pipe \in [Threads -> Seq(Messages)]
  /\ \A t \in Threads : Len(pipe[t]) <= PipeLimit
  /\ forwarded \in Seq(Messages)
  /\ spool \in Seq(Messages) /\ oldFiles \in BOOLEAN /\ newFiles \in BOOLEAN
  /\ spooler \in {"wait", "over", "pop", "send", "free", "done"}
  /\ hand \in Seq(Messages) /\ ready \in BOOLEAN
  /\ pc \in [Threads -> {"idle", "look", "push", "send"}]
  /\ sent \in [Threads -> Nat]
  /\ spooled \subseteq Messages /\ gone \subseteq Messages

(* A message that was spooled is not overtaken by a later one of the same  *)
(* thread, although the later one may find the connection up and take the  *)
(* way around the spool: once it is in use the spool never looks empty     *)
(* again.  (A message that went around the spool may be overtaken by a     *)
(* later one that was spooled: they travel through different pipes.)       *)
SpooledNotOvertaken ==
  \A i, j \in DOMAIN forwarded :
    /\ i < j
    /\ forwarded[i].from = forwarded[j].from
    /\ forwarded[j] \in spooled
    => forwarded[i].n < forwarded[j].n

(* Every message whose call has ended is in the spool, on its way to the   *)
(* worker or forwarded, unless it was culled, or dropped by an operation   *)
(* that failed, or was in a pipe when the worker closed it.                *)
Held == IF spooler = "send" THEN Range(hand) ELSE {}

Accounted ==
  \A t \in Senders \union {Heartbeat} : \A n \in 1 .. sent[t] :
    \/ pc[t] # "idle" /\ n = sent[t]
    \/ Message(t, n) \in (UNION {Range(q) : q \in Range(pipe) \union {spool, forwarded}})
                           \union Held \union gone

(* If `ready' happens to hold TRUE, then a connection that stays up, with  *)
(* a worker that has not ended and a peer that reads again and again,      *)
(* empties the spool and the pipes.  A peer that does not read blocks the  *)
(* worker in zmq_msg_send, whatever the state says.                        *)
DrainedWhileConnected ==
  /\ ready
  /\ <>[](state = "connected" /\ worker # "done" /\ destroyer = "no")
  /\ []<>(~WireFull)
  => <>[](spool = << >> /\ hand = << >> /\ \A t \in Threads : pipe[t] = << >>)

(* destroy_router returns, or the process crashes over a sender that was   *)
(* destroyed under the thread that uses it, or it stays in one of three    *)
(* places: joining a worker that waits for the peer to make room, joining  *)
(* a spool thread that was about to send what it had popped when the worker*)
(* closed its end of the pipe, or in zmq_ctx_term, with messages the peer  *)
(* does not take or the socket of a thread that sent its first message     *)
(* while the agent was being destroyed.                                    *)
WorkerWaitsForPeer ==
  destroyer = "worker" /\ worker = "outgoing" /\ WireFull

SpoolerWaitsForWorker ==
  destroyer = "spooler" /\ worker = "done" /\ spooler = "send" /\ hand # << >>

ContextWaits == destroyer = "term" /\ (unread > 0 \/ sockets # {})

DestroyReturns ==
  <>stop => \/ <>(destroyer \in {"done", "crashed"})
            \/ <>[]WorkerWaitsForPeer
            \/ <>[]SpoolerWaitsForWorker
            \/ <>[]ContextWaits

=============================================================================
