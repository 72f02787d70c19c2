------------------------------ MODULE RouterFace ------------------------------
(***************************************************************************)
(* The router process: bucket_brigade.cpp, zeromq_agent_face.cpp and       *)
(* rabbit_mq_face.cpp.  A worker thread takes the agents' messages and     *)
(* gives each to a back-end thread that has said that it is ready; the     *)
(* back-end thread publishes it and says so again.  A receiver thread      *)
(* consumes the broker's messages for the agents (orders), and the worker  *)
(* passes them on.  Each thread handles errors in a way of its own.        *)
(***************************************************************************)
EXTENDS Naturals, Sequences, SequencesExt, Functions

CONSTANTS
  Backends,     (* the back-end threads, one REQ socket each               *)
  None,
  Errors,       (* what may fail, see ErrorKinds                           *)
  MaxMessages,  (* bound on the messages of the agents                     *)
  MaxOrders     (* bound on the orders                                     *)

(* setup     a socket cannot be bound, or a back-end's not be connected    *)
(* read      a socket that was polled has no data after all                *)
(* send      ZeroMQ throws while a message is passed on                    *)
(* publish   the broker cannot be reached, or the message has no type      *)
(* fatal     the broker answers a new connection with an error             *)
(* consume   the receiver has no connection, or loses it                   *)
(* recipient an order names no agent                                       *)
(* memory    two threads change senders_ at once, or use it when it is     *)
(*           destroyed, and the process does not survive that              *)
ErrorKinds == {"setup", "read", "send", "publish", "fatal", "consume", "recipient", "memory"}

ASSUME FaceAssumption ==
  /\ None \notin Nat
  /\ Errors \subseteq ErrorKinds
  /\ MaxMessages \in Nat /\ MaxOrders \in Nat

VARIABLES
  arrived,    (* number of messages the agents have sent                   *)
  inbox,      (* those before the front-end socket                         *)
  announced,  (* the back-ends' messages before the back-end socket        *)
  ready,      (* ready_workers                                             *)
  polled,     (* the sockets the iteration is still to read                *)
  errors,     (* err_count                                                 *)
  worker,     (* worker_main, see WorkerStates                             *)
  backend,    (* backend_main: "start", "wait", "send" or "ended"          *)
  work,       (* the message each was given                                *)
  senders,    (* the back-ends with a connection in senders_               *)
  failed,     (* history: the back-ends that have met an error             *)
  published, lost,  (* history: what was published, or given up            *)
  consumed,   (* number of orders that were consumed                       *)
  order,      (* the one the receiver holds                                *)
  outgoing,   (* those before the outgoing socket                          *)
  delivered, dropped,  (* history: what was passed on, or given up         *)
  receiver,   (* receiver_main: "consume", "deliver" or "ended"            *)
  linked,     (* the receiver's push socket has had a peer                 *)
  stopAgents, stopQueue,  (* should_stop_ of the two faces                 *)
  died,       (* should_stop_ of the bucket brigade                        *)
  main        (* see MainStates                                            *)

agents == <<arrived, inbox>>
loop   == <<ready, polled, errors, worker>>
pool   == <<announced, backend, work, senders, failed>>
upward == <<published, lost>>
broker == <<consumed, order, receiver, linked>>
down   == <<outgoing, delivered, dropped>>
stops  == <<stopAgents, stopQueue, died, main>>
vars   == <<agents, loop, pool, upward, broker, down, stops>>

(* bind      its sockets are not bound yet                                 *)
(* unbound   they could not be bound                                       *)
WorkerStates == {"bind", "unbound", "run", "join", "ended"}

(* run       in run: waits for death_cond_                                 *)
(* queue     in the destructor of mface_                                   *)
(* gone      mface_ is freed, aface_ is not yet told to stop               *)
(* agents    in the destructor of aface_                                   *)
(* ended     the process has ended                                         *)
(* aborted   it has been terminated                                        *)
MainStates == {"run", "queue", "gone", "agents", "ended", "aborted"}

Init ==
  /\ arrived = 0 /\ inbox = << >>
  /\ ready = << >> /\ polled = {} /\ errors = 0 /\ worker = "bind"
  /\ announced = << >> /\ backend = [b \in Backends |-> "start"]
  /\ work = [b \in Backends |-> None] /\ senders = {} /\ failed = {}
  /\ published = << >> /\ lost = {}
  /\ consumed = 0 /\ order = None /\ receiver = "consume" /\ linked = FALSE
  /\ outgoing = << >> /\ delivered = << >> /\ dropped = {}
  /\ stopAgents = FALSE /\ stopQueue = FALSE /\ died = FALSE /\ main = "run"

Alive == main \notin {"ended", "aborted"}

Abort == main' = "aborted"

(* Slip: a thread that gives up does not say so.                           *)
NoCallback == UNCHANGED died

CallbackOfDeath == died' = TRUE

(* An agent sends a message.                                               *)
Arrive ==
  /\ Alive /\ arrived < MaxMessages
  /\ arrived' = arrived + 1
  /\ inbox' = Append(inbox, arrived + 1)
  /\ UNCHANGED <<loop, pool, upward, broker, down, stops>>

-----------------------------------------------------------------------------
(* worker_main                                                             *)

Working == Alive /\ worker = "run"

(* The front-end socket is polled only if a back-end is ready.             *)
Readable ==
  {s \in {"back"}  : announced # << >>} \union
  {s \in {"out"}   : outgoing # << >>} \union
  {s \in {"front"} : inbox # << >> /\ ready # << >>}

Poll ==
  /\ Working /\ ~stopAgents /\ polled = {} /\ Readable # {}
  /\ polled' = Readable
  /\ UNCHANGED <<agents, ready, errors, worker, pool, upward, broker, down, stops>>

TakeReady ==
  /\ Working /\ "back" \in polled
  /\ ready' = Append(ready, Head(announced))
  /\ announced' = Tail(announced)
  /\ polled' = polled \ {"back"}
  /\ UNCHANGED <<agents, errors, worker, backend, work, senders, failed, upward, broker, down, stops>>

(* An error ends the iteration.                                            *)
PassOn ==
  /\ Working /\ "out" \in polled /\ "back" \notin polled
  /\ outgoing' = Tail(outgoing)
  /\ \/ /\ delivered' = Append(delivered, Head(outgoing))
        /\ polled' = polled \ {"out"}
        /\ UNCHANGED dropped
     \/ /\ "send" \in Errors
        /\ dropped' = dropped \union {Head(outgoing)}
        /\ polled' = {}
        /\ UNCHANGED delivered
  /\ UNCHANGED <<agents, ready, errors, worker, pool, upward, broker, stops>>

(* Slip: the back-end stays ready.                                         *)
ReadyKept == ready

ReadyLeft == Tail(ready)

(* A message to a back-end that has ended is discarded by ZeroMQ.          *)
Dispatch ==
  LET b == Head(ready)
      m == Head(inbox)
  IN
  /\ Working /\ polled = {"front"}
  /\ inbox' = Tail(inbox)
  /\ ready' = ReadyLeft
  /\ errors' = 0
  /\ polled' = {}
  /\ \/ /\ backend[b] # "ended"
        /\ work' = [work EXCEPT ![b] = m]
        /\ UNCHANGED <<failed, lost>>
     \/ /\ backend[b] = "ended" \/ "send" \in Errors
        /\ failed' = failed \union {b}
        /\ lost' = lost \union {m}
        /\ UNCHANGED work
  /\ UNCHANGED <<arrived, worker, announced, backend, senders, published, broker, down, stops>>

TooMany(n) == n = 3

(* The third error since a message was dispatched leaves the loop by an    *)
(* exception, and the destruction of the threads that were not joined      *)
(* terminates the process.                                                 *)
ReadFails ==
  /\ Working /\ polled # {} /\ "read" \in Errors
  /\ polled' = {}
  /\ errors' = errors + 1
  /\ IF TooMany(errors + 1) THEN Abort ELSE UNCHANGED main
  /\ UNCHANGED <<agents, ready, worker, pool, upward, broker, down, stopAgents, stopQueue, died>>

Bind ==
  /\ Alive /\ worker = "bind"
  /\ worker' = "run"
  /\ UNCHANGED <<agents, ready, polled, errors, pool, upward, broker, down, stops>>

(* No back-end thread is started then.                                     *)
BindFails ==
  /\ Alive /\ worker = "bind" /\ "setup" \in Errors
  /\ worker' = "unbound"
  /\ backend' = [b \in Backends |-> "ended"]
  /\ failed' = Backends
  /\ CallbackOfDeath
  /\ UNCHANGED <<agents, ready, polled, errors, announced, work, senders, upward, broker, down,
                 stopAgents, stopQueue, main>>

LeaveLoop ==
  /\ Working /\ polled = {} /\ stopAgents
  /\ worker' = "join"
  /\ UNCHANGED <<agents, ready, polled, errors, pool, upward, broker, down, stops>>

(* The callback of death is not called here.                               *)
BackendsJoined ==
  /\ Alive /\ worker = "join" /\ \A b \in Backends : backend[b] = "ended"
  /\ worker' = "ended"
  /\ UNCHANGED <<agents, ready, polled, errors, pool, upward, broker, down, stops>>

Worker == Bind \/ Poll \/ TakeReady \/ PassOn \/ Dispatch \/ LeaveLoop \/ BackendsJoined

-----------------------------------------------------------------------------
(* backend_main, and send of the broker's face                             *)

(* Slip: a back-end that has published a message does not say so.          *)
AnnounceNothing(b) == UNCHANGED announced

Announce(b) == announced' = Append(announced, b)

Goto(b, to) == backend' = [backend EXCEPT ![b] = to]

GiveUp(b) ==
  /\ lost' = lost \union ({work[b]} \ {None})
  /\ work' = [work EXCEPT ![b] = None]

Connect(b) ==
  /\ Alive /\ worker # "bind" /\ backend[b] = "start"
  /\ Goto(b, "wait")
  /\ announced' = Append(announced, b)
  /\ UNCHANGED <<agents, loop, work, senders, failed, upward, broker, down, stops>>

ConnectFails(b) ==
  /\ Alive /\ worker # "bind" /\ backend[b] = "start" /\ "setup" \in Errors
  /\ Goto(b, "ended")
  /\ failed' = failed \union {b}
  /\ UNCHANGED <<agents, loop, announced, work, senders, upward, broker, down, stops>>

Receive(b) ==
  /\ Alive /\ backend[b] = "wait" /\ work[b] # None /\ ~stopAgents
  /\ Goto(b, "send")
  /\ UNCHANGED <<agents, loop, announced, work, senders, failed, upward, broker, down, stops>>

Publish(b) ==
  /\ Alive /\ backend[b] = "send"
  /\ published' = Append(published, work[b])
  /\ work' = [work EXCEPT ![b] = None]
  /\ senders' = senders \union {b}
  /\ Goto(b, "wait")
  /\ Announce(b)
  /\ UNCHANGED <<agents, loop, failed, lost, broker, down, stops>>

(* An error is logged, and nothing is sent back to the worker.  There is a *)
(* connection or not, as the error came after it was made or before.       *)
PublishFails(b) ==
  /\ Alive /\ backend[b] = "send" /\ "publish" \in Errors
  /\ GiveUp(b)
  /\ senders' \in {senders, senders \union {b}}
  /\ failed' = failed \union {b}
  /\ Goto(b, "wait")
  /\ UNCHANGED <<agents, loop, announced, published, broker, down, stops>>

(* A fatal_error, which only a new connection throws, stops the face of    *)
(* the agents, and calls nobody back.                                      *)
PublishIsFatal(b) ==
  /\ Alive /\ backend[b] = "send" /\ b \notin senders /\ "fatal" \in Errors
  /\ GiveUp(b)
  /\ failed' = failed \union {b}
  /\ stopAgents' = TRUE
  /\ Goto(b, "wait")
  /\ UNCHANGED <<agents, loop, announced, senders, published, broker, down, stopQueue, died, main>>

(* senders_ is used by two threads, one of which inserts, or after its     *)
(* face was freed.  That the process survives is left to the other actions.*)
MemoryIsLost(b) ==
  /\ Alive /\ backend[b] = "send" /\ "memory" \in Errors
  /\ \/ main \in {"gone", "agents"}
     \/ b \notin senders /\ \E c \in Backends \ {b} : backend[c] = "send"
  /\ Abort
  /\ UNCHANGED <<agents, loop, pool, upward, broker, down, stopAgents, stopQueue, died>>

(* What it was given and has not received goes with its socket.            *)
BackendEnds(b) ==
  /\ Alive /\ stopAgents /\ backend[b] = "wait"
  /\ GiveUp(b)
  /\ Goto(b, "ended")
  /\ UNCHANGED <<agents, loop, announced, senders, failed, published, broker, down, stops>>

-----------------------------------------------------------------------------
(* receiver_main, and send of the agents' face                             *)

(* The broker forgets the order when it is consumed: there is no ack.      *)
Consume ==
  /\ Alive /\ receiver = "consume" /\ ~stopQueue /\ consumed < MaxOrders
  /\ consumed' = consumed + 1
  /\ order' = consumed + 1
  /\ receiver' = "deliver"
  /\ UNCHANGED <<agents, loop, pool, upward, linked, down, stops>>

(* The push socket's peer is closed when worker_main returns: a send then  *)
(* blocks, but not if there never was a peer.                              *)
Blocked == receiver = "deliver" /\ linked /\ worker = "ended"

Link == linked' = (linked \/ worker # "ended")

Deliver ==
  /\ Alive /\ receiver = "deliver" /\ ~Blocked
  /\ Link
  /\ outgoing' = Append(outgoing, order)
  /\ order' = None /\ receiver' = "consume"
  /\ UNCHANGED <<agents, loop, pool, upward, consumed, delivered, dropped, stops>>

NoRecipient ==
  /\ Alive /\ receiver = "deliver" /\ "recipient" \in Errors
  /\ Link
  /\ dropped' = dropped \union {order}
  /\ order' = None /\ receiver' = "consume"
  /\ UNCHANGED <<agents, loop, pool, upward, consumed, outgoing, delivered, stops>>

ReceiverFails ==
  /\ Alive
  /\ \/ receiver = "consume" /\ "consume" \in Errors
     \/ receiver = "deliver" /\ "send" \in Errors /\ ~Blocked
  /\ dropped' = dropped \union ({order} \ {None})
  /\ order' = None /\ receiver' = "ended"
  /\ CallbackOfDeath
  /\ UNCHANGED <<agents, loop, pool, upward, consumed, linked, outgoing, delivered,
                 stopAgents, stopQueue, main>>

ReceiverStops ==
  /\ Alive /\ receiver = "consume" /\ stopQueue
  /\ receiver' = "ended"
  /\ UNCHANGED <<agents, loop, pool, upward, consumed, order, linked, down, stops>>

-----------------------------------------------------------------------------
(* main                                                                    *)

Signal ==
  /\ Alive /\ ~died
  /\ died' = TRUE
  /\ UNCHANGED <<agents, loop, pool, upward, broker, down, stopAgents, stopQueue, main>>

RunReturns ==
  /\ main = "run" /\ died
  /\ main' = "queue" /\ stopQueue' = TRUE
  /\ UNCHANGED <<agents, loop, pool, upward, broker, down, stopAgents, died>>

ReceiverJoined ==
  /\ main = "queue" /\ receiver = "ended"
  /\ main' = "gone"
  /\ UNCHANGED <<agents, loop, pool, upward, broker, down, stopAgents, stopQueue, died>>

StopAgents ==
  /\ main = "gone"
  /\ main' = "agents" /\ stopAgents' = TRUE
  /\ UNCHANGED <<agents, loop, pool, upward, broker, down, stopQueue, died>>

WorkerJoined ==
  /\ main = "agents" /\ worker \in {"ended", "unbound"}
  /\ main' = "ended"
  /\ UNCHANGED <<agents, loop, pool, upward, broker, down, stopAgents, stopQueue, died>>

Main == RunReturns \/ ReceiverJoined \/ StopAgents \/ WorkerJoined

Next ==
  \/ Arrive \/ Worker \/ ReadFails \/ BindFails
  \/ \E b \in Backends :
       \/ Connect(b) \/ ConnectFails(b) \/ Receive(b) \/ Publish(b) \/ PublishFails(b)
       \/ PublishIsFatal(b) \/ MemoryIsLost(b) \/ BackendEnds(b)
  \/ Consume \/ Deliver \/ NoRecipient \/ ReceiverFails \/ ReceiverStops
  \/ Signal \/ Main

Spec == Init /\ [][Next]_vars

(* Every thread goes on; that an error, a signal or a message comes is not *)
(* promised.                                                               *)
FairSpec ==
  /\ Spec
  /\ WF_vars(Worker) /\ WF_vars(Main)
  /\ WF_vars(Deliver \/ ReceiverStops)
  /\ \A b \in Backends : WF_vars(Connect(b) \/ Receive(b) \/ Publish(b) \/ BackendEnds(b))

-----------------------------------------------------------------------------
(* Properties                                                              *)

(* The values the variables of the router process take.                    *)
TypeOK ==
  /\ arrived \in 0..MaxMessages /\ inbox \in Seq(1..arrived)
  /\ ready \in Seq(Backends) /\ announced \in Seq(Backends)
  /\ polled \subseteq {"back", "out", "front"}
  /\ errors \in 0..3 /\ worker \in WorkerStates
  /\ backend \in [Backends -> {"start", "wait", "send", "ended"}]
  /\ work \in [Backends -> (1..arrived) \union {None}]
  /\ senders \subseteq Backends /\ failed \subseteq Backends
  /\ published \in Seq(1..arrived) /\ lost \subseteq 1..arrived
  /\ consumed \in 0..MaxOrders /\ order \in (1..consumed) \union {None}
  /\ receiver \in {"consume", "deliver", "ended"} /\ linked \in BOOLEAN
  /\ outgoing \in Seq(1..consumed) /\ delivered \in Seq(1..consumed)
  /\ dropped \subseteq 1..consumed
  /\ stopAgents \in BOOLEAN /\ stopQueue \in BOOLEAN /\ died \in BOOLEAN
  /\ main \in MainStates

(* No back-end is on offer twice, or is on offer while it has work, and    *)
(* the front-end is only read when one is on offer.                        *)
OneRole ==
  LET offers == ready \o announced IN
  /\ IsInjective(offers)
  /\ \A b \in ToSet(offers) : work[b] = None /\ backend[b] \in {"wait", "ended"}
  /\ "front" \in polled => inbox # << >> /\ ready # << >>

(* A message of an agent is in one place: before the worker, with one      *)
(* back-end, published once, or given up; it is given up only with an      *)
(* error of a back-end or when the face stops.  Orders are passed on once  *)
(* and in the order in which they were consumed, or are dropped with an    *)
(* error.  backend_main (zeromq_agent_face.cpp:64) and worker_main (:202). *)
Accounted ==
  LET held == {b \in Backends : work[b] # None} IN
  /\ OneRole
  /\ IsInjective(inbox \o published) /\ IsInjective(Restrict(work, held))
  /\ LET places == <<ToSet(inbox), {work[b] : b \in held}, ToSet(published), lost>> IN
     /\ UNION Range(places) = 1..arrived
     /\ \A i, j \in 1..4 : i # j => places[i] \cap places[j] = {}
  /\ lost = {} \/ failed # {} \/ stopAgents
  /\ IsSorted(delivered \o outgoing, <)
  /\ ToSet(delivered \o outgoing) \union dropped \union ({order} \ {None}) = 1..consumed

(* Stopping, or a process that is gone, excuses the router.   *)
Stopping == stopAgents \/ died \/ ~Alive

(* What the agents have sent is published in the end, or given up with an  *)
(* error, all of it, unless the router stops or every back-end has met an  *)
(* error: a failure of one is not a failure of all.                        *)
(* (zeromq_agent_face.cpp:153, 72)                                         *)
Served ==
  []<>(1..arrived \subseteq ToSet(published) \union lost \/ failed = Backends \/ Stopping)

(* After a signal, or when the receiver or the worker could not go on, the *)
(* process ends, unless the receiver's push socket has lost its peer to an *)
(* error that was fatal to the other face.  (bucket_brigade.cpp:20)        *)
Ends == died \/ receiver = "ended" ~> ~Alive \/ Blocked
=============================================================================
