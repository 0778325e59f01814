---------------------------- MODULE Connections ----------------------------
(***************************************************************************)
(* The connections of the reactor thread: Acceptor and                     *)
(* AddressFilteredAcceptor make a ConnectEventHandler for each accepted    *)
(* socket and register it; LibEventReactor keeps its read and write        *)
(* events; PushEventHandler finds the handler of an answer by its id.      *)
(* Descriptors are the kernel's: accept takes the lowest free one, and a   *)
(* closed one is another connection's next.                                *)
(*                                                                         *)
(* Every callback runs to its end before the next, so each is one action.  *)
(* The answers come from WorkPipeline, in any order; here they are a count.*)
(* One may come after its connection has ended, and nothing stops it from  *)
(* acting on the descriptor the handler had.  astray remembers whether it  *)
(* was somebody's again by then.                                           *)
(***************************************************************************)
EXTENDS Integers, FiniteSets, FiniteSetsExt

CONSTANTS Peers,         \* connections the outside world makes, once each
          Fds,           \* descriptors for them, the lowest taken first
          MaxHandlers,   \* objects of the handler pool (ACF_MAX_CONNECTIONS)
          MaxFrames,     \* bound: frames a peer sends
          Listener,      \* who owns the acceptor's descriptor
          Nobody         \* what a free descriptor is

ASSUME ConnectionsAssumption ==
    /\ Fds \subseteq Nat \ (0..2) /\ IsFiniteSet(Fds)  \* daemonize.h:21-23
    /\ MaxHandlers \in Nat /\ MaxFrames \in Nat
    /\ {Nobody, Listener} \cap Peers = {} /\ Nobody # Listener

VARIABLES interrupts,    \* TRUE: recv and send may fail with EINTR
          acceptor,      \* its handle (0: none) and its read event
          arrived,       \* connections that have come
          owner,         \* whose socket each descriptor is
          count,         \* handlers made: ids 1..count (idcounter_)
          handler,       \* the registry, with the handlers' own fields
          heard,         \* handlers whose answers each peer has received
          astray         \* history: an answer has acted on another's descriptor

vars == <<interrupts, acceptor, arrived, owner, count, handler, heard, astray>>

Handlers == 1..MaxHandlers
Registry == 1..count

\* An event is off (zeroed), set (ev_events kept, not pending) or on (pending).
EventStates == {"off", "set", "on"}

NoHandler == [peer |-> Nobody, fd |-> 0, read |-> "off", write |-> "off",
              out |-> 0, closing |-> FALSE, frames |-> 0, inflight |-> 0]

\* The handler has reactor data: RemoveHandler and CancelTimer drop it with
\* the last event.
Attached(h) == handler[h].read # "off" \/ handler[h].write # "off"

Init ==
    /\ interrupts \in BOOLEAN
    /\ acceptor = [fd |-> 0, read |-> "off"]
    /\ arrived = {}
    /\ owner = [f \in Fds |-> Nobody]
    /\ count = 0
    /\ handler = [h \in Handlers |-> NoHandler]
    /\ heard = [p \in Peers |-> {}]
    /\ astray = FALSE

-----------------------------------------------------------------------------
(* Acceptor *)

Free == {f \in Fds : owner[f] = Nobody}

\* A new socket, unless the acceptor has one; either is registered.
AcceptorOpen ==
    /\ \/ /\ acceptor.fd = 0 /\ Free # {}
          /\ owner' = [owner EXCEPT ![Min(Free)] = Listener]
          /\ acceptor' = [fd |-> Min(Free), read |-> "on"]
       \/ /\ acceptor.fd # 0
          /\ acceptor' = [acceptor EXCEPT !.read = "on"]
          /\ UNCHANGED owner
    /\ UNCHANGED <<interrupts, arrived, count, handler, heard, astray>>

\* RegisterHandler fails, after event_set: a new socket is closed again.  (Where
\* a system call before it fails the socket is closed as well, and that is all.)
AcceptorOpenFails ==
    /\ acceptor.fd # 0 \/ Free # {}
    /\ acceptor' = [acceptor EXCEPT !.read = "set"]
    /\ UNCHANGED <<interrupts, arrived, owner, count, handler, heard, astray>>

\* Mutant: the acceptor keeps the handle it has closed.
AcceptorCloseKeeps ==
    /\ acceptor' = [acceptor EXCEPT !.read = "off"]
    /\ owner' = IF acceptor.fd = 0 THEN owner ELSE [owner EXCEPT ![acceptor.fd] = Nobody]
    /\ UNCHANGED <<interrupts, arrived, count, handler, heard, astray>>

\* Close: HandleClose is called with reactor data and without.
AcceptorClose ==
    /\ acceptor' = [fd |-> 0, read |-> "off"]
    /\ owner' = IF acceptor.fd = 0 THEN owner ELSE [owner EXCEPT ![acceptor.fd] = Nobody]
    /\ UNCHANGED <<interrupts, arrived, count, handler, heard, astray>>

Accepts(p) ==
    /\ acceptor.read = "on" /\ owner[acceptor.fd] = Listener
    /\ p \notin arrived /\ Free # {}

Accept(p) ==
    /\ Accepts(p) /\ count < MaxHandlers
    /\ LET fd == Min(Free) IN
       /\ owner' = [owner EXCEPT ![fd] = p]
       /\ handler' = [handler EXCEPT ![count + 1] =
              [NoHandler EXCEPT !.peer = p, !.fd = fd, !.read = "on"]]
    /\ arrived' = arrived \union {p}
    /\ count' = count + 1
    /\ UNCHANGED <<interrupts, acceptor, heard, astray>>

\* The address is not allowed, Create has no handler left, or Open fails and the
\* handler is taken off the registry: the guard closes the descriptor again.
AcceptRefused(p) ==
    /\ Accepts(p)
    /\ arrived' = arrived \union {p}
    /\ UNCHANGED <<interrupts, acceptor, owner, count, handler, heard, astray>>

-----------------------------------------------------------------------------
(* What the callbacks of a handler do; hr is its record so far *)

\* Close: RemoveHandler of both events, and so HandleClose, which closes the
\* descriptor whosever it is by now.  The handler stays on the registry.
Close(h, hr) ==
    /\ handler' = [handler EXCEPT ![h] = [hr EXCEPT !.read = "off", !.write = "off"]]
    /\ owner' = [owner EXCEPT ![hr.fd] = Nobody]

Keep(h, hr) == handler' = [handler EXCEPT ![h] = hr] /\ UNCHANGED owner

\* RegisterHandler(WriteMask): event_add, or Close if it fails.
AwaitWritable(h, hr) == Keep(h, [hr EXCEPT !.write = "on"]) \/ Close(h, hr)

\* Mutant: the write event is left to fire on an empty buffer.
KeepWriteEvent(h, hr) == Keep(h, hr)

\* RemoveHandler(WriteMask): the last event takes the connection with it.
NothingToWrite(h, hr) ==
    IF hr.read = "off" THEN Close(h, hr) ELSE Keep(h, [hr EXCEPT !.write = "off"])

Hears(h, hr) == heard' = [heard EXCEPT ![owner[hr.fd]] = @ \union {h}]

\* HandleOutput, with something in the send buffer: all of it is sent, or a
\* part, or nothing for now (EAGAIN), or a signal comes (EINTR).  An error ends
\* it, and there is one if the descriptor is closed or the acceptor's by now.
Output(h, hr) ==
    \/ /\ owner[hr.fd] \in Peers
       /\ Hears(h, hr)
       /\ LET sent == [hr EXCEPT !.out = 0] IN
          IF hr.closing THEN Close(h, sent) ELSE NothingToWrite(h, sent)
    \/ /\ owner[hr.fd] \in Peers
       /\ \E rest \in 1..hr.out :
             /\ AwaitWritable(h, [hr EXCEPT !.out = rest])
             /\ Hears(h, hr) \/ (rest = hr.out /\ UNCHANGED heard)
    \/ Close(h, hr) /\ UNCHANGED heard
    \/ /\ interrupts /\ owner[hr.fd] \in Peers
       /\ Keep(h, hr) /\ UNCHANGED heard

-----------------------------------------------------------------------------
(* The callbacks; an event that fires is no longer pending *)

Ready(h, event) == event = "on" /\ owner[handler[h].fd] # Nobody

\* Mutant: the same frames may be read again.
InputUncounted(h) ==
    /\ Ready(h, handler[h].read)
    /\ Keep(h, [handler[h] EXCEPT !.inflight = @ + 1])
    /\ UNCHANGED <<interrupts, acceptor, arrived, count, heard, astray>>

\* ConnectEventHandler::HandleInput: Extract makes n packages; it, the recv
\* before it or the RegisterHandler after it may fail.
HandleInput(h) ==
    /\ Ready(h, handler[h].read)
    /\ \E n \in 0..(MaxFrames - handler[h].frames) :
          LET hr == [handler[h] EXCEPT !.frames = @ + n, !.inflight = @ + n] IN
          \/ owner[hr.fd] \in Peers /\ Keep(h, [hr EXCEPT !.read = "on"])
          \/ Close(h, [hr EXCEPT !.read = "set"])
    /\ UNCHANGED <<interrupts, acceptor, arrived, count, heard, astray>>

InputInterrupted(h) ==
    /\ interrupts
    /\ Ready(h, handler[h].read)
    /\ Keep(h, [handler[h] EXCEPT !.read = "set"])
    /\ UNCHANGED <<interrupts, acceptor, arrived, count, heard, astray>>

HandleOutput(h) ==
    /\ Ready(h, handler[h].write)
    /\ handler[h].out > 0
    /\ Output(h, [handler[h] EXCEPT !.write = "set"])
    /\ UNCHANGED <<interrupts, acceptor, arrived, count, astray>>

\* Mutant: the timeout is logged and no more.
TimeoutLogged(h) ==
    /\ handler[h].read = "on"
    /\ Keep(h, [handler[h] EXCEPT !.read = "set"])
    /\ UNCHANGED <<interrupts, acceptor, arrived, count, heard, astray>>

HandleTimeout(h) ==
    /\ "on" \in {handler[h].read, handler[h].write}
    /\ Close(h, handler[h])
    /\ UNCHANGED <<interrupts, acceptor, arrived, count, heard, astray>>

-----------------------------------------------------------------------------
(* PushEventHandler::HandleEvent, for one package of handler h *)

\* The handler has ended, and its descriptor is open again: another's.
Astray(h) == ~Attached(h) /\ owner[handler[h].fd] # Nobody

\* The handler is found by its id whether its connection goes on or not.
Answer(h) ==
    /\ h \in Registry /\ handler[h].inflight > 0
    /\ LET hr == [handler[h] EXCEPT !.inflight = @ - 1] IN
       \/ /\ \/ Output(h, [hr EXCEPT !.out = @ + 1])                     \* Send
             \/ Output(h, [hr EXCEPT !.out = @ + 1, !.closing = TRUE])   \* CloseAfterSent
             \/ Close(h, hr) /\ UNCHANGED heard     \* no data, a return code
          /\ astray' = (astray \/ Astray(h))
       \/ Keep(h, hr) /\ UNCHANGED <<heard, astray>>     \* neither
    /\ UNCHANGED <<interrupts, acceptor, arrived, count>>

\* A worker drops the package, or its answer is for nobody any more.
NoAnswer(h) ==
    /\ handler[h].inflight > 0
    /\ handler' = [handler EXCEPT ![h].inflight = @ - 1]
    /\ UNCHANGED <<interrupts, acceptor, arrived, owner, count, heard, astray>>

-----------------------------------------------------------------------------
Rest ==
    /\ \A p \in Peers : ~Accepts(p)
    /\ \A h \in Registry : handler[h].inflight = 0 /\ "on" \notin {handler[h].read, handler[h].write}
    /\ UNCHANGED vars

Callback(h) == HandleInput(h) \/ InputInterrupted(h) \/ HandleOutput(h)
               \/ HandleTimeout(h) \/ Answer(h) \/ NoAnswer(h)

Next ==
    \/ AcceptorOpen \/ AcceptorOpenFails \/ AcceptorClose
    \/ \E p \in Peers : Accept(p) \/ AcceptRefused(p)
    \/ \E h \in Handlers : Callback(h)
    \/ Rest

Spec == Init /\ [][Next]_vars

\* A pending event's timeout is set by each registration, and a peer sends
\* MaxFrames frames at most, so sooner or later the timeout is over.
FairSpec == Spec /\ \A h \in Handlers : WF_vars(HandleTimeout(h))

-----------------------------------------------------------------------------
(* Properties *)

\* Every variable holds what the code keeps there.
TypeOK ==
    /\ interrupts \in BOOLEAN
    /\ acceptor \in [fd : Fds \union {0}, read : EventStates]
    /\ arrived \subseteq Peers
    /\ owner \in [Fds -> Peers \union {Nobody, Listener}]
    /\ count \in 0..MaxHandlers
    /\ handler \in [Handlers ->
          [peer : Peers \union {Nobody}, fd : Fds \union {0},
           read : EventStates, write : EventStates, out : 0..MaxFrames,
           closing : BOOLEAN, frames : 0..MaxFrames, inflight : 0..MaxFrames]]
    /\ heard \in [Peers -> SUBSET Handlers]
    /\ astray \in BOOLEAN

\* Every open descriptor is the acceptor's or the one connection's whose handler
\* the reactor watches, and every watched handler's descriptor is open: none
\* leaks on an error path, none is closed under a connection (acceptor.cpp:36-69,
\* 86-92, 102-111, 130-159, connecteventhandler.cpp:168-174,
\* libeventreactor.cpp:112-119).  An answer for a handler that has ended closes
\* its descriptor once more: that breaks nothing as long as nobody has got the
\* number since, and everything afterwards (astray).
DescriptorsOwned ==
    ~astray =>
        /\ \A h \in Registry : Attached(h) => owner[handler[h].fd] = handler[h].peer
        /\ \A f \in Fds : owner[f] = Listener <=> acceptor.fd = f
        /\ acceptor.read = "on" => acceptor.fd # 0
        /\ \A f \in Fds : owner[f] \in Peers =>
              Cardinality({h \in Registry : Attached(h) /\ handler[h].fd = f}) = 1

\* An answer reaches the peer whose request it answers, or nobody: what the code
\* takes for granted of a handler that disconnected (pusheventhandler.cpp:24).
ReachesItsPeer ==
    \A p \in Peers : \A h \in heard[p] : handler[h].peer = p

\* Between callbacks a connection waits for input, and for room to write when
\* something is left to be sent; one that is to be closed after sending has
\* something left to send (connecteventhandler.cpp:86-92, 98-159).  An answer for
\* a handler that has ended does not make the reactor watch it again.  An
\* interrupted recv or send breaks this (59-62, 109-112), and so may an answer
\* that acts on another's descriptor; it is said of runs without.
Attended ==
    ~interrupts /\ ~astray => \A h \in Registry : Attached(h) =>
        /\ handler[h].read = "on"
        /\ handler[h].out > 0 <=> handler[h].write = "on"
        /\ handler[h].closing => handler[h].out > 0

\* A connection ends: by its peer, an error, CloseAfterSent or the timeout that
\* AddressFilteredAcceptor sets (addressfilteracceptor.cpp:31-32).
\* Without a pending event after an interrupt there is no timeout either.
ConnectionsEnd == \A h \in Handlers : (Attached(h) /\ ~interrupts) ~> ~Attached(h)
=============================================================================
