----------------------------- MODULE Connector -----------------------------
(***************************************************************************)
(* nets/connector.cpp on either reactor: a Connector makes a socket, waits *)
(* until it may be written to, and then hands it over (OnConnected) or     *)
(* gives it up.  A connector has the write event only and no timer, and    *)
(* its descriptor is its number.  Every other handler does as in Reactors. *)
(*                                                                         *)
(* Open is called when no attempt is under way: the code does not look.    *)
(***************************************************************************)
EXTENDS Reactors

VARIABLES
    connectors,             \* the handlers that are Connectors
    timeout,                \* their time_: a delay, or 0 where it is NULL
    connfd,                 \* those whose connfd_ has a handle
    open,                   \* descriptors of theirs that are open
    handed                  \* descriptors another handler has got

sockets == <<connfd, open, handed>>
allvars == <<vars, connectors, timeout, sockets>>

ConnectorInit ==
    /\ Init
    /\ connectors \in SUBSET (Handlers \ Listeners)
    /\ timeout \in [connectors -> Delays \union {0}]
    /\ connfd = {} /\ open = {} /\ handed = {}

\* HandleClose of the connectors C.
HandleClose(C) ==
    /\ connfd' = connfd \ C
    /\ open' = open \ (C \intersect connfd)
    /\ UNCHANGED handed

\* The connectors whose last event goes in this step.
Detached == {c \in connectors : Attached(c) /\ data'[c] = {}}

\* Mutant: RegisterHandler is not given time_.
OpenUntimed(c) ==
    /\ c \notin open
    /\ Keeps(c, [Data(c) EXCEPT !.write = Registered(@, c, FALSE, 0)])
    /\ connfd' = connfd \union {c} /\ open' = open \union {c}
    /\ UNCHANGED <<select, now, quiet, expiring, aborted, handed>>

\* A socket that connects at once or in a while.
Open(c) ==
    /\ c \notin open
    /\ now + timeout[c] <= Horizon
    /\ Keeps(c, [Data(c) EXCEPT !.write = Registered(@, c, FALSE, timeout[c])])
    /\ connfd' = connfd \union {c} /\ open' = open \union {c}
    /\ UNCHANGED <<select, now, quiet, expiring, aborted, handed>>

\* event_add fails after event_set: the guard closes the socket and forgets it.
\* (That is all there is where a system call before it fails.)
OpenFails(c) ==
    /\ ~select /\ c \notin open
    /\ Keeps(c, [Data(c) EXCEPT !.write = [NoEvent EXCEPT !.on = "set", !.fd = c]])
    /\ UNCHANGED <<select, now, quiet, expiring, aborted, sockets>>

\* RemoveHandler of the write event.  Without reactor data there is HandleClose.
Close(c) ==
    /\ IF Attached(c) THEN Settles(c, AfterRemove(Data(c), {"write"}))
                      ELSE UNCHANGED <<data, handlers>>
    /\ HandleClose({c})
    /\ UNCHANGED <<select, now, quiet, expiring, aborted>>

\* Mutant: OnConnected has the descriptor, and connfd_ keeps it.
HandsOverHeld(c) ==
    /\ connfd' = connfd \ {c} /\ open' = open \ {c}
    /\ handed' = handed \union {c}

\* OnConnected gives 0, and connfd_ forgets the descriptor before HandleClose.
HandsOver(c) ==
    /\ connfd' = connfd \ {c}
    /\ handed' = handed \union {c}
    /\ UNCHANGED open

\* The attempt has failed, SetBlocking or GetLocalAddr does, or OnConnected
\* refuses: OnError's Close, and the guard's, which then finds nothing to do.
HandleOutput(c) ==
    /\ Called(c, "write")
    /\ Settles(c, AfterRemove(Data(c), {"write"}))
    /\ HandsOver(c) \/ HandleClose({c})
    /\ UNCHANGED <<select, now, quiet, expiring, aborted>>

\* Whoever has the descriptor closes it.
OwnerCloses(c) ==
    /\ c \in handed
    /\ handed' = handed \ {c} /\ open' = open \ {c}
    /\ UNCHANGED <<vars, connfd>>

Others ==
    \/ \E h \in Handlers \ connectors : Calls(h)
    \/ Timeout                      \* HandleTimeout(NULL) comes to HandleClose
    \/ Quieten
    \/ Tick

ConnectorCalls(c) ==
    Open(c) \/ OpenFails(c) \/ Close(c) \/ HandleOutput(c) \/ OwnerCloses(c)

ConnectorNext ==
    /\ \/ ~aborted /\ Others /\ HandleClose(Detached)
       \/ ~aborted /\ \E c \in connectors : ConnectorCalls(c)
       \/ Ended /\ UNCHANGED sockets
    /\ UNCHANGED <<connectors, timeout>>

ConnectorSpec == ConnectorInit /\ [][ConnectorNext]_allvars /\ Fairness

-----------------------------------------------------------------------------
(* Properties *)

\* An open descriptor is a connector's or the one's it was handed to, never
\* both, and a connector's is open as long as the reactor waits for it: none
\* leaks on an error path, none is closed after it was handed over, although
\* Close is called twice on most paths (connector.cpp:48, 89-96, 107, 139-155).
SocketsOwned ==
    /\ connfd \union handed = open /\ connfd \intersect handed = {}
    /\ \A c \in connectors : c \in connfd <=> Data(c).write.on = "on"

\* An attempt with a timeout ends, even where SelectReactor does not watch its
\* descriptor (selectreactor.cpp:277), and however often another begins, unless
\* the process has ended.  (While some other descriptor is always ready,
\* SelectReactor never serves the timeout: the WF on Quieten leaves that out.)
AttemptsEnd ==
    \A c \in Handlers :
        (c \in connfd /\ c \in connectors /\ timeout[c] # 0) ~> (aborted \/ c \notin connfd)
=============================================================================
