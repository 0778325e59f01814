--------------------------- MODULE RequestService ---------------------------
(***************************************************************************)
(* What the server promises its clients, with no threads, queues or        *)
(* packages: a request of a connection is either refused (and the          *)
(* connection takes no further one) or admitted, and an admitted request   *)
(* is settled once: delivered to its connection's handler, or dropped.     *)
(* No more than Capacity requests are in flight.  WorkPipeline implements  *)
(* this specification.                                                     *)
(***************************************************************************)
EXTENDS Integers, FiniteSets

CONSTANTS Conns,      \* the connections
          MaxReq,     \* the requests a connection sends, at most
          Capacity    \* packages the pool may create

Requests == Conns \X (1..MaxReq)
Fates == {"new", "inflight", "refused", "dropped", "delivered"}
Settled == {"dropped", "delivered"}

VARIABLES fate,       \* what has become of each request
          down        \* the process has died of a fault

svars == <<fate, down>>

InFlight == {r \in Requests : fate[r] = "inflight"}

\* The requests of a connection are read in the order it sent them, and none
\* is read after a refused one.
Turn(r) ==
    /\ fate[r] = "new"
    /\ \A i \in 1..MaxReq : i < r[2] => fate[<<r[1], i>>] \notin {"new", "refused"}

Become(r, f) == fate' = [fate EXCEPT ![r] = f] /\ UNCHANGED down

Admit(r) ==
    /\ Turn(r)
    /\ Cardinality(InFlight) < Capacity
    /\ Become(r, "inflight")

Refuse(r) == Turn(r) /\ Become(r, "refused")

Settle(r) ==
    /\ fate[r] = "inflight"
    /\ \E f \in Settled : Become(r, f)

Crash == down' = TRUE /\ UNCHANGED fate

Init ==
    /\ fate = [r \in Requests |-> "new"]
    /\ down = FALSE

Next ==
    /\ ~down
    /\ \/ \E r \in Requests : Admit(r) \/ Refuse(r) \/ Settle(r)
       \/ Crash

SafetySpec == Init /\ [][Next]_svars

\* Every admitted request is settled, unless the process dies.
Spec == SafetySpec /\ \A r \in Requests : WF_svars(~down /\ Settle(r))
=============================================================================
