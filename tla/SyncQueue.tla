------------------------------ MODULE SyncQueue ------------------------------
(***************************************************************************)
(* utils/queue.h: SyncQueue and SyncStack at the grain of their mutex and  *)
(* condition variable.  Any thread pushes and pops; a blocking Pop waits   *)
(* with a timeout of a second and looks again.                             *)
(*                                                                         *)
(* count_ is changed next to queue_, both under the mutex, and only        *)
(* GetSize reads it without the mutex; what it can read is the length of   *)
(* items after some step of this specification, so it is not kept apart.   *)
(***************************************************************************)
EXTENDS Integers, Sequences, FiniteSets

CONSTANTS Threads, Values,
          Limit,            \* limit_
          MaxLen,           \* bound: no push with limit = false is called beyond
          NoThread          \* nobody has the mutex

ASSUME QueueAssumption ==
    /\ Limit \in Nat \ {0} /\ MaxLen \in Nat /\ Limit <= MaxLen
    /\ NoThread \notin Threads
    /\ IsFiniteSet(Threads)

VARIABLES
    lifo,                   \* TRUE: it is a SyncStack, FALSE: a SyncQueue
    items,                  \* queue_, front first
    op,                     \* the call each thread is in
    res,                    \* what it has come to
    removed,                \* <<v>> while a push has taken v out to make room
    pc,                     \* what each thread is at
    lock,                   \* the owner of mutex_
    waiting                 \* the threads asleep on cond_

vars == <<lifo, items, op, res, removed, pc, lock, waiting>>

\* The buffer seen from outside: between taking one out and putting one in, a
\* push that makes room has not taken effect.
Buffer == INSTANCE AtomicBuffer WITH items <- items \o removed

Steps == {"idle", "lock", "body", "insert", "signal", "waiting", "unlock"}

Goes(t, step) == pc' = [pc EXCEPT ![t] = step]
Comes(t, r) == res' = [res EXCEPT ![t] = r]
Owns(t, step) == pc[t] = step /\ lock = t
IsPush(t) == op[t].kind = "push"
AtLimit(t) == op[t].limit /\ Len(items) >= Limit
MakesRoom(t) == lifo /\ op[t].evict      \* SyncQueue ignores removed

Init ==
    /\ lifo \in BOOLEAN
    /\ items = <<>>
    /\ op = [t \in Threads |-> Buffer!NoCall]
    /\ res = [t \in Threads |-> Buffer!Pending]
    /\ removed = <<>>
    /\ pc = [t \in Threads |-> "idle"]
    /\ lock = NoThread
    /\ waiting = {}

-----------------------------------------------------------------------------
Call(t) ==
    /\ pc[t] = "idle"
    /\ \E c \in Buffer!PushCalls \union Buffer!PopCalls :
          /\ c.kind = "push" /\ ~c.limit =>
                Len(items) + Cardinality({u \in Threads : IsPush(u)}) < MaxLen
          /\ op' = [op EXCEPT ![t] = c]
    /\ Goes(t, "lock")
    /\ UNCHANGED <<lifo, items, res, removed, lock, waiting>>

\* Mutant: the mutex is not taken.
LockNothing(t) ==
    /\ pc[t] = "lock"
    /\ Goes(t, "body")
    /\ UNCHANGED <<lifo, items, op, res, removed, lock, waiting>>

\* pthread_mutex_lock, and the same inside pthread_cond_timedwait on its way out.
Lock(t) ==
    /\ pc[t] = "lock"
    /\ lock = NoThread
    /\ lock' = t
    /\ Goes(t, "body")
    /\ UNCHANGED <<lifo, items, op, res, removed, waiting>>

PushRefused(t) ==
    /\ Owns(t, "body") /\ IsPush(t)
    /\ AtLimit(t) /\ ~MakesRoom(t)
    /\ Comes(t, Buffer!Full)
    /\ Goes(t, "unlock")
    /\ UNCHANGED <<lifo, items, op, removed, lock, waiting>>

\* *removed = queue_.back(); queue_.pop_back(); count_--
Evict(t) ==
    /\ Owns(t, "body") /\ IsPush(t)
    /\ AtLimit(t) /\ MakesRoom(t)
    /\ removed' = <<items[Len(items)]>>
    /\ items' = Buffer!WithoutLast(items)
    /\ Goes(t, "insert")
    /\ UNCHANGED <<lifo, op, res, lock, waiting>>

\* push_front or push_back; count_++
Insert(t) ==
    /\ \/ /\ Owns(t, "body") /\ IsPush(t) /\ ~AtLimit(t)
          /\ Comes(t, Buffer!Done)
       \/ Owns(t, "insert") /\ Comes(t, Buffer!Got(removed[1]))
    /\ items' = Buffer!Insert(items, op[t].val)
    /\ removed' = <<>>
    /\ Goes(t, "signal")
    /\ UNCHANGED <<lifo, op, lock, waiting>>

\* Mutant: only the push into an empty buffer signals.
SignalFirst(t) ==
    /\ Owns(t, "signal")
    /\ \/ (waiting = {} \/ Len(items) > 1) /\ Goes(t, "unlock") /\ UNCHANGED waiting
       \/ \E w \in waiting :
             /\ Len(items) = 1
             /\ waiting' = waiting \ {w}
             /\ pc' = [pc EXCEPT ![t] = "unlock", ![w] = "lock"]
    /\ UNCHANGED <<lifo, items, op, res, removed, lock>>

\* pthread_cond_signal wakes one waiter, who must take the mutex again.
Signal(t) ==
    /\ Owns(t, "signal")
    /\ \/ waiting = {} /\ Goes(t, "unlock") /\ UNCHANGED waiting
       \/ \E w \in waiting :
             /\ waiting' = waiting \ {w}
             /\ pc' = [pc EXCEPT ![t] = "unlock", ![w] = "lock"]
    /\ UNCHANGED <<lifo, items, op, res, removed, lock>>

PopTakes(t) ==
    /\ Owns(t, "body") /\ ~IsPush(t)
    /\ items # <<>>
    /\ Comes(t, Buffer!Got(Head(items)))
    /\ items' = Tail(items)
    /\ Goes(t, "unlock")
    /\ UNCHANGED <<lifo, op, removed, lock, waiting>>

\* Mutant: a blocking Pop gives up when it is woken for nothing.
PopGivesUp(t) ==
    /\ Owns(t, "body") /\ ~IsPush(t)
    /\ items = <<>>
    /\ Comes(t, Buffer!Empty)
    /\ Goes(t, "unlock")
    /\ UNCHANGED <<lifo, items, op, removed, lock, waiting>>

PopFindsNothing(t) ==
    /\ Owns(t, "body") /\ ~IsPush(t)
    /\ items = <<>> /\ ~op[t].block
    /\ Comes(t, Buffer!Empty)
    /\ Goes(t, "unlock")
    /\ UNCHANGED <<lifo, items, op, removed, lock, waiting>>

\* pthread_cond_timedwait gives the mutex up and sleeps in one step.
Wait(t) ==
    /\ Owns(t, "body") /\ ~IsPush(t)
    /\ items = <<>> /\ op[t].block
    /\ waiting' = waiting \union {t}
    /\ lock' = NoThread
    /\ Goes(t, "waiting")
    /\ UNCHANGED <<lifo, items, op, res, removed>>

\* The second is over (or the wakeup is spurious): round the loop again.
Timeout(t) ==
    /\ t \in waiting
    /\ waiting' = waiting \ {t}
    /\ Goes(t, "lock")
    /\ UNCHANGED <<lifo, items, op, res, removed, lock>>

\* Unlock and return to the caller.
Unlock(t) ==
    /\ Owns(t, "unlock")
    /\ lock' = NoThread
    /\ op' = [op EXCEPT ![t] = Buffer!NoCall]
    /\ Comes(t, Buffer!Pending)
    /\ Goes(t, "idle")
    /\ UNCHANGED <<lifo, items, removed, waiting>>

Thread(t) ==
    \/ Call(t) \/ Lock(t) \/ PushRefused(t) \/ Evict(t) \/ Insert(t)
    \/ Signal(t) \/ PopTakes(t) \/ PopFindsNothing(t) \/ Wait(t)
    \/ Timeout(t) \/ Unlock(t)

Next == \E t \in Threads : Thread(t)

Spec == Init /\ [][Next]_vars

-----------------------------------------------------------------------------
(* Properties *)

\* Every variable holds what the code keeps there; the mutex is owned exactly
\* while its owner is between its lock and its unlock or wait.
TypeOK ==
    /\ lifo \in BOOLEAN
    /\ items \in Seq(Values)
    /\ pc \in [Threads -> Steps]
    /\ lock \in Threads \union {NoThread}
    /\ waiting = {t \in Threads : pc[t] = "waiting"}
    /\ \A t \in Threads : pc[t] \in {"body", "insert", "signal", "unlock"} <=> lock = t
    /\ \A t \in Threads : op[t] = Buffer!NoCall <=> pc[t] = "idle"

\* No consumer sleeps through an item: while some thread is asleep in Pop,
\* there are at least as many threads awake in Pop, or pushes that have yet to
\* signal, as there are items.  The one-second timeout is a safety net, not what
\* wakes consumers (queue.h:93-94, 104-120, 153-158).
Takers == {t \in Threads : op[t].kind = "pop" /\ pc[t] \in {"lock", "body"}}
Signallers == {t \in Threads : pc[t] = "signal"}

EveryItemHasATaker ==
    waiting # {} => Len(items) <= Cardinality(Takers) + Cardinality(Signallers)

\* Every Push and Pop is atomic: each call's result is that of one instant
\* between its call and its return, whatever waits, wakeups and timeouts it goes
\* through (queue.h:80-161).
Linearizable == Buffer!Spec
=============================================================================
