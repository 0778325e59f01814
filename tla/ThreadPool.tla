----------------------------- MODULE ThreadPool -----------------------------
(***************************************************************************)
(* utils/threadpool.cpp and utils/thread.cpp: a pool whose threads are     *)
(* started and stopped by one controlling thread.  The pool's mutex guards *)
(* the lists in DestroyThread and in Stop's polling loop; Start and the    *)
(* rest of Stop touch the lists without it.                                *)
(*                                                                         *)
(* RunOnce is reduced to what ends it: a NULL package (WorkThreadPool) or  *)
(* the stop counter (ThreadPool itself).                                   *)
(***************************************************************************)
EXTENDS Integers, FiniteSets

CONSTANTS Threads,      \* thread objects; a deleted one is used again
          Failures,     \* what may fail: "attr" pthread_attr_*, "create" pthread_create
          NoThread

ASSUME PoolAssumption ==
    /\ IsFiniteSet(Threads)
    /\ Failures \subseteq {"attr", "create"}
    /\ NoThread \notin Threads

VARIABLES
    counter,       \* TRUE: ThreadPool's own RunOnce and StopThreads;
                   \* FALSE: WorkThreadPool's
    live, dead,    \* livethreads, deadthreads
    object,        \* thread objects that exist
    alive,         \* those whose alive flag is set
    run,           \* what each operating-system thread is at
    requests,      \* NULL packages on the stack, or the stop counter
    ctl            \* what the controlling thread is at

vars == <<counter, live, dead, object, alive, run, requests, ctl>>

RunSteps == {"none", "run", "looked", "leaving", "left", "over"}
Working == {"run", "looked"}
CtlSteps == {"idle", "create", "alive", "append", "signal", "wait", "reap", "join"}

\* goal: threads wanted (Start) or to be stopped (Stop); have: livecount or the
\* pushes done; thread: the object in hand.
Idle == [at |-> "idle", goal |-> 0, have |-> 0, thread |-> NoThread]
At(step) == ctl.at = step
Size == Cardinality(live)

Init ==
    /\ counter \in BOOLEAN
    /\ live = {} /\ dead = {} /\ object = {} /\ alive = {}
    /\ run = [t \in Threads |-> "none"]
    /\ requests = 0
    /\ ctl = Idle

-----------------------------------------------------------------------------
(* The controlling thread: Start *)

\* Start(n) with more threads than n is Stop(Size - n).
Start(n) ==
    /\ At("idle")
    /\ Size # n
    /\ ctl' = IF Size < n
              THEN [Idle EXCEPT !.at = "create", !.goal = n, !.have = Size]
              ELSE [Idle EXCEPT !.at = "signal", !.goal = Size - n]
    /\ UNCHANGED <<counter, live, dead, object, alive, run, requests>>

\* new JobThread, and pthread_create.  Thread::Start compares its result with
\* -1, which it never is: a failure looks like a success.
CreateThread(t) ==
    /\ At("create") /\ ctl.have < ctl.goal
    /\ t \notin object /\ run[t] \in {"none", "over"}
    /\ object' = object \union {t}
    /\ \/ run' = [run EXCEPT ![t] = "run"]
       \/ "create" \in Failures /\ run' = [run EXCEPT ![t] = "none"]
    /\ ctl' = [ctl EXCEPT !.at = "alive", !.thread = t]
    /\ UNCHANGED <<counter, live, dead, alive, requests>>

\* Thread::Start fails before that: Start returns -1 and the object leaks.
StartFails(t) ==
    /\ "attr" \in Failures
    /\ At("create") /\ ctl.have < ctl.goal
    /\ t \notin object /\ run[t] \in {"none", "over"}
    /\ object' = object \union {t}
    /\ ctl' = Idle
    /\ UNCHANGED <<counter, live, dead, alive, run, requests>>

SetAlive ==
    /\ At("alive")
    /\ alive' = alive \union {ctl.thread}
    /\ ctl' = [ctl EXCEPT !.at = "append"]
    /\ UNCHANGED <<counter, live, dead, object, run, requests>>

\* livethreads.push_back, without the mutex.
AppendLive ==
    /\ At("append")
    /\ live' = live \union {ctl.thread}
    /\ ctl' = IF ctl.have + 1 < ctl.goal
              THEN [ctl EXCEPT !.at = "create", !.have = @ + 1, !.thread = NoThread]
              ELSE Idle
    /\ UNCHANGED <<counter, dead, object, alive, run, requests>>

-----------------------------------------------------------------------------
(* The controlling thread: Stop *)

\* Mutant: more threads may be asked to stop than there are.
StopMany(n) ==
    /\ At("idle")
    /\ ctl' = [Idle EXCEPT !.at = "signal", !.goal = n]
    /\ UNCHANGED <<counter, live, dead, object, alive, run, requests>>

Stop(n) ==
    /\ At("idle")
    /\ ctl' = [Idle EXCEPT !.at = "signal", !.goal = IF n < Size THEN n ELSE Size]
    /\ UNCHANGED <<counter, live, dead, object, alive, run, requests>>

\* StopThreads: the counter in one assignment, NULL packages one push at a time.
StopThreads ==
    /\ At("signal")
    /\ IF counter \/ ctl.have = ctl.goal
       THEN /\ requests' = IF counter THEN ctl.goal ELSE requests
            /\ ctl' = [ctl EXCEPT !.at = "wait"]
       ELSE /\ requests' = requests + 1
            /\ ctl' = [ctl EXCEPT !.have = @ + 1]
    /\ UNCHANGED <<counter, live, dead, object, alive, run>>

\* Mutant: the first thread to end is enough.
WaitedForOne ==
    /\ At("wait")
    /\ dead # {} \/ live = {}
    /\ ctl' = [ctl EXCEPT !.at = "reap"]
    /\ UNCHANGED <<counter, live, dead, object, alive, run, requests>>

\* The polling loop's exit, under the mutex.
Waited ==
    /\ At("wait")
    /\ Cardinality(dead) >= ctl.goal \/ live = {}
    /\ ctl' = [ctl EXCEPT !.at = "reap"]
    /\ UNCHANGED <<counter, live, dead, object, alive, run, requests>>

\* A turn of the polling loop that does not exit.
StillWaiting ==
    /\ At("wait")
    /\ Cardinality(dead) < ctl.goal /\ live # {}
    /\ UNCHANGED vars

\* Mutant: no Join before the delete.
ReapUnjoined(t) ==
    /\ At("reap")
    /\ t \in dead /\ t \in object
    /\ object' = object \ {t}
    /\ UNCHANGED <<counter, live, dead, alive, run, requests, ctl>>

\* Join looks at alive: a thread that has cleared it is not joined.
Reap(t) ==
    /\ At("reap")
    /\ t \in dead /\ t \in object
    /\ IF t \in alive
       THEN ctl' = [ctl EXCEPT !.at = "join", !.thread = t] /\ UNCHANGED object
       ELSE object' = object \ {t} /\ UNCHANGED ctl
    /\ UNCHANGED <<counter, live, dead, alive, run, requests>>

\* pthread_join returns when the thread is over; the object is deleted.
Join ==
    /\ At("join")
    /\ run[ctl.thread] = "over"
    /\ alive' = alive \ {ctl.thread}
    /\ object' = object \ {ctl.thread}
    /\ ctl' = [ctl EXCEPT !.at = "reap", !.thread = NoThread]
    /\ UNCHANGED <<counter, live, dead, run, requests>>

\* deadthreads.clear(), without the mutex; Stop returns.
ClearDead ==
    /\ At("reap")
    /\ dead \intersect object = {}
    /\ dead' = {}
    /\ ctl' = Idle
    /\ UNCHANGED <<counter, live, object, alive, run, requests>>

-----------------------------------------------------------------------------
(* A thread of the pool: JobThread::Run and __THREAD_FUNC *)

\* ThreadPool::RunOnce reads the counter without the mutex.
LooksAtStops(t) ==
    /\ counter
    /\ run[t] = "run"
    /\ requests > 0
    /\ run' = [run EXCEPT ![t] = "looked"]
    /\ UNCHANGED <<counter, live, dead, object, alive, requests, ctl>>

\* Mutant: the counter is not read again with the mutex held.
TakeUnchecked(t) ==
    /\ run[t] = IF counter THEN "looked" ELSE "run"
    /\ counter \/ requests > 0
    /\ requests' = IF requests > 0 THEN requests - 1 ELSE 0
    /\ run' = [run EXCEPT ![t] = "leaving"]
    /\ UNCHANGED <<counter, live, dead, object, alive, ctl>>

\* A request is taken under the mutex of the pool (counter) or of the stack
\* (NULL package), and RunOnce returns false.
TakeRequest(t) ==
    /\ run[t] = IF counter THEN "looked" ELSE "run"
    /\ requests > 0
    /\ requests' = requests - 1
    /\ run' = [run EXCEPT ![t] = "leaving"]
    /\ UNCHANGED <<counter, live, dead, object, alive, ctl>>

\* The counter, read again with the mutex held, is used up.
FindsNone(t) ==
    /\ run[t] = "looked"
    /\ requests = 0
    /\ run' = [run EXCEPT ![t] = "run"]
    /\ UNCHANGED <<counter, live, dead, object, alive, requests, ctl>>

\* Mutant: the thread is not listed as dead.
DestroyForgotten(t) ==
    /\ run[t] = "leaving"
    /\ live' = live \ {t}
    /\ run' = [run EXCEPT ![t] = "left"]
    /\ UNCHANGED <<counter, dead, object, alive, requests, ctl>>

\* ThreadPool::DestroyThread, under the mutex.
DestroyThread(t) ==
    /\ run[t] = "leaving"
    /\ live' = live \ {t}
    /\ dead' = dead \union {t}
    /\ run' = [run EXCEPT ![t] = "left"]
    /\ UNCHANGED <<counter, object, alive, requests, ctl>>

\* thread->alive = false; return NULL.
End(t) ==
    /\ run[t] = "left"
    /\ alive' = alive \ {t}
    /\ run' = [run EXCEPT ![t] = "over"]
    /\ UNCHANGED <<counter, live, dead, object, requests, ctl>>

-----------------------------------------------------------------------------
Calls == \E n \in 0..Cardinality(Threads) : Start(n) \/ (n > 0 /\ Stop(n))

Controller ==
    \/ \E t \in Threads : CreateThread(t) \/ StartFails(t) \/ Reap(t)
    \/ SetAlive \/ AppendLive \/ StopThreads \/ Waited \/ Join \/ ClearDead

Thread(t) ==
    LooksAtStops(t) \/ TakeRequest(t) \/ FindsNone(t) \/ DestroyThread(t) \/ End(t)

\* Leaked objects may use up the bound on thread objects.
OutOfObjects ==
    /\ At("create") /\ ctl.have < ctl.goal
    /\ \A t \in Threads : t \in object \/ run[t] \notin {"none", "over"}
    /\ ctl' = Idle
    /\ UNCHANGED <<counter, live, dead, object, alive, run, requests>>

Next == Calls \/ Controller \/ StillWaiting \/ OutOfObjects \/ \E t \in Threads : Thread(t)

Spec == Init /\ [][Next]_vars

\* The controlling thread finishes what it was called for, and every thread runs.
FairSpec ==
    /\ Spec
    /\ WF_vars(Controller)
    /\ \A t \in Threads : WF_vars(Thread(t))

-----------------------------------------------------------------------------
(* Properties *)

\* Every variable holds what the code keeps there.
TypeOK ==
    /\ counter \in BOOLEAN
    /\ live \subseteq Threads /\ dead \subseteq Threads
    /\ object \subseteq Threads /\ alive \subseteq Threads
    /\ run \in [Threads -> RunSteps]
    /\ requests \in 0..Cardinality(Threads)
    /\ ctl \in [at : CtlSteps, goal : Nat, have : Nat, thread : Threads \union {NoThread}]

\* Where the controlling thread touches the two lists without the mutex, no
\* thread is about to change them: none is in DestroyThread and none can be sent
\* there, for no stop request is left over, though a thread may have seen one and
\* still have to look again (threadpool.cpp:74, 85, 102, 119-124, 143-146).
Unlocked == {"idle", "create", "append", "reap", "join"}

UnlockedAccessSafe ==
    ctl.at \in Unlocked => requests = 0 /\ \A t \in Threads : run[t] # "leaving"

\* No thread object is deleted under its thread: the thread writes its alive
\* flag after it has put itself on the list of the dead, where Stop may find it
\* (thread.cpp:7-8, threadpool.cpp:119-122).
NoUseAfterDelete ==
    \A t \in Threads : run[t] \in Working \union {"leaving", "left"} => t \in object

\* Between calls the pool's list is its running threads: GetThreadNum and the
\* next Start or Stop count right, and Stop returned with all it was asked to
\* stop gone from the list of the dead (threadpool.cpp:74, 102, 133-136).
PoolAccurate ==
    At("idle") => live = {t \in Threads : run[t] \in Working} /\ dead = {} /\ requests = 0

\* threadpool.cpp:106: Stop waits for the threads it stops, and so returns.
StopReturns == At("signal") ~> At("idle")
=============================================================================
