---------------------------- MODULE WorkPipeline ----------------------------
(***************************************************************************)
(* A request's way through the server: the reactor thread (the main        *)
(* thread) cuts frames out of a connection's bytes and pushes each as a    *)
(* Package on the receive stack (procpack.cpp); worker threads pop, work   *)
(* on it and push it on the send stack (workthreadpool.cpp); that push     *)
(* writes a byte to a socket pair (notify.cpp), which wakes the reactor    *)
(* to drain the send stack and hand each package to its connection's       *)
(* handler (pusheventhandler.cpp).  A controlling thread stops workers by  *)
(* pushing NULL packages (StopThreads).                                    *)
(*                                                                         *)
(* One operation under a queue's mutex is one step: SyncQueue shows that   *)
(* a push or a pop is atomic.  The pool's Create and Destroy are one step  *)
(* as well, which the code does not ensure: its mutex is NullMutex.        *)
(***************************************************************************)
EXTENDS Integers, Sequences, FiniteSets

CONSTANTS Conns,        \* accepted connections
          MaxReq,       \* bound: frames a connection sends
          Workers,      \* threads of the WorkThreadPool
          Packages,     \* the objects the pool may construct (its iMaxNum_)
          InitPackages, \* those its constructor constructs (iInitNum)
          IncNum,       \* how many it constructs when it runs out (iIncNum_)
          RecvLimit,    \* limit_ of the receive stack
          SendLimit,    \* limit_ of the send stack
          QueueLimit,   \* queuelimit_ of the Procpack, 0 for none
          PipeCap,      \* bytes the notification socket buffers
          ReadMax,      \* bytes HandleInput reads at once (64)
          MaxPills,     \* bound: NULL packages StopThreads is asked to push
          Outcomes,     \* what ProcessProtocol may come to: {"destroy", "crash"}
                        \* as it is now, {"push", "destroy"} once it does work
          Nil           \* the NULL package

ASSUME PipelineAssumption ==
    /\ {MaxReq, IncNum, QueueLimit, MaxPills} \subseteq Nat
    /\ {RecvLimit, SendLimit, PipeCap, ReadMax} \subseteq Nat \ {0}
    /\ IsFiniteSet(Packages) /\ IsFiniteSet(Workers)
    /\ InitPackages \subseteq Packages
    /\ Nil \notin Packages
    /\ MaxPills <= Cardinality(Workers)      \* Stop: min(count, livethreads.size())
    /\ Outcomes \subseteq {"push", "destroy", "crash"}

Requests == Conns \X (1..MaxReq)
NoRequest == <<>>

VARIABLES
    recv, send,    \* the two stacks, top first
    pipe,          \* bytes in the notification socket
    made,          \* the packages constructed so far
    free,          \* the pool's list of free packages
    content,       \* the request in each package; NoRequest: nobody's
    worker,        \* what each worker thread is at, and the package it holds
    reactor,       \* what the reactor thread is at
    got,           \* frames read from each connection so far
    closed,        \* connections the server has closed
    pills,         \* NULL packages pushed so far
    fate,          \* what has become of each request
    fault          \* why the process died, or "none"

vars == <<recv, send, pipe, made, free, content, worker, reactor,
          got, closed, pills, fate, fault>>

Fates == {"new", "inflight", "refused", "dropped", "delivered"}
WorkerSteps == {"pop", "process", "push", "destroy", "notify", "exited"}
Holding == {"process", "push", "destroy"}      \* a worker has a package
Extracting == {"extract", "create", "push"}    \* the reactor is in Extract
ReactorSteps == {"idle", "extract", "create", "push", "drain", "deliver"}

-----------------------------------------------------------------------------
(* Helpers *)

Up == fault = "none"

Push(stack, p) == <<p>> \o stack
OnStack(stack) == {stack[i] : i \in DOMAIN stack}

WorkerAt(w, step) == Up /\ worker[w].at = step
ReactorAt(step) == Up /\ reactor.at = step
WorkerTo(w, step, p) == worker' = [worker EXCEPT ![w] = [at |-> step, pkg |-> p]]

\* Mutant: nothing is given back.
ReleaseNothing(p) == UNCHANGED <<free, content>>

\* Package::Destroy: the package goes back to the pool's free list.
Release(p) ==
    /\ free' = free \union {p}
    /\ content' = [content EXCEPT ![p] = NoRequest]

Idle == [at |-> "idle", pkg |-> Nil, conn |-> Nil, left |-> 0]

\* The request being extracted: the next frame of the connection.
Frame == <<reactor.conn, got[reactor.conn] + 1>>

Init ==
    /\ recv = <<>> /\ send = <<>> /\ pipe = 0
    /\ made = InitPackages /\ free = InitPackages
    /\ content = [p \in Packages |-> NoRequest]
    /\ worker = [w \in Workers |-> [at |-> "pop", pkg |-> Nil]]
    /\ reactor = Idle
    /\ got = [c \in Conns |-> 0]
    /\ closed = {}
    /\ pills = 0
    /\ fate = [r \in Requests |-> "new"]
    /\ fault = "none"

-----------------------------------------------------------------------------
(* The reactor thread, input side *)

\* ConnectEventHandler::HandleInput: n complete frames of c are in its buffer.
ReadChunk(c, n) ==
    /\ ReactorAt("idle")
    /\ c \notin closed
    /\ got[c] + n <= MaxReq
    /\ reactor' = [Idle EXCEPT !.at = "extract", !.conn = c, !.left = n]
    /\ UNCHANGED <<recv, send, pipe, made, free, content, worker, got, closed,
                   pills, fate, fault>>

\* recv() says 0 or fails, or the connection times out: Close().
PeerCloses(c) ==
    /\ ReactorAt("idle")
    /\ c \notin closed
    /\ closed' = closed \union {c}
    /\ UNCHANGED <<recv, send, pipe, made, free, content, worker, reactor, got,
                   pills, fate, fault>>

\* Mutant: HandleInput goes on after a failed Extract.
RefuseFrameOnly ==
    /\ fate' = [fate EXCEPT ![Frame] = "refused"]
    /\ got' = [got EXCEPT ![reactor.conn] = @ + 1]
    /\ reactor' = Idle /\ UNCHANGED closed

\* OnPackage returned -1, so Extract does, and HandleInput closes the
\* connection; the frames left in its buffer are never looked at.
RefuseFrame ==
    /\ fate' = [fate EXCEPT ![Frame] = "refused"]
    /\ got' = [got EXCEPT ![reactor.conn] = @ + 1]
    /\ closed' = closed \union {reactor.conn}
    /\ reactor' = Idle

\* Extract's loop finds no further complete frame.
ExtractDone ==
    /\ ReactorAt("extract")
    /\ reactor.left = 0
    /\ reactor' = Idle
    /\ UNCHANGED <<recv, send, pipe, made, free, content, worker, got, closed,
                   pills, fate, fault>>

\* Mutant: off by one.
BeyondQueueLimit == QueueLimit > 0 /\ Len(recv) > QueueLimit

AtQueueLimit == QueueLimit > 0 /\ Len(recv) >= QueueLimit

\* OnPackage reads the stack's size without its mutex.  queuelimit_ is what
\* SetQueueLimit gave: the constructor sets nothing (procpack.cpp:65-68).
CheckQueueLimit ==
    /\ ReactorAt("extract")
    /\ reactor.left > 0
    /\ IF AtQueueLimit
       THEN RefuseFrame
       ELSE /\ reactor' = [reactor EXCEPT !.at = "create"]
            /\ UNCHANGED <<got, closed, fate>>
    /\ UNCHANGED <<recv, send, pipe, made, free, content, worker, pills, fault>>

\* Create with a free package, which OnPackage fills.
TakePackage(p, stock) ==
    /\ free' = stock \ {p}
    /\ content' = [content EXCEPT ![p] = Frame]
    /\ reactor' = [reactor EXCEPT !.at = "push", !.pkg = p]

CreatePackage ==
    /\ ReactorAt("create")
    /\ \E p \in free : TakePackage(p, free)
    /\ UNCHANGED <<recv, send, pipe, made, worker, got, closed, pills, fate, fault>>

\* IncreaseObjects makes IncNum objects, or as many as iMaxNum_ leaves.
GrowPool ==
    /\ ReactorAt("create")
    /\ free = {} /\ made # Packages /\ IncNum > 0
    /\ \E new \in SUBSET (Packages \ made) :
          /\ \/ Cardinality(new) = IncNum
             \/ Cardinality(new) <= IncNum /\ new = Packages \ made
          /\ made' = made \union new
          /\ \E p \in new : TakePackage(p, new)
    /\ UNCHANGED <<recv, send, pipe, worker, got, closed, pills, fate, fault>>

\* IncreaseObjects says iMaxNum_ is reached: Create returns NULL.
CreateRefused ==
    /\ ReactorAt("create")
    /\ free = {} /\ made = Packages
    /\ RefuseFrame
    /\ UNCHANGED <<recv, send, pipe, made, free, content, worker, pills, fault>>

\* iIncNum_ is 0 and iMaxNum_ not reached: IncreaseObjects makes no object and
\* returns 0, and Create takes the first element of an empty list.
CreateFromEmptyList ==
    /\ ReactorAt("create")
    /\ free = {} /\ made # Packages /\ IncNum = 0
    /\ fault' = "empty_pool"
    /\ UNCHANGED <<recv, send, pipe, made, free, content, worker, reactor, got,
                   closed, pills, fate>>

PushPackage ==
    /\ ReactorAt("push")
    /\ IF Len(recv) >= RecvLimit
       THEN /\ RefuseFrame
            /\ Release(reactor.pkg)
            /\ UNCHANGED recv
       ELSE /\ recv' = Push(recv, reactor.pkg)
            /\ fate' = [fate EXCEPT ![Frame] = "inflight"]
            /\ got' = [got EXCEPT ![reactor.conn] = @ + 1]
            /\ reactor' = [reactor EXCEPT !.at = "extract", !.pkg = Nil,
                                          !.left = @ - 1]
            /\ UNCHANGED <<free, content, closed>>
    /\ UNCHANGED <<send, pipe, made, worker, pills, fault>>

-----------------------------------------------------------------------------
(* The reactor thread, output side *)

\* SocketPairHandler::HandleInput: recv takes up to ReadMax bytes, then
\* HandleEvent drains the send stack.  (EINTR leaves the bytes where they are
\* and the persistent read event fires again: a stuttering step.)
ReadNotification ==
    /\ ReactorAt("idle")
    /\ pipe > 0
    /\ pipe' = IF pipe > ReadMax THEN pipe - ReadMax ELSE 0
    /\ reactor' = [Idle EXCEPT !.at = "drain"]
    /\ UNCHANGED <<recv, send, made, free, content, worker, got, closed, pills,
                   fate, fault>>

\* HandleEvent's loop condition: Pop without blocking.
DrainPop ==
    /\ ReactorAt("drain")
    /\ send # <<>>
    /\ reactor' = [Idle EXCEPT !.at = "deliver", !.pkg = Head(send)]
    /\ send' = Tail(send)
    /\ UNCHANGED <<recv, pipe, made, free, content, worker, got, closed, pills,
                   fate, fault>>

DrainDone ==
    /\ ReactorAt("drain")
    /\ send = <<>>
    /\ reactor' = Idle
    /\ UNCHANGED <<recv, send, pipe, made, free, content, worker, got, closed,
                   pills, fate, fault>>

\* Mutant: HandleEvent pops once, with an if in place of its while.
DeliverOnce ==
    /\ ReactorAt("deliver")
    /\ fate' = [fate EXCEPT ![content[reactor.pkg]] = "delivered"]
    /\ Release(reactor.pkg)
    /\ reactor' = Idle
    /\ UNCHANGED <<recv, send, pipe, made, worker, got, closed, pills, fault>>

\* The body of HandleEvent's loop: the package's connection gets its answer
\* and the package is destroyed.
Deliver ==
    /\ ReactorAt("deliver")
    /\ fate' = [fate EXCEPT ![content[reactor.pkg]] = "delivered"]
    /\ Release(reactor.pkg)
    /\ reactor' = [Idle EXCEPT !.at = "drain"]
    /\ UNCHANGED <<recv, send, pipe, made, worker, got, closed, pills, fault>>

-----------------------------------------------------------------------------
(* Worker threads: WorkThreadPool::RunOnce, called in JobThread::Run's loop *)

\* The blocking Pop; on NULL, RunOnce returns false and the thread ends.
WorkerPop(w) ==
    /\ WorkerAt(w, "pop")
    /\ recv # <<>>
    /\ WorkerTo(w, IF Head(recv) = Nil THEN "exited" ELSE "process", Head(recv))
    /\ recv' = Tail(recv)
    /\ UNCHANGED <<send, pipe, made, free, content, reactor, got, closed, pills,
                   fate, fault>>

\* No processor of that id or ProcessProtocol says false: the guard destroys
\* the package.  Otherwise it goes on to the send stack.
WorkerProcess(w) ==
    /\ WorkerAt(w, "process")
    /\ \E step \in Outcomes \ {"crash"} : WorkerTo(w, step, worker[w].pkg)
    /\ UNCHANGED <<recv, send, pipe, made, free, content, reactor, got, closed,
                   pills, fate, fault>>

\* As the code is now: CreateDataBlock returns NULL and ProcessProtocol clears it.
WorkerProcessUnready(w) ==
    /\ WorkerAt(w, "process")
    /\ "crash" \in Outcomes
    /\ fault' = "null_datablock"
    /\ UNCHANGED <<recv, send, pipe, made, free, content, worker, reactor, got,
                   closed, pills, fate>>

WorkerPush(w) ==
    /\ WorkerAt(w, "push")
    /\ IF Len(send) >= SendLimit
       THEN /\ WorkerTo(w, "destroy", worker[w].pkg)      \* OnOutputQueueFull
            /\ UNCHANGED send
       ELSE /\ send' = Push(send, worker[w].pkg)
            /\ WorkerTo(w, "notify", Nil)                  \* Dismiss
    /\ UNCHANGED <<recv, pipe, made, free, content, reactor, got, closed, pills,
                   fate, fault>>

\* packageDestroyGuard at the end of RunOnce's scope.
WorkerDestroy(w) ==
    /\ WorkerAt(w, "destroy")
    /\ fate' = [fate EXCEPT ![content[worker[w].pkg]] = "dropped"]
    /\ Release(worker[w].pkg)
    /\ WorkerTo(w, "pop", Nil)
    /\ UNCHANGED <<recv, send, pipe, made, reactor, got, closed, pills, fault>>

\* SocketNotification::notify, after the mutex is released; a byte that does
\* not fit is lost, for send's result is not looked at.
WorkerNotify(w) ==
    /\ WorkerAt(w, "notify")
    /\ pipe' = IF pipe < PipeCap THEN pipe + 1 ELSE pipe
    /\ WorkerTo(w, "pop", Nil)
    /\ UNCHANGED <<recv, send, made, free, content, reactor, got, closed, pills,
                   fate, fault>>

-----------------------------------------------------------------------------
\* Mutant: the pills ignore the stack's limit.
StopThreadsUnlimited ==
    /\ Up /\ pills < MaxPills
    /\ recv' = Push(recv, Nil) /\ pills' = pills + 1
    /\ UNCHANGED <<send, pipe, made, free, content, worker, reactor, got, closed,
                   fate, fault>>

\* Mutant: a push that failed counts.
StopThreadsOnce ==
    /\ Up /\ pills < MaxPills
    /\ recv' = IF Len(recv) < RecvLimit THEN Push(recv, Nil) ELSE recv
    /\ pills' = pills + 1
    /\ UNCHANGED <<send, pipe, made, free, content, worker, reactor, got, closed,
                   fate, fault>>

(* The thread that stops workers: one turn of StopThreads' loop.  A full    *)
(* stack makes it sleep and try again.                                      *)
StopThreads ==
    /\ Up
    /\ pills < MaxPills
    /\ Len(recv) < RecvLimit
    /\ recv' = Push(recv, Nil)
    /\ pills' = pills + 1
    /\ UNCHANGED <<send, pipe, made, free, content, worker, reactor, got, closed,
                   fate, fault>>

-----------------------------------------------------------------------------
ReactorInput ==
    \/ ExtractDone \/ CheckQueueLimit \/ CreatePackage \/ GrowPool
    \/ CreateRefused \/ CreateFromEmptyList \/ PushPackage

ReactorOutput == ReadNotification \/ DrainPop \/ DrainDone \/ Deliver

Worker(w) ==
    \/ WorkerPop(w) \/ WorkerProcess(w) \/ WorkerProcessUnready(w)
    \/ WorkerPush(w) \/ WorkerDestroy(w) \/ WorkerNotify(w)

\* Nothing is under way and no client sends: the reactor sleeps in its poll
\* and the workers in Pop.  Or the process has died.
Rest ==
    /\ \/ ~Up
       \/ /\ reactor = Idle /\ pipe = 0 /\ send = <<>>
          /\ \A c \in Conns : c \in closed \/ got[c] = MaxReq
          /\ \A w \in Workers : worker[w].at = "exited"
                                \/ (worker[w].at = "pop" /\ recv = <<>>)
          /\ pills = MaxPills \/ Len(recv) >= RecvLimit
    /\ UNCHANGED vars

Next ==
    \/ \E c \in Conns : PeerCloses(c) \/ \E n \in 1..MaxReq : ReadChunk(c, n)
    \/ ReactorInput
    \/ ReactorOutput
    \/ \E w \in Workers : Worker(w)
    \/ StopThreads
    \/ Rest

Spec == Init /\ [][Next]_vars

\* A callback of the reactor runs to its end, its poll reports the readable
\* notification socket, and every worker is scheduled.  Nothing makes clients
\* send or the controlling thread stop anybody.
Fairness ==
    /\ WF_vars(ReactorInput)
    /\ SF_vars(ReactorOutput)
    /\ \A w \in Workers : WF_vars(Worker(w))

FairSpec == Spec /\ Fairness
-----------------------------------------------------------------------------
(* Properties *)

\* Every variable holds what the code keeps there and the bounds are kept; a
\* thread has a package, a connection and frames to read when it is at a step
\* that uses them, and only constructed packages are about.
StacksOK ==
    /\ recv \in Seq(made \union {Nil}) /\ Len(recv) <= RecvLimit
    /\ send \in Seq(made) /\ Len(send) <= SendLimit
    /\ pipe \in 0..PipeCap
    /\ pills \in 0..MaxPills

PoolOK ==
    /\ made \subseteq Packages
    /\ free \subseteq made
    /\ content \in [Packages -> Requests \union {NoRequest}]

WorkersOK ==
    /\ worker \in [Workers -> [at : WorkerSteps, pkg : made \union {Nil}]]
    /\ \A w \in Workers : worker[w].pkg # Nil <=> worker[w].at \in Holding

ReactorOK ==
    /\ reactor \in [at : ReactorSteps, pkg : made \union {Nil},
                     conn : Conns \union {Nil}, left : Nat]
    /\ reactor.pkg # Nil <=> reactor.at \in {"push", "deliver"}
    /\ reactor.at \in Extracting => /\ reactor.conn \in Conns
                                    /\ got[reactor.conn] + reactor.left <= MaxReq
    /\ reactor.at \in {"create", "push"} => reactor.left > 0
    /\ got \in [Conns -> 0..MaxReq]
    /\ closed \subseteq Conns

FatesOK ==
    /\ fate \in [Requests -> Fates]
    /\ fault \in {"none", "empty_pool", "null_datablock"}

TypeOK == StacksOK /\ PoolOK /\ WorkersOK /\ ReactorOK /\ FatesOK

\* No response is stranded: while the send stack holds a package, the reactor
\* is draining it, or a byte waits in the notification socket, or some worker
\* is between its push and its notify.  Bytes that do not fit may be lost, and
\* one read may swallow the bytes of several pushes (queue.h:25-32,
\* notify.cpp:7, socketpairhandler.cpp:34, pusheventhandler.cpp:19).
NoLostWakeup ==
    send # <<>> => \/ pipe > 0
                   \/ reactor.at \in {"drain", "deliver"}
                   \/ \E w \in Workers : worker[w].at = "notify"

\* A constructed package is in exactly one place: the free list, a stack, the
\* hands of one worker or of the reactor.  None leaks on an error path and none
\* is destroyed while somebody else still has it (workthreadpool.cpp:249-275,
\* procpack.cpp:92-94, pusheventhandler.cpp:19-39).
NoTwice(stack) ==
    \A i, j \in DOMAIN stack : stack[i] = stack[j] /\ stack[i] # Nil => i = j

WorkersHold == {worker[w].pkg : w \in Workers}

HandsDistinct ==
    \A v, w \in Workers : worker[v].pkg = worker[w].pkg /\ worker[v].pkg # Nil => v = w

OnePlace ==
    \A p \in made :
        /\ p \in OnStack(recv) => p \notin OnStack(send)
        /\ p \in WorkersHold => p \notin OnStack(recv) \union OnStack(send)
        /\ p = reactor.pkg => p \notin OnStack(recv) \union OnStack(send) \union WorkersHold
        /\ p \in free <=> /\ p \notin OnStack(recv) \union OnStack(send)
                         /\ p \notin WorkersHold \union {reactor.pkg}

OneOwner == NoTwice(recv) /\ NoTwice(send) /\ HandsDistinct /\ OnePlace

\* A request is in flight exactly while one package on its way through the
\* threads carries it; two packages never carry the same request, and a package
\* given back to the pool carries none (procpack.cpp:77-92).
Carries(p, r) ==
    content[p] = r /\ ~(reactor.at = "push" /\ reactor.pkg = p)

RequestCarried ==
    /\ \A r \in Requests : fate[r] = "inflight" <=> \E p \in made \ free : Carries(p, r)
    /\ \A p, q \in Packages : content[p] = content[q] /\ content[p] # NoRequest => p = q
    /\ \A p \in free : content[p] = NoRequest

\* Every NULL package is still on the stack or has stopped one worker: a pill
\* stops one thread, and none is destroyed, answered or lost in the stack's
\* competition with packages (workthreadpool.cpp:244-247, 423-434).
Pills == {i \in DOMAIN recv : recv[i] = Nil}
Exited == {w \in Workers : worker[w].at = "exited"}

PillsAccounted == Cardinality(Pills) + Cardinality(Exited) = pills

\* The unlocked size check and the push that follows it are apart, yet the
\* packages on the receive stack never exceed queuelimit_: only the reactor
\* thread pushes packages there (procpack.cpp:72-92).
QueueLimitKept ==
    QueueLimit > 0 => Cardinality(DOMAIN recv \ Pills) <= QueueLimit

\* What procpack.cpp:79 says of a pool with nothing left: creating fails and
\* the frame is refused; the process goes on.
ExhaustionRefused == fault # "empty_pool"

\* The pipeline keeps the server's promise to its clients.
Service == INSTANCE RequestService
    WITH Capacity <- Cardinality(Packages), down <- fault # "none"

\* Requests are admitted in the order sent, none after a refused one, settled
\* once, and no more in flight than there are packages.
KeepsPromise == Service!SafetySpec

\* Where a worker is left, every admitted request is delivered or dropped
\* unless the process dies: no package waits for ever for a worker, a byte or
\* the reactor.
SettlesAll == Service!Spec

\* Stop gets its workers: every pill pushed ends a worker although packages
\* compete for the same stack (threadpool.cpp:96-117).
PillsStopWorkers == \A n \in 1..MaxPills : pills = n ~> Cardinality(Exited) >= n \/ ~Up
=============================================================================
