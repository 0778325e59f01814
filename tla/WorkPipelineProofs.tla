------------------------- MODULE WorkPipelineProofs -------------------------
(***************************************************************************)
(* Proofs about WorkPipeline for any number of connections, requests,      *)
(* workers and packages, and any limits: its types, its wake-ups, its NULL *)
(* packages and its limit; that a package is always in exactly one place;  *)
(* and that it implements RequestService: requests are admitted in the     *)
(* order sent, settled once, and never more in flight than packages.       *)
(***************************************************************************)
EXTENDS WorkPipeline, TLAPS, SequenceTheorems, FunctionTheorems, FiniteSetTheorems

-----------------------------------------------------------------------------
(* The two stack operations *)

\* Pushing puts one element in front of a stack and keeps it free of doubles if
\* the element was not on it (SyncStack::PushImp).
LEMMA PushFacts ==
    ASSUME NEW S, NEW s \in Seq(S), NEW p \in S
    PROVE  /\ Push(s, p) \in Seq(S)
           /\ Len(Push(s, p)) = Len(s) + 1
           /\ OnStack(Push(s, p)) = {p} \union OnStack(s)
           /\ Push(s, p) # <<>>
           /\ NoTwice(s) /\ (p = Nil \/ p \notin OnStack(s)) => NoTwice(Push(s, p))
<1> DEFINE t == Push(s, p)
<1>1. <<p>> \in Seq(S) /\ Len(<<p>>) = 1 /\ <<p>>[1] = p
    OBVIOUS
<1>2. /\ t \in Seq(S)
      /\ Len(t) = Len(s) + 1
      /\ \A i \in 1..(Len(s) + 1) : t[i] = IF i <= 1 THEN p ELSE s[i - 1]
    BY <1>1, ConcatProperties DEF Push
<1>3. Len(s) \in Nat /\ DOMAIN s = 1..Len(s) /\ DOMAIN t = 1..(Len(s) + 1)
    BY <1>2, LenProperties
<1>4. t[1] = p /\ \A i \in DOMAIN s : i + 1 \in DOMAIN t /\ t[i + 1] = s[i]
    BY <1>2, <1>3
<1>5. \A i \in DOMAIN t : i = 1 \/ (i - 1 \in DOMAIN s /\ t[i] = s[i - 1])
    BY <1>2, <1>3
<1>6. OnStack(t) = {p} \union OnStack(s)
    BY <1>3, <1>4, <1>5 DEF OnStack
<1>7. t # <<>>
    BY <1>2, <1>3
<1>8. ASSUME NoTwice(s), p = Nil \/ p \notin OnStack(s)
      PROVE  NoTwice(t)
    <2> SUFFICES ASSUME NEW i \in DOMAIN t, NEW j \in DOMAIN t, t[i] = t[j], t[i] # Nil
                 PROVE  i = j
        BY DEF NoTwice
    <2>1. CASE i = 1 \/ j = 1
        BY <2>1, <1>3, <1>4, <1>5, <1>8 DEF OnStack
    <2>2. CASE i # 1 /\ j # 1
        BY <2>2, <1>3, <1>5, <1>8 DEF NoTwice
    <2> QED BY <2>1, <2>2
<1> QED BY <1>2, <1>6, <1>7, <1>8

\* Popping takes the top off a stack, and where no package is on it twice the
\* rest no longer holds the one popped (SyncQueue::PopImp).
LEMMA PopFacts ==
    ASSUME NEW S, NEW s \in Seq(S), s # <<>>
    PROVE  /\ Head(s) \in S
           /\ Tail(s) \in Seq(S)
           /\ Len(Tail(s)) = Len(s) - 1
           /\ OnStack(s) = {Head(s)} \union OnStack(Tail(s))
           /\ NoTwice(s) => NoTwice(Tail(s))
           /\ NoTwice(s) /\ Head(s) # Nil => Head(s) \notin OnStack(Tail(s))
<1> DEFINE t == Tail(s)
<1>1. /\ Head(s) \in S
      /\ t \in Seq(S)
      /\ Len(t) = Len(s) - 1
      /\ \A i \in 1..Len(t) : t[i] = s[i + 1]
    BY HeadTailProperties
<1>2. Len(s) \in Nat \ {0} /\ DOMAIN s = 1..Len(s) /\ DOMAIN t = 1..(Len(s) - 1)
    BY <1>1, LenProperties, EmptySeq
<1>3. Head(s) = s[1]
    OBVIOUS
<1>4. \A i \in DOMAIN t : i + 1 \in DOMAIN s /\ i + 1 # 1 /\ t[i] = s[i + 1]
    BY <1>1, <1>2
<1>5. \A i \in DOMAIN s : i = 1 \/ (i - 1 \in DOMAIN t /\ t[i - 1] = s[i])
    BY <1>1, <1>2
<1>6. OnStack(s) = {Head(s)} \union OnStack(t)
    <2>1. \A x \in OnStack(s) : x = Head(s) \/ x \in OnStack(t)
        BY <1>3, <1>5 DEF OnStack
    <2>2. Head(s) \in OnStack(s)
        BY <1>2, <1>3 DEF OnStack
    <2>3. OnStack(t) \subseteq OnStack(s)
        BY <1>4 DEF OnStack
    <2> QED BY <2>1, <2>2, <2>3
<1>7. NoTwice(s) => NoTwice(t)
    BY <1>2, <1>4 DEF NoTwice
<1>8. ASSUME NoTwice(s), Head(s) # Nil
      PROVE  Head(s) \notin OnStack(t)
    BY <1>8, <1>2, <1>3, <1>4 DEF OnStack, NoTwice
<1> QED BY <1>1, <1>6, <1>7, <1>8

\* Nothing is on an empty stack.
LEMMA EmptyStack == OnStack(<<>>) = {} /\ NoTwice(<<>>)
BY DEF OnStack, NoTwice

-----------------------------------------------------------------------------
(* The type invariant, which is inductive *)

\* The reactor's record after a step, field by field.
ReactorIs(step, p, c, n) == reactor' = [at |-> step, pkg |-> p, conn |-> c, left |-> n]

\* A state of the reactor that its type allows.
LEMMA ReactorTyped ==
    ASSUME NEW step \in ReactorSteps, NEW p, NEW c \in Conns \union {Nil}, NEW n \in Nat,
           ReactorIs(step, p, c, n), PoolOK', p \in made' \union {Nil},
           p # Nil <=> step \in {"push", "deliver"},
           step \in Extracting => c \in Conns /\ got'[c] + n <= MaxReq,
           step \in {"create", "push"} => n > 0,
           got' \in [Conns -> 0..MaxReq], closed' \subseteq Conns
    PROVE  ReactorOK'
BY DEF ReactorIs, ReactorOK

\* A step of one worker, to a state that its type allows.
LEMMA WorkerTyped ==
    ASSUME WorkersOK, NEW w \in Workers, NEW step \in WorkerSteps, NEW p \in made \union {Nil},
           WorkerTo(w, step, p), p # Nil <=> step \in Holding, UNCHANGED made
    PROVE  WorkersOK'
BY DEF WorkersOK, WorkerTo

\* The frame at hand is a request the client may send.
LEMMA FrameIsRequest ==
    ASSUME TypeOK, reactor.at \in Extracting, reactor.left > 0
    PROVE  /\ Frame \in Requests
           /\ reactor.conn \in Conns
           /\ got[reactor.conn] + 1 \in 0..MaxReq
           /\ reactor.left \in Nat \ {0}
<1>1. /\ reactor.conn \in Conns /\ got[reactor.conn] \in 0..MaxReq /\ reactor.left \in Nat
      /\ got[reactor.conn] + reactor.left <= MaxReq
    BY DEF TypeOK, ReactorOK
<1>2. got[reactor.conn] + 1 \in 1..MaxReq
    BY <1>1, PipelineAssumption
<1> QED BY <1>1, <1>2, PipelineAssumption DEF Frame, Requests

\* The server starts with its variables as they should be.
LEMMA TypeInit == Init => TypeOK
<1> SUFFICES ASSUME Init PROVE TypeOK
    OBVIOUS
<1> USE PipelineAssumption DEF Init
<1>1. StacksOK
    BY EmptySeq DEF StacksOK
<1>2. PoolOK /\ WorkersOK /\ FatesOK
    BY DEF PoolOK, WorkersOK, FatesOK, WorkerSteps, Holding, Fates
<1>3. ReactorOK
    BY DEF ReactorOK, Idle, ReactorSteps, Extracting
<1> QED BY <1>1, <1>2, <1>3 DEF TypeOK

\* Closing the connection of a refused frame.
LEMMA RefuseKeepsType ==
    ASSUME TypeOK, RefuseFrame, reactor.at \in Extracting, reactor.left > 0, PoolOK'
    PROVE  ReactorOK' /\ (UNCHANGED fault => FatesOK')
<1>1. ReactorIs("idle", Nil, Nil, 0)
    BY DEF RefuseFrame, Idle, ReactorIs
<1>2. got' \in [Conns -> 0..MaxReq] /\ closed' \subseteq Conns
    BY FrameIsRequest DEF RefuseFrame, TypeOK, ReactorOK
<1>3. ReactorOK'
    BY <1>1, <1>2, ReactorTyped DEF ReactorSteps, Extracting
<1>4. UNCHANGED fault => FatesOK'
    BY DEF RefuseFrame, TypeOK, FatesOK, Fates
<1> QED BY <1>3, <1>4

\* Every step of every thread keeps the variables as they should be.
LEMMA TypeNext == TypeOK /\ [Next]_vars => TypeOK'
<1> SUFFICES ASSUME TypeOK, [Next]_vars PROVE TypeOK'
    OBVIOUS
<1> USE PipelineAssumption DEF TypeOK
<1>1. ASSUME NEW c \in Conns, PeerCloses(c) PROVE TypeOK'
    BY <1>1 DEF PeerCloses, StacksOK, PoolOK, WorkersOK, ReactorOK, FatesOK
<1>2. ASSUME NEW c \in Conns, NEW n \in 1..MaxReq, ReadChunk(c, n) PROVE TypeOK'
    <2>1. StacksOK' /\ PoolOK' /\ WorkersOK' /\ FatesOK'
        BY <1>2 DEF ReadChunk, StacksOK, PoolOK, WorkersOK, FatesOK
    <2>2. ReactorIs("extract", Nil, c, n)
        BY <1>2 DEF ReadChunk, Idle, ReactorIs
    <2>3. /\ n \in Nat /\ n > 0 /\ got[c] + n <= MaxReq
          /\ UNCHANGED <<got, closed, made>>
        BY <1>2 DEF ReadChunk
    <2>4. reactor' \in [at : ReactorSteps, pkg : made' \union {Nil},
                        conn : Conns \union {Nil}, left : Nat]
        BY <2>2, <2>3 DEF ReactorIs, ReactorSteps
    <2>5. ReactorOK'
        BY <2>2, <2>3, <2>4 DEF ReactorIs, ReactorOK, Extracting
    <2> QED BY <2>1, <2>5
<1>3. CASE ExtractDone
    <2>1. StacksOK' /\ PoolOK' /\ WorkersOK' /\ FatesOK'
        BY <1>3 DEF ExtractDone, StacksOK, PoolOK, WorkersOK, FatesOK
    <2>2. ReactorIs("idle", Nil, Nil, 0)
        BY <1>3 DEF ExtractDone, Idle, ReactorIs
    <2>3. ReactorOK'
        BY <1>3, <2>1, <2>2, ReactorTyped DEF ExtractDone, ReactorOK, ReactorSteps, Extracting
    <2> QED BY <2>1, <2>3
<1>4. CASE CheckQueueLimit
    <2>1. StacksOK' /\ PoolOK' /\ WorkersOK'
        BY <1>4 DEF CheckQueueLimit, StacksOK, PoolOK, WorkersOK
    <2>2. reactor.at \in Extracting /\ reactor.at = "extract" /\ reactor.left > 0
        BY <1>4 DEF CheckQueueLimit, ReactorAt, Extracting
    <2>3. CASE RefuseFrame
        BY <1>4, <2>1, <2>2, <2>3, RefuseKeepsType DEF CheckQueueLimit
    <2>4. CASE ~RefuseFrame
        <3>1. ReactorIs("create", reactor.pkg, reactor.conn, reactor.left)
            BY <1>4, <2>4 DEF CheckQueueLimit, ReactorOK, ReactorIs
        <3>2. ReactorOK'
            BY <1>4, <2>1, <2>2, <2>4, <3>1, ReactorTyped
               DEF CheckQueueLimit, ReactorOK, ReactorSteps, Extracting, PoolOK
        <3>3. FatesOK'
            BY <1>4, <2>4 DEF CheckQueueLimit, FatesOK
        <3> QED BY <2>1, <3>2, <3>3
    <2> QED BY <2>3, <2>4
<1>5. CASE CreatePackage
    <2>1. PICK p \in free : TakePackage(p, free)
        BY <1>5 DEF CreatePackage
    <2>2. reactor.at = "create" /\ reactor.at \in Extracting /\ reactor.left > 0
        BY <1>5 DEF CreatePackage, ReactorAt, Extracting, ReactorOK
    <2>3. StacksOK' /\ WorkersOK' /\ FatesOK'
        BY <1>5 DEF CreatePackage, StacksOK, WorkersOK, FatesOK
    <2>4. PoolOK'
        BY <1>5, <2>1, <2>2, FrameIsRequest DEF CreatePackage, TakePackage, PoolOK
    <2>5. ReactorIs("push", p, reactor.conn, reactor.left)
        BY <2>1 DEF TakePackage, ReactorOK, ReactorIs
    <2>6. ReactorOK'
        BY <1>5, <2>1, <2>2, <2>4, <2>5, ReactorTyped
           DEF CreatePackage, ReactorOK, ReactorSteps, Extracting, PoolOK
    <2> QED BY <2>3, <2>4, <2>6
<1>6. CASE GrowPool
    <2>0. PICK new \in SUBSET (Packages \ made) :
              made' = made \union new /\ \E p \in new : TakePackage(p, new)
        BY <1>6 DEF GrowPool
    <2>1. PICK p \in new : TakePackage(p, new)
        BY <2>0
    <2>2. made \subseteq made' /\ made' \subseteq Packages /\ p \in made' /\ p # Nil
        BY <2>0 DEF PoolOK
    <2>3. reactor.at = "create" /\ reactor.at \in Extracting /\ reactor.left > 0
        BY <1>6 DEF GrowPool, ReactorAt, Extracting, ReactorOK
    <2>4. StacksOK'
        <3>1. made \union {Nil} \subseteq made' \union {Nil}
            BY <2>2
        <3>2. recv \in Seq(made' \union {Nil}) /\ send \in Seq(made')
            BY <2>2, <3>1, SeqMonotonic DEF StacksOK
        <3> QED BY <1>6, <3>2 DEF GrowPool, StacksOK
    <2>5. WorkersOK'
        BY <1>6, <2>2 DEF GrowPool, WorkersOK
    <2>6. PoolOK' /\ FatesOK'
        BY <1>6, <2>0, <2>1, <2>2, <2>3, FrameIsRequest DEF GrowPool, TakePackage, PoolOK, FatesOK
    <2>7. ReactorIs("push", p, reactor.conn, reactor.left)
        BY <2>1 DEF TakePackage, ReactorOK, ReactorIs
    <2>8. ReactorOK'
        BY <1>6, <2>2, <2>3, <2>6, <2>7, ReactorTyped
           DEF GrowPool, ReactorOK, ReactorSteps, Extracting
    <2> QED BY <2>4, <2>5, <2>6, <2>8
<1>7. CASE CreateRefused
    <2>1. reactor.at \in Extracting /\ reactor.left > 0
        BY <1>7 DEF CreateRefused, ReactorAt, Extracting, ReactorOK
    <2>2. StacksOK' /\ PoolOK' /\ WorkersOK'
        BY <1>7 DEF CreateRefused, StacksOK, PoolOK, WorkersOK
    <2> QED BY <1>7, <2>1, <2>2, RefuseKeepsType DEF CreateRefused
<1>8. CASE CreateFromEmptyList
    BY <1>8 DEF CreateFromEmptyList, StacksOK, PoolOK, WorkersOK, ReactorOK, FatesOK
<1>9. CASE PushPackage
    <2>1. /\ reactor.at = "push" /\ reactor.at \in Extracting /\ reactor.left > 0
          /\ reactor.pkg \in made /\ Len(recv) \in Nat
        BY <1>9, LenProperties DEF PushPackage, ReactorAt, Extracting, ReactorOK, StacksOK
    <2>2. WorkersOK'
        BY <1>9 DEF PushPackage, WorkersOK
    <2>3. CASE Len(recv) >= RecvLimit
        <3>1. RefuseFrame /\ Release(reactor.pkg) /\ UNCHANGED <<recv, send, pipe, made, pills, fault>>
            BY <1>9, <2>3 DEF PushPackage
        <3>2. StacksOK' /\ PoolOK'
            BY <2>1, <3>1 DEF StacksOK, PoolOK, Release
        <3> QED BY <2>1, <2>2, <3>1, <3>2, RefuseKeepsType
    <2>4. CASE ~(Len(recv) >= RecvLimit)
        <3>0. recv' = Push(recv, reactor.pkg) /\ UNCHANGED <<send, pipe, made, free, content, pills, fault>>
            BY <1>9, <2>4 DEF PushPackage
        <3>1. recv' \in Seq(made \union {Nil}) /\ Len(recv') = Len(recv) + 1
            <4>1. recv \in Seq(made \union {Nil}) /\ reactor.pkg \in made \union {Nil}
                BY <2>1 DEF StacksOK
            <4> QED BY <3>0, <4>1, PushFacts
        <3>2. StacksOK' /\ PoolOK' /\ FatesOK'
            <4>1. StacksOK'
                BY <2>1, <2>4, <3>0, <3>1 DEF StacksOK
            <4>2. PoolOK'
                BY <3>0 DEF PoolOK
            <4>3. FatesOK'
                BY <1>9, <2>4, <3>0 DEF PushPackage, FatesOK, Fates
            <4> QED BY <4>1, <4>2, <4>3
        <3>3. ReactorIs("extract", Nil, reactor.conn, reactor.left - 1)
            BY <1>9, <2>4 DEF PushPackage, ReactorOK, ReactorIs
        <3>4. /\ got' = [got EXCEPT ![reactor.conn] = got[reactor.conn] + 1]
              /\ got' \in [Conns -> 0..MaxReq]
              /\ closed' \subseteq Conns
            BY <1>9, <2>1, <2>4, FrameIsRequest DEF PushPackage, ReactorOK
        <3>5. reactor.left - 1 \in Nat /\ got'[reactor.conn] + (reactor.left - 1) <= MaxReq
            BY <2>1, <3>4, FrameIsRequest, SMTT(30) DEF ReactorOK
        <3>6. ReactorOK'
            BY <2>1, <3>2, <3>3, <3>4, <3>5, FrameIsRequest, ReactorTyped
               DEF ReactorSteps, Extracting
        <3> QED BY <2>2, <3>2, <3>6
    <2> QED BY <2>3, <2>4
<1>10. CASE ReadNotification
    <2>1. StacksOK' /\ PoolOK' /\ WorkersOK' /\ FatesOK'
        BY <1>10 DEF ReadNotification, StacksOK, PoolOK, WorkersOK, FatesOK
    <2>2. ReactorIs("drain", Nil, Nil, 0)
        BY <1>10 DEF ReadNotification, Idle, ReactorIs
    <2>3. ReactorOK'
        BY <1>10, <2>1, <2>2, ReactorTyped DEF ReadNotification, ReactorOK, ReactorSteps, Extracting
    <2> QED BY <2>1, <2>3
<1>11. CASE DrainPop
    <2>1. /\ Head(send) \in made /\ Head(send) # Nil
          /\ Tail(send) \in Seq(made) /\ Len(Tail(send)) <= SendLimit
        BY <1>11, PopFacts, LenProperties DEF DrainPop, StacksOK, PoolOK
    <2>2. StacksOK' /\ PoolOK' /\ WorkersOK' /\ FatesOK'
        BY <1>11, <2>1 DEF DrainPop, StacksOK, PoolOK, WorkersOK, FatesOK
    <2>3. ReactorIs("deliver", Head(send), Nil, 0)
        BY <1>11 DEF DrainPop, Idle, ReactorIs
    <2>4. ReactorOK'
        BY <1>11, <2>1, <2>2, <2>3, ReactorTyped DEF DrainPop, ReactorOK, ReactorSteps, Extracting
    <2> QED BY <2>2, <2>4
<1>12. CASE DrainDone
    <2>1. StacksOK' /\ PoolOK' /\ WorkersOK' /\ FatesOK'
        BY <1>12 DEF DrainDone, StacksOK, PoolOK, WorkersOK, FatesOK
    <2>2. ReactorIs("idle", Nil, Nil, 0)
        BY <1>12 DEF DrainDone, Idle, ReactorIs
    <2>3. ReactorOK'
        BY <1>12, <2>1, <2>2, ReactorTyped DEF DrainDone, ReactorOK, ReactorSteps, Extracting
    <2> QED BY <2>1, <2>3
<1>13. CASE Deliver
    <2>1. StacksOK' /\ WorkersOK' /\ FatesOK'
        BY <1>13 DEF Deliver, StacksOK, WorkersOK, FatesOK, Fates
    <2>2. PoolOK'
        BY <1>13 DEF Deliver, Release, ReactorAt, ReactorOK, PoolOK
    <2>3. ReactorIs("drain", Nil, Nil, 0)
        BY <1>13 DEF Deliver, Idle, ReactorIs
    <2>4. ReactorOK'
        BY <1>13, <2>2, <2>3, ReactorTyped DEF Deliver, ReactorOK, ReactorSteps, Extracting
    <2> QED BY <2>1, <2>2, <2>4
<1>14. ASSUME NEW w \in Workers, WorkerPop(w) PROVE TypeOK'
    <2>1. /\ Head(recv) \in made \union {Nil}
          /\ Tail(recv) \in Seq(made \union {Nil})
          /\ Len(Tail(recv)) <= RecvLimit
        BY <1>14, PopFacts, LenProperties DEF WorkerPop, StacksOK
    <2>2. StacksOK' /\ PoolOK' /\ ReactorOK' /\ FatesOK'
        BY <1>14, <2>1 DEF WorkerPop, StacksOK, PoolOK, ReactorOK, FatesOK
    <2>3. WorkersOK'
        BY <1>14, <2>1, WorkerTyped DEF WorkerPop, WorkerSteps, Holding
    <2> QED BY <2>2, <2>3
<1>15. ASSUME NEW w \in Workers, WorkerProcess(w) PROVE TypeOK'
    <2>1. StacksOK' /\ PoolOK' /\ ReactorOK' /\ FatesOK'
        BY <1>15 DEF WorkerProcess, StacksOK, PoolOK, ReactorOK, FatesOK
    <2>2. worker[w].pkg \in made \union {Nil} /\ worker[w].pkg # Nil
        BY <1>15 DEF WorkerProcess, WorkerAt, WorkersOK, Holding
    <2>3. WorkersOK'
        BY <1>15, <2>2, WorkerTyped DEF WorkerProcess, WorkerSteps, Holding
    <2> QED BY <2>1, <2>3
<1>16. ASSUME NEW w \in Workers, WorkerProcessUnready(w) PROVE TypeOK'
    <2>1. StacksOK' /\ PoolOK' /\ ReactorOK' /\ FatesOK'
        BY <1>16 DEF WorkerProcessUnready, StacksOK, PoolOK, ReactorOK, FatesOK
    <2>2. WorkersOK'
        BY <1>16 DEF WorkerProcessUnready, WorkersOK
    <2> QED BY <2>1, <2>2
<1>17. ASSUME NEW w \in Workers, WorkerPush(w) PROVE TypeOK'
    <2>1. PoolOK' /\ ReactorOK' /\ FatesOK'
        BY <1>17 DEF WorkerPush, PoolOK, ReactorOK, FatesOK
    <2>2. worker[w].pkg \in made /\ worker[w].pkg # Nil
        BY <1>17 DEF WorkerPush, WorkerAt, WorkersOK, Holding
    <2>3. CASE Len(send) >= SendLimit
        <3>1. StacksOK'
            BY <1>17, <2>3 DEF WorkerPush, StacksOK
        <3>2. WorkersOK'
            BY <1>17, <2>2, <2>3, WorkerTyped DEF WorkerPush, WorkerSteps, Holding
        <3> QED BY <2>1, <3>1, <3>2
    <2>4. CASE ~(Len(send) >= SendLimit)
        <3>1. send' \in Seq(made) /\ Len(send') = Len(send) + 1
            BY <1>17, <2>2, <2>4, PushFacts DEF WorkerPush, StacksOK
        <3>2. StacksOK'
            BY <1>17, <2>4, <3>1, LenProperties DEF WorkerPush, StacksOK
        <3>3. WorkersOK'
            BY <1>17, <2>4, WorkerTyped DEF WorkerPush, WorkerSteps, Holding
        <3> QED BY <2>1, <3>2, <3>3
    <2> QED BY <2>3, <2>4
<1>18. ASSUME NEW w \in Workers, WorkerDestroy(w) PROVE TypeOK'
    <2>1. StacksOK' /\ ReactorOK' /\ FatesOK'
        BY <1>18 DEF WorkerDestroy, StacksOK, ReactorOK, FatesOK, Fates
    <2>2. PoolOK'
        BY <1>18 DEF WorkerDestroy, WorkerAt, Release, PoolOK, WorkersOK, Holding
    <2>3. WorkersOK'
        BY <1>18, WorkerTyped DEF WorkerDestroy, WorkerSteps, Holding
    <2> QED BY <2>1, <2>2, <2>3
<1>19. ASSUME NEW w \in Workers, WorkerNotify(w) PROVE TypeOK'
    <2>1. StacksOK' /\ PoolOK' /\ ReactorOK' /\ FatesOK'
        BY <1>19 DEF WorkerNotify, StacksOK, PoolOK, ReactorOK, FatesOK
    <2>2. WorkersOK'
        BY <1>19, WorkerTyped DEF WorkerNotify, WorkerSteps, Holding
    <2> QED BY <2>1, <2>2
<1>20. CASE StopThreads
    <2>1. recv' \in Seq(made \union {Nil}) /\ Len(recv') = Len(recv) + 1
        BY <1>20, PushFacts DEF StacksOK, StopThreads
    <2>2. StacksOK'
        BY <1>20, <2>1, LenProperties DEF StacksOK, StopThreads
    <2> QED
        BY <1>20, <2>2 DEF StopThreads, PoolOK, WorkersOK, ReactorOK, FatesOK
<1>21. CASE UNCHANGED vars
    BY <1>21 DEF vars, StacksOK, PoolOK, WorkersOK, ReactorOK, FatesOK
<1>22. CASE Rest
    BY <1>21, <1>22 DEF Rest
<1> QED
    BY <1>1, <1>2, <1>3, <1>4, <1>5, <1>6, <1>7, <1>8, <1>9, <1>10, <1>11, <1>12,
       <1>13, <1>14, <1>15, <1>16, <1>17, <1>18, <1>19, <1>20, <1>21, <1>22
       DEF Next, ReactorInput, ReactorOutput, Worker

\* In every reachable state the program's variables hold what they should.
THEOREM TypeCorrect == Spec => []TypeOK
BY TypeInit, TypeNext, PTL DEF Spec

-----------------------------------------------------------------------------
(* No response is stranded on the send stack *)

\* The server starts with an empty send stack.
LEMMA WakeupInit == Init => NoLostWakeup
BY DEF Init, NoLostWakeup

\* A worker that leaves another step than "notify" takes no wakeup with it.
LEMMA NotifierStays ==
    ASSUME WorkersOK, NEW w \in Workers, NEW step, NEW p,
           WorkerTo(w, step, p), worker[w].at # "notify",
           \E v \in Workers : worker[v].at = "notify"
    PROVE  \E v \in Workers : worker'[v].at = "notify"
BY DEF WorkersOK, WorkerTo

\* A step that puts a package on the send stack is followed by its notify, and
\* a step that takes a wakeup away starts a drain or ends one.
LEMMA WakeupNext == TypeOK /\ NoLostWakeup /\ [Next]_vars => NoLostWakeup'
<1> SUFFICES ASSUME TypeOK, NoLostWakeup, [Next]_vars PROVE NoLostWakeup'
    OBVIOUS
<1> USE PipelineAssumption DEF NoLostWakeup, TypeOK
\* Steps that leave the send stack, the socket and the notifying workers alone,
\* and the reactor outside its draining loop.
<1>1. ASSUME UNCHANGED <<send, pipe, worker>>, reactor.at \notin {"drain", "deliver"}
      PROVE  NoLostWakeup'
    BY <1>1
<1>2. ASSUME NEW c \in Conns, PeerCloses(c) PROVE NoLostWakeup'
    BY <1>2 DEF PeerCloses
<1>3. ASSUME NEW c \in Conns, NEW n \in 1..MaxReq, ReadChunk(c, n) PROVE NoLostWakeup'
    BY <1>1, <1>3 DEF ReadChunk, ReactorAt
<1>4. CASE ReactorInput
    BY <1>1, <1>4
       DEF ReactorInput, ExtractDone, CheckQueueLimit, CreatePackage, GrowPool,
           CreateRefused, CreateFromEmptyList, PushPackage, ReactorAt
<1>5. CASE ReadNotification
    BY <1>5 DEF ReadNotification, Idle
<1>6. CASE DrainPop
    BY <1>6 DEF DrainPop, Idle
<1>7. CASE DrainDone
    BY <1>7 DEF DrainDone
<1>8. CASE Deliver
    BY <1>8 DEF Deliver, Idle
<1>9. ASSUME NEW w \in Workers, WorkerPop(w) PROVE NoLostWakeup'
    BY <1>9, NotifierStays DEF WorkerPop, WorkerAt
<1>10. ASSUME NEW w \in Workers, WorkerProcess(w) PROVE NoLostWakeup'
    BY <1>10, NotifierStays DEF WorkerProcess, WorkerAt
<1>11. ASSUME NEW w \in Workers, WorkerProcessUnready(w) PROVE NoLostWakeup'
    BY <1>11, NotifierStays DEF WorkerProcessUnready, WorkerAt
\* After its push a worker is about to notify.
<1>12. ASSUME NEW w \in Workers, WorkerPush(w) PROVE NoLostWakeup'
    <2>1. CASE Len(send) >= SendLimit
        BY <1>12, <2>1, NotifierStays DEF WorkerPush, WorkerAt
    <2>2. CASE ~(Len(send) >= SendLimit)
        <3>1. worker'[w].at = "notify"
            BY <1>12, <2>2 DEF WorkerPush, WorkerTo, WorkersOK
        <3> QED BY <3>1
    <2> QED BY <2>1, <2>2
<1>13. ASSUME NEW w \in Workers, WorkerDestroy(w) PROVE NoLostWakeup'
    BY <1>13, NotifierStays DEF WorkerDestroy, WorkerAt
\* A byte is in the socket after a notify, whether it is this one or one that
\* filled it before.
<1>14. ASSUME NEW w \in Workers, WorkerNotify(w) PROVE NoLostWakeup'
    <2>1. pipe' > 0
        BY <1>14 DEF WorkerNotify, StacksOK
    <2> QED BY <2>1
<1>15. CASE StopThreads
    BY <1>15 DEF StopThreads
<1>16. CASE UNCHANGED vars
    BY <1>16 DEF vars
<1>17. CASE Rest
    BY <1>16, <1>17 DEF Rest
<1> QED
    BY <1>2, <1>3, <1>4, <1>5, <1>6, <1>7, <1>8, <1>9, <1>10, <1>11, <1>12, <1>13,
       <1>14, <1>15, <1>16, <1>17
       DEF Next, ReactorOutput, Worker

\* However many workers push and however small the socket's buffer, a package
\* on the send stack has somebody or something that will have it drained.
THEOREM NoResponseStranded == Spec => []NoLostWakeup
<1>1. Init => TypeOK /\ NoLostWakeup
    BY TypeInit, WakeupInit
<1>2. TypeOK /\ NoLostWakeup /\ [Next]_vars => (TypeOK /\ NoLostWakeup)'
    BY TypeNext, WakeupNext
<1> QED BY <1>1, <1>2, PTL DEF Spec
-----------------------------------------------------------------------------
(* Counting what is on the receive stack *)

NilsOn(s) == {i \in DOMAIN s : s[i] = Nil}
PackagesOn(s) == DOMAIN s \ NilsOn(s)

\* Moving positions along by one moves none on top of another.
LEMMA ShiftCounts ==
    ASSUME NEW T \in SUBSET Nat, IsFiniteSet(T)
    PROVE  /\ IsFiniteSet({i + 1 : i \in T})
           /\ Cardinality({i + 1 : i \in T}) = Cardinality(T)
<1> DEFINE U == {i + 1 : i \in T}
           f == [i \in T |-> i + 1]
<1>1. f \in Bijection(T, U)
    <2>1. f \in [T -> U] /\ \A i, j \in T : f[i] = f[j] => i = j
        OBVIOUS
    <2>2. \A u \in U : \E i \in T : f[i] = u
        OBVIOUS
    <2> QED BY <2>1, <2>2 DEF Bijection, Injection, IsInjective, Surjection
<1> QED BY <1>1, FS_Bijection DEF ExistsBijection

\* One element in front of a stack, whether it was pushed or will be popped,
\* counts once, as a NULL package or as another.
LEMMA FrontCounts ==
    ASSUME NEW S, NEW s \in Seq(S), NEW t \in Seq(S),
           Len(t) = Len(s) + 1, \A i \in 1..Len(s) : t[i + 1] = s[i]
    PROVE  /\ Cardinality(NilsOn(s)) \in Nat /\ Cardinality(PackagesOn(s)) \in Nat
           /\ Cardinality(NilsOn(t)) =
                  Cardinality(NilsOn(s)) + (IF t[1] = Nil THEN 1 ELSE 0)
           /\ Cardinality(PackagesOn(t)) =
                  Cardinality(PackagesOn(s)) + (IF t[1] = Nil THEN 0 ELSE 1)
<1>1. /\ Len(s) \in Nat /\ DOMAIN s = 1..Len(s) /\ DOMAIN t = 1..(Len(s) + 1)
      /\ IsFiniteSet(1..Len(s))
    BY LenProperties, FS_Interval
<1>2. ASSUME NEW T \in SUBSET DOMAIN s, NEW U \in SUBSET DOMAIN t, NEW b \in BOOLEAN,
             U = {i + 1 : i \in T} \union (IF b THEN {1} ELSE {})
      PROVE  /\ Cardinality(T) \in Nat
             /\ Cardinality(U) = Cardinality(T) + (IF b THEN 1 ELSE 0)
    <2>1. IsFiniteSet(T) /\ T \in SUBSET Nat
        BY <1>1, FS_Subset
    <2>2. /\ IsFiniteSet({i + 1 : i \in T})
          /\ Cardinality({i + 1 : i \in T}) = Cardinality(T)
          /\ Cardinality(T) \in Nat
        BY <2>1, ShiftCounts, FS_CardinalityType
    <2>3. 1 \notin {i + 1 : i \in T}
        BY <1>1
    <2>4. CASE b
        BY <1>2, <2>2, <2>3, <2>4, FS_AddElement
    <2>5. CASE ~b
        BY <1>2, <2>2, <2>5
    <2> QED BY <2>4, <2>5
<1>3. \A j \in DOMAIN t : j = 1 \/ (j - 1 \in DOMAIN s /\ t[j] = s[j - 1] /\ j = (j - 1) + 1)
    BY <1>1
<1>4. \A i \in DOMAIN s : i + 1 \in DOMAIN t /\ t[i + 1] = s[i]
    BY <1>1
<1>5. 1 \in DOMAIN t
    BY <1>1
<1>6. NilsOn(t) = {i + 1 : i \in NilsOn(s)} \union (IF t[1] = Nil THEN {1} ELSE {})
    <2>1. \A j \in NilsOn(t) : j = 1 \/ j \in {i + 1 : i \in NilsOn(s)}
        BY <1>3 DEF NilsOn
    <2>2. {i + 1 : i \in NilsOn(s)} \subseteq NilsOn(t)
        BY <1>4 DEF NilsOn
    <2>3. 1 \in NilsOn(t) <=> t[1] = Nil
        BY <1>5 DEF NilsOn
    <2> QED BY <2>1, <2>2, <2>3
<1>7. PackagesOn(t) = {i + 1 : i \in PackagesOn(s)} \union (IF t[1] # Nil THEN {1} ELSE {})
    <2>1. \A j \in PackagesOn(t) : j = 1 \/ j \in {i + 1 : i \in PackagesOn(s)}
        BY <1>3 DEF NilsOn, PackagesOn
    <2>2. {i + 1 : i \in PackagesOn(s)} \subseteq PackagesOn(t)
        BY <1>4 DEF NilsOn, PackagesOn
    <2>3. 1 \in PackagesOn(t) <=> t[1] # Nil
        BY <1>5 DEF NilsOn, PackagesOn
    <2> QED BY <2>1, <2>2, <2>3
<1>8. /\ NilsOn(s) \subseteq DOMAIN s /\ NilsOn(t) \subseteq DOMAIN t
      /\ PackagesOn(s) \subseteq DOMAIN s /\ PackagesOn(t) \subseteq DOMAIN t
    BY DEF NilsOn, PackagesOn
<1> QED BY <1>2, <1>6, <1>7, <1>8

\* What a push adds to the counts.
LEMMA PushCounts ==
    ASSUME NEW S, NEW s \in Seq(S), NEW p \in S
    PROVE  /\ Cardinality(NilsOn(s)) \in Nat /\ Cardinality(PackagesOn(s)) \in Nat
           /\ Cardinality(NilsOn(Push(s, p))) =
                  Cardinality(NilsOn(s)) + (IF p = Nil THEN 1 ELSE 0)
           /\ Cardinality(PackagesOn(Push(s, p))) =
                  Cardinality(PackagesOn(s)) + (IF p = Nil THEN 0 ELSE 1)
<1> DEFINE t == Push(s, p)
<1>1. <<p>> \in Seq(S) /\ Len(<<p>>) = 1 /\ <<p>>[1] = p
    OBVIOUS
<1>2. /\ t \in Seq(S)
      /\ Len(t) = Len(s) + 1
      /\ \A i \in 1..(Len(s) + 1) : t[i] = IF i <= 1 THEN p ELSE s[i - 1]
    BY <1>1, ConcatProperties DEF Push
<1>3. Len(s) \in Nat
    BY LenProperties
<1>4. t[1] = p /\ \A i \in 1..Len(s) : t[i + 1] = s[i]
    BY <1>2, <1>3
<1> HIDE DEF t
<1> QED BY <1>2, <1>4, FrontCounts DEF t

\* What a pop takes from the counts.
LEMMA PopCounts ==
    ASSUME NEW S, NEW s \in Seq(S), s # <<>>
    PROVE  /\ Cardinality(NilsOn(Tail(s))) \in Nat /\ Cardinality(PackagesOn(Tail(s))) \in Nat
           /\ Cardinality(NilsOn(s)) =
                  Cardinality(NilsOn(Tail(s))) + (IF Head(s) = Nil THEN 1 ELSE 0)
           /\ Cardinality(PackagesOn(s)) =
                  Cardinality(PackagesOn(Tail(s))) + (IF Head(s) = Nil THEN 0 ELSE 1)
<1> DEFINE t == Tail(s)
<1>1. /\ t \in Seq(S) /\ Len(t) = Len(s) - 1
      /\ \A i \in 1..Len(t) : t[i] = s[i + 1]
    BY HeadTailProperties
<1>2. Len(s) = Len(t) + 1 /\ s[1] = Head(s)
    BY <1>1, LenProperties
<1> HIDE DEF t
<1> QED BY <1>1, <1>2, FrontCounts DEF t

-----------------------------------------------------------------------------
(* Every NULL package stops one worker *)

LEMMA PillsInit == Init => PillsAccounted
<1> SUFFICES ASSUME Init PROVE PillsAccounted
    OBVIOUS
<1>1. Pills = {} /\ Exited = {}
    BY DEF Init, Pills, Exited
<1> QED BY <1>1, FS_EmptySet DEF Init, PillsAccounted

\* A worker that neither exits nor has exited does not change who has.
LEMMA ExitedStay ==
    ASSUME WorkersOK, NEW w \in Workers, NEW step, NEW p, WorkerTo(w, step, p),
           worker[w].at # "exited"
    PROVE  Exited' = Exited \union (IF step = "exited" THEN {w} ELSE {}) /\ w \notin Exited
<1>1. \A v \in Workers : worker'[v].at = IF v = w THEN step ELSE worker[v].at
    BY DEF WorkersOK, WorkerTo
<1> QED BY <1>1 DEF Exited

LEMMA PillsNext == TypeOK /\ PillsAccounted /\ [Next]_vars => PillsAccounted'
<1> SUFFICES ASSUME TypeOK, PillsAccounted, [Next]_vars PROVE PillsAccounted'
    OBVIOUS
<1> USE PipelineAssumption
<1>0. /\ IsFiniteSet(Exited) /\ Cardinality(Exited) \in Nat
      /\ WorkersOK /\ recv \in Seq(made \union {Nil})
      /\ Pills = NilsOn(recv) /\ pills \in Nat
    BY FS_Subset, FS_CardinalityType DEF Exited, TypeOK, StacksOK, Pills, NilsOn
<1>1. ASSUME UNCHANGED <<recv, pills, worker>> PROVE PillsAccounted'
    BY <1>1 DEF PillsAccounted, Pills, Exited
<1>2. ASSUME NEW c \in Conns, PeerCloses(c) \/ \E n \in 1..MaxReq : ReadChunk(c, n)
      PROVE  PillsAccounted'
    BY <1>1, <1>2 DEF PeerCloses, ReadChunk
<1>3. CASE \/ ExtractDone \/ CheckQueueLimit \/ CreatePackage \/ GrowPool
           \/ CreateRefused \/ CreateFromEmptyList
    BY <1>1, <1>3 DEF ExtractDone, CheckQueueLimit, CreatePackage, GrowPool, CreateRefused,
                      CreateFromEmptyList
\* The reactor pushes packages, never NULL.
<1>4. CASE PushPackage
    <2>1. reactor.pkg \in made \union {Nil} /\ reactor.pkg # Nil /\ UNCHANGED <<pills, worker>>
        BY <1>4 DEF PushPackage, ReactorAt, TypeOK, ReactorOK
    <2>2. CASE UNCHANGED recv
        BY <1>1, <2>1, <2>2
    <2>3. CASE recv' = Push(recv, reactor.pkg)
        <3>1. Cardinality(NilsOn(recv')) = Cardinality(NilsOn(recv))
            BY <1>0, <2>1, <2>3, PushCounts
        <3> QED BY <2>1, <3>1 DEF PillsAccounted, Pills, NilsOn, Exited
    <2> QED BY <1>4, <2>2, <2>3 DEF PushPackage
<1>5. CASE ReactorOutput
    BY <1>1, <1>5 DEF ReactorOutput, ReadNotification, DrainPop, DrainDone, Deliver
\* A pill leaves the stack as its worker exits.
<1>6. ASSUME NEW w \in Workers, WorkerPop(w) PROVE PillsAccounted'
    <2>1. /\ recv # <<>> /\ recv' = Tail(recv) /\ UNCHANGED pills
          /\ WorkerTo(w, IF Head(recv) = Nil THEN "exited" ELSE "process", Head(recv))
          /\ worker[w].at # "exited"
        BY <1>6 DEF WorkerPop, WorkerAt
    <2>2. /\ Cardinality(NilsOn(recv')) \in Nat
          /\ Cardinality(Pills) = Cardinality(NilsOn(recv')) + (IF Head(recv) = Nil THEN 1 ELSE 0)
        BY <1>0, <2>1, PopCounts
    <2>3. /\ Exited' = Exited \union (IF Head(recv) = Nil THEN {w} ELSE {})
          /\ w \notin Exited
        BY <1>0, <2>1, ExitedStay
    <2>4. Cardinality(Exited') = Cardinality(Exited) + (IF Head(recv) = Nil THEN 1 ELSE 0)
        <3>1. CASE Head(recv) = Nil
            BY <1>0, <2>3, <3>1, FS_AddElement
        <3>2. CASE Head(recv) # Nil
            BY <1>0, <2>3, <3>2
        <3> QED BY <3>1, <3>2
    <2>5. Pills' = NilsOn(recv')
        BY DEF Pills, NilsOn
    <2> QED BY <1>0, <2>1, <2>2, <2>4, <2>5 DEF PillsAccounted
<1>7. ASSUME NEW w \in Workers,
             \/ WorkerProcess(w) \/ WorkerProcessUnready(w) \/ WorkerPush(w)
             \/ WorkerDestroy(w) \/ WorkerNotify(w)
      PROVE  PillsAccounted'
    <2>1. UNCHANGED <<recv, pills>>
        BY <1>7 DEF WorkerProcess, WorkerProcessUnready, WorkerPush, WorkerDestroy, WorkerNotify
    <2>2. \/ UNCHANGED worker
          \/ \E step \in WorkerSteps \ {"exited"}, p \in made \union {Nil} :
                WorkerTo(w, step, p) /\ worker[w].at # "exited"
        BY <1>0, <1>7 DEF WorkerProcess, WorkerProcessUnready, WorkerPush, WorkerDestroy,
                     WorkerNotify, WorkerAt, WorkerSteps, WorkersOK
    <2>3. Exited' = Exited
        BY <1>0, <2>2, ExitedStay DEF Exited
    <2> QED BY <2>1, <2>3 DEF PillsAccounted, Pills
<1>8. CASE StopThreads
    <2>1. recv' = Push(recv, Nil) /\ pills' = pills + 1 /\ UNCHANGED worker
        BY <1>8 DEF StopThreads
    <2>2. /\ Cardinality(NilsOn(recv')) = Cardinality(NilsOn(recv)) + 1
          /\ Cardinality(NilsOn(recv)) \in Nat
        BY <1>0, <2>1, PushCounts
    <2>3. Pills' = NilsOn(recv') /\ Exited' = Exited
        BY <2>1 DEF Pills, NilsOn, Exited
    <2> QED BY <1>0, <2>1, <2>2, <2>3 DEF PillsAccounted
<1>9. CASE Rest \/ UNCHANGED vars
    BY <1>1, <1>9 DEF Rest, vars
<1> QED
    BY <1>2, <1>3, <1>4, <1>5, <1>6, <1>7, <1>8, <1>9 DEF Next, ReactorInput, Worker

\* However packages and NULL packages compete for the stack, every pill pushed
\* is still there or has stopped one worker.
THEOREM EveryPillAccounted == Spec => []PillsAccounted
<1>1. Init => TypeOK /\ PillsAccounted
    BY TypeInit, PillsInit
<1>2. TypeOK /\ PillsAccounted /\ [Next]_vars => (TypeOK /\ PillsAccounted)'
    BY TypeNext, PillsNext
<1> QED BY <1>1, <1>2, PTL DEF Spec

-----------------------------------------------------------------------------
(* The limit that is checked before the push holds after it *)

\* The package being made is as good as pushed.
Coming == IF reactor.at \in {"create", "push"} THEN 1 ELSE 0

RoomKept == QueueLimit > 0 => Cardinality(PackagesOn(recv)) + Coming <= QueueLimit

LEMMA RoomInit == Init => RoomKept
<1> SUFFICES ASSUME Init PROVE RoomKept
    OBVIOUS
<1>1. PackagesOn(recv) = {} /\ Coming = 0
    BY DEF Init, PackagesOn, Coming, Idle
<1> QED BY <1>1, FS_EmptySet, PipelineAssumption DEF RoomKept

\* Only the reactor's push makes the packages on the stack more.
LEMMA RoomNext == TypeOK /\ RoomKept /\ [Next]_vars => RoomKept'
<1> SUFFICES ASSUME TypeOK, RoomKept, [Next]_vars, QueueLimit > 0
             PROVE  Cardinality(PackagesOn(recv')) + Coming' <= QueueLimit
    BY DEF RoomKept
<1> DEFINE Kept == Cardinality(PackagesOn(recv')) + Coming' <= QueueLimit
<1> USE PipelineAssumption
<1>0. /\ recv \in Seq(made \union {Nil}) /\ Len(recv) \in Nat
      /\ Cardinality(PackagesOn(recv)) \in Nat
      /\ Cardinality(PackagesOn(recv)) <= Len(recv)
      /\ QueueLimit \in Nat /\ Coming \in {0, 1} /\ Coming' \in {0, 1}
      /\ Cardinality(PackagesOn(recv)) + Coming <= QueueLimit
    <2>1. recv \in Seq(made \union {Nil}) /\ Len(recv) \in Nat /\ DOMAIN recv = 1..Len(recv)
        BY LenProperties DEF TypeOK, StacksOK
    <2>2. /\ IsFiniteSet(1..Len(recv)) /\ Cardinality(1..Len(recv)) = Len(recv)
          /\ PackagesOn(recv) \subseteq 1..Len(recv)
        <3>1. PackagesOn(recv) \subseteq 1..Len(recv)
            BY <2>1 DEF PackagesOn
        <3>2. /\ IsFiniteSet(1..Len(recv))
              /\ Cardinality(1..Len(recv)) = IF 1 > Len(recv) THEN 0 ELSE Len(recv) - 1 + 1
            <4>1. 1 \in Int /\ Len(recv) \in Int
                BY <2>1
            <4> QED BY <4>1, FS_Interval
        <3> QED BY <2>1, <3>1, <3>2
    <2>3. /\ Cardinality(PackagesOn(recv)) \in Nat
          /\ Cardinality(PackagesOn(recv)) <= Len(recv)
        BY <2>2, FS_Subset, FS_CardinalityType
    <2> QED BY <2>1, <2>3 DEF RoomKept, Coming
<1>1. ASSUME UNCHANGED recv, Coming' <= Coming PROVE Kept
    BY <1>0, <1>1
<1>2. ASSUME UNCHANGED <<recv, reactor>> PROVE Kept
    BY <1>0, <1>2 DEF Coming
<1>3. ASSUME NEW c \in Conns, PeerCloses(c) \/ \E n \in 1..MaxReq : ReadChunk(c, n)
      PROVE  Kept
    <2>1. UNCHANGED recv /\ (reactor' = reactor \/ reactor'.at = "extract")
        BY <1>3 DEF PeerCloses, ReadChunk, Idle
    <2> QED BY <1>0, <1>1, <1>2, <2>1 DEF Coming
\* The size that was read without the mutex left room for one.
<1>4. CASE CheckQueueLimit
    <2>1. CASE AtQueueLimit
        BY <1>0, <1>1, <1>4, <2>1 DEF CheckQueueLimit, RefuseFrame, Idle, Coming
    <2>2. CASE ~AtQueueLimit
        BY <1>0, <1>4, <2>2 DEF CheckQueueLimit, AtQueueLimit
    <2> QED BY <2>1, <2>2
<1>5. CASE CreatePackage \/ GrowPool
    <2>1. reactor.at = "create" /\ UNCHANGED recv
        BY <1>5 DEF CreatePackage, GrowPool, ReactorAt
    <2> QED BY <1>0, <1>1, <2>1 DEF Coming
<1>6. CASE ExtractDone \/ CreateRefused \/ CreateFromEmptyList
    BY <1>0, <1>1, <1>2, <1>6
       DEF ExtractDone, CreateRefused, CreateFromEmptyList, RefuseFrame, Idle, Coming
<1>7. CASE PushPackage
    <2>1. reactor.at = "push" /\ reactor.pkg \in made \union {Nil} /\ reactor.pkg # Nil
        BY <1>7 DEF PushPackage, ReactorAt, TypeOK, ReactorOK
    <2>2. CASE Len(recv) >= RecvLimit
        BY <1>0, <1>1, <1>7, <2>2 DEF PushPackage, RefuseFrame, Idle, Coming
    <2>3. CASE ~(Len(recv) >= RecvLimit)
        <3>1. recv' = Push(recv, reactor.pkg) /\ reactor'.at = "extract"
            BY <1>7, <2>3 DEF PushPackage, TypeOK, ReactorOK
        <3>2. Cardinality(PackagesOn(recv')) = Cardinality(PackagesOn(recv)) + 1
            BY <1>0, <2>1, <3>1, PushCounts
        <3> QED BY <1>0, <2>1, <3>1, <3>2 DEF Coming
    <2> QED BY <2>2, <2>3
<1>8. CASE ReactorOutput
    <2>1. UNCHANGED recv /\ reactor'.at \in {"idle", "drain", "deliver"}
        <3>1. CASE ReadNotification \/ DrainDone
            BY <3>1 DEF ReadNotification, DrainDone, Idle
        <3>2. CASE DrainPop
            BY <3>2 DEF DrainPop, Idle
        <3>3. CASE Deliver
            BY <3>3 DEF Deliver, Idle
        <3> QED BY <1>8, <3>1, <3>2, <3>3 DEF ReactorOutput
    <2> QED BY <1>0, <1>1, <2>1 DEF Coming
<1>9. ASSUME NEW w \in Workers, WorkerPop(w) PROVE Kept
    <2>1. recv # <<>> /\ recv' = Tail(recv) /\ UNCHANGED reactor
        BY <1>9 DEF WorkerPop
    <2>2. /\ Cardinality(PackagesOn(recv')) \in Nat
          /\ Cardinality(PackagesOn(recv')) <= Cardinality(PackagesOn(recv))
        BY <1>0, <2>1, PopCounts, SMTT(30)
    <2> QED BY <1>0, <2>1, <2>2 DEF Coming
<1>10. ASSUME NEW w \in Workers,
              \/ WorkerProcess(w) \/ WorkerProcessUnready(w) \/ WorkerPush(w)
              \/ WorkerDestroy(w) \/ WorkerNotify(w)
       PROVE  Kept
    BY <1>2, <1>10
       DEF WorkerProcess, WorkerProcessUnready, WorkerPush, WorkerDestroy, WorkerNotify
<1>11. CASE StopThreads
    <2>1. recv' = Push(recv, Nil) /\ UNCHANGED reactor
        BY <1>11 DEF StopThreads
    <2>2. Cardinality(PackagesOn(recv')) = Cardinality(PackagesOn(recv))
        BY <1>0, <2>1, PushCounts
    <2> QED BY <1>0, <2>1, <2>2 DEF Coming
<1>12. CASE Rest \/ UNCHANGED vars
    BY <1>2, <1>12 DEF Rest, vars
<1> QED
    BY <1>3, <1>4, <1>5, <1>6, <1>7, <1>8, <1>9, <1>10, <1>11, <1>12
       DEF Next, ReactorInput, Worker

\* The unlocked check of the stack's size suffices: the packages on it never
\* exceed queuelimit_, for only the thread that checks pushes any.
THEOREM QueueLimitHolds == Spec => []QueueLimitKept
<1>1. Init => TypeOK /\ RoomKept
    BY TypeInit, RoomInit
<1>2. TypeOK /\ RoomKept /\ [Next]_vars => (TypeOK /\ RoomKept)'
    BY TypeNext, RoomNext
<1>3. TypeOK /\ RoomKept => QueueLimitKept
    <2> SUFFICES ASSUME TypeOK, RoomKept, QueueLimit > 0
                 PROVE  Cardinality(PackagesOn(recv)) <= QueueLimit
        BY DEF QueueLimitKept, PackagesOn, NilsOn, Pills
    <2>1. IsFiniteSet(DOMAIN recv)
        BY LenProperties, FS_Interval DEF TypeOK, StacksOK
    <2>2. Cardinality(PackagesOn(recv)) \in Nat
        BY <2>1, FS_Subset, FS_CardinalityType DEF PackagesOn
    <2> QED BY <2>2, PipelineAssumption DEF RoomKept, Coming
<1> QED BY <1>1, <1>2, <1>3, PTL DEF Spec

-----------------------------------------------------------------------------
(* A package is in exactly one place *)

\* Packages on the stacks and in hands are constructed ones.
LEMMA InMade ==
    ASSUME TypeOK
    PROVE  /\ OnStack(recv) \subseteq made \union {Nil}
           /\ OnStack(send) \subseteq made
           /\ WorkersHold \subseteq made \union {Nil}
           /\ reactor.pkg \in made \union {Nil}
           /\ free \subseteq made
           /\ Nil \notin made
<1>1. OnStack(recv) \subseteq made \union {Nil}
    BY ElementOfSeq, LenProperties DEF TypeOK, StacksOK, OnStack
<1>2. OnStack(send) \subseteq made
    BY ElementOfSeq, LenProperties DEF TypeOK, StacksOK, OnStack
<1>3. WorkersHold \subseteq made \union {Nil}
    BY DEF TypeOK, WorkersOK, WorkersHold
<1> QED BY <1>1, <1>2, <1>3, PipelineAssumption DEF TypeOK, ReactorOK, PoolOK

\* What the workers hold after one of them has exchanged its package for p.
LEMMA HandsAfter ==
    ASSUME WorkersOK, HandsDistinct, NEW w \in Workers, NEW step, NEW p,
           WorkerTo(w, step, p),
           p = Nil \/ p \notin WorkersHold \/ p = worker[w].pkg
    PROVE  /\ HandsDistinct'
           /\ \A q : q # Nil => (q \in WorkersHold' <=>
                        q = p \/ (q \in WorkersHold /\ q # worker[w].pkg))
<1>1. \A v \in Workers : worker'[v].pkg = IF v = w THEN p ELSE worker[v].pkg
    BY DEF WorkerTo, WorkersOK
<1>2. HandsDistinct'
    BY <1>1 DEF HandsDistinct, WorkersHold
<1>3. ASSUME NEW q, q # Nil
      PROVE  q \in WorkersHold' <=> q = p \/ (q \in WorkersHold /\ q # worker[w].pkg)
    BY <1>1, <1>3 DEF HandsDistinct, WorkersHold
<1> QED BY <1>2, <1>3

\* Steps that move no package.
LEMMA NothingMoves ==
    ASSUME OneOwner, UNCHANGED <<recv, send, worker, free, made>>, reactor'.pkg = reactor.pkg
    PROVE  OneOwner'
BY DEF OneOwner, OnePlace, NoTwice, OnStack, HandsDistinct, WorkersHold

\* The packages the pool constructs at the start are on its free list.
LEMMA OwnerInit == Init => OneOwner
BY EmptyStack, PipelineAssumption
   DEF Init, OneOwner, OnePlace, HandsDistinct, WorkersHold, Idle

\* Every step hands a package from one owner to the next.
LEMMA OwnerNext == TypeOK /\ OneOwner /\ [Next]_vars => OneOwner'
<1> SUFFICES ASSUME TypeOK, OneOwner, [Next]_vars PROVE OneOwner'
    OBVIOUS
<1> USE PipelineAssumption
<1>0. InMade!2 /\ ReactorOK /\ WorkersOK
    BY InMade DEF TypeOK
<1>1. ASSUME NEW c \in Conns, PeerCloses(c) PROVE OneOwner'
    BY <1>1, NothingMoves DEF PeerCloses
<1>2. ASSUME NEW c \in Conns, NEW n \in 1..MaxReq, ReadChunk(c, n) PROVE OneOwner'
    BY <1>0, <1>2, NothingMoves DEF ReadChunk, ReactorAt, Idle, ReactorOK
<1>3. CASE ExtractDone
    BY <1>0, <1>3, NothingMoves DEF ExtractDone, ReactorAt, Idle, ReactorOK
<1>4. CASE CheckQueueLimit
    BY <1>0, <1>4, NothingMoves DEF CheckQueueLimit, RefuseFrame, ReactorAt, Idle, ReactorOK
<1>5. CASE CreatePackage
    <2>1. PICK p \in free : TakePackage(p, free)
        BY <1>5 DEF CreatePackage
    <2>2. /\ reactor.pkg = Nil /\ reactor'.pkg = p /\ free' = free \ {p}
          /\ UNCHANGED <<recv, send, worker, made>>
        BY <1>0, <1>5, <2>1 DEF CreatePackage, TakePackage, ReactorAt, ReactorOK
    <2> QED
        BY <1>0, <2>2 DEF OneOwner, OnePlace, NoTwice, OnStack, HandsDistinct, WorkersHold
<1>6. CASE GrowPool
    <2>1. PICK new \in SUBSET (Packages \ made) :
              made' = made \union new /\ \E p \in new : TakePackage(p, new)
        BY <1>6 DEF GrowPool
    <2>2. PICK p \in new : TakePackage(p, new)
        BY <2>1
    <2>3. /\ reactor.pkg = Nil /\ reactor'.pkg = p /\ free = {} /\ free' = new \ {p}
          /\ UNCHANGED <<recv, send, worker>>
        BY <1>0, <1>6, <2>2 DEF GrowPool, TakePackage, ReactorAt, ReactorOK
    <2>4. UNCHANGED <<OnStack(recv), OnStack(send), WorkersHold>>
        BY <2>3 DEF OnStack, WorkersHold
    <2>5. OnePlace'
        BY <1>0, <2>1, <2>3, <2>4 DEF OneOwner, OnePlace
    <2> QED BY <2>3, <2>5 DEF OneOwner, NoTwice, HandsDistinct
<1>7. CASE CreateRefused
    BY <1>0, <1>7, NothingMoves DEF CreateRefused, RefuseFrame, ReactorAt, Idle, ReactorOK
<1>8. CASE CreateFromEmptyList
    BY <1>8, NothingMoves DEF CreateFromEmptyList
<1>9. CASE PushPackage
    <2>1. reactor.pkg \in made /\ UNCHANGED <<send, worker, made>>
        BY <1>0, <1>9 DEF PushPackage, ReactorAt, ReactorOK
    <2>2. CASE Len(recv) >= RecvLimit
        <3>1. reactor'.pkg = Nil /\ free' = free \union {reactor.pkg} /\ UNCHANGED recv
            BY <1>9, <2>2 DEF PushPackage, RefuseFrame, Release, Idle
        <3> QED
            BY <1>0, <2>1, <3>1
               DEF OneOwner, OnePlace, NoTwice, OnStack, HandsDistinct, WorkersHold
    <2>3. CASE ~(Len(recv) >= RecvLimit)
        <3>1. /\ reactor'.pkg = Nil /\ UNCHANGED free
              /\ recv' = Push(recv, reactor.pkg)
            BY <1>0, <1>9, <2>3 DEF PushPackage, ReactorOK
        <3>2. recv \in Seq(made \union {Nil}) /\ reactor.pkg \in made \union {Nil}
            BY <2>1 DEF TypeOK, StacksOK
        <3>3. OnStack(recv') = {reactor.pkg} \union OnStack(recv) /\ NoTwice(recv')
            BY <2>1, <3>1, <3>2, PushFacts DEF OneOwner, OnePlace
        <3>4. UNCHANGED <<OnStack(send), WorkersHold>>
            BY <2>1 DEF OnStack, WorkersHold
        <3>5. OnePlace'
            BY <1>0, <2>1, <3>1, <3>3, <3>4 DEF OneOwner, OnePlace
        <3> QED BY <2>1, <3>3, <3>5 DEF OneOwner, NoTwice, HandsDistinct
    <2> QED BY <2>2, <2>3
<1>10. CASE ReadNotification
    BY <1>0, <1>10, NothingMoves DEF ReadNotification, ReactorAt, Idle, ReactorOK
<1>11. CASE DrainPop
    <2>1. /\ reactor.pkg = Nil /\ reactor'.pkg = Head(send) /\ send' = Tail(send)
          /\ UNCHANGED <<recv, worker, free, made>>
        BY <1>0, <1>11 DEF DrainPop, ReactorAt, Idle, ReactorOK
    <2>2. /\ Head(send) \in made /\ Head(send) # Nil
          /\ OnStack(send) = {Head(send)} \union OnStack(send')
          /\ NoTwice(send') /\ Head(send) \notin OnStack(send')
        BY <1>0, <1>11, <2>1, PopFacts DEF DrainPop, TypeOK, StacksOK, OneOwner
    <2>3. UNCHANGED <<OnStack(recv), WorkersHold>>
        BY <2>1 DEF OnStack, WorkersHold
    <2>4. OnePlace'
        BY <1>0, <2>1, <2>2, <2>3 DEF OneOwner, OnePlace
    <2> QED BY <2>1, <2>2, <2>4 DEF OneOwner, NoTwice, HandsDistinct
<1>12. CASE DrainDone
    BY <1>0, <1>12, NothingMoves DEF DrainDone, ReactorAt, Idle, ReactorOK
<1>13. CASE Deliver
    <2>1. /\ reactor.pkg \in made /\ reactor'.pkg = Nil /\ free' = free \union {reactor.pkg}
          /\ UNCHANGED <<recv, send, worker, made>>
        BY <1>0, <1>13 DEF Deliver, Release, ReactorAt, Idle, ReactorOK
    <2> QED
        BY <1>0, <2>1 DEF OneOwner, OnePlace, NoTwice, OnStack, HandsDistinct, WorkersHold
<1>14. ASSUME NEW w \in Workers, WorkerPop(w) PROVE OneOwner'
    <2> DEFINE p == Head(recv)
    <2>1. /\ recv # <<>> /\ recv' = Tail(recv) /\ UNCHANGED <<send, free, made, reactor>>
          /\ worker[w].pkg = Nil
        BY <1>0, <1>14 DEF WorkerPop, WorkerAt, WorkersOK, Holding
    <2>2. /\ p \in made \union {Nil}
          /\ OnStack(recv) = {p} \union OnStack(recv')
          /\ NoTwice(recv') /\ (p # Nil => p \notin OnStack(recv'))
        BY <2>1, PopFacts DEF TypeOK, StacksOK, OneOwner
    <2>3. p = Nil \/ p \notin WorkersHold
        BY <2>2 DEF OneOwner, OnePlace
    <2>4. /\ HandsDistinct'
          /\ \A q : q # Nil => (q \in WorkersHold' <=> q = p \/ q \in WorkersHold)
        BY <1>0, <1>14, <2>1, <2>3, HandsAfter DEF WorkerPop, OneOwner
    <2>5. UNCHANGED OnStack(send)
        BY <2>1 DEF OnStack
    <2>6. OnePlace'
        BY <1>0, <2>1, <2>2, <2>4, <2>5 DEF OneOwner, OnePlace
    <2> QED BY <2>1, <2>2, <2>4, <2>6 DEF OneOwner, NoTwice
\* A worker that keeps its package.
<1>15. ASSUME NEW w \in Workers, NEW step, WorkerTo(w, step, worker[w].pkg),
              UNCHANGED <<recv, send, free, made, reactor>>
       PROVE  OneOwner'
    <2>1. /\ HandsDistinct'
          /\ \A q : q # Nil => (q \in WorkersHold' <=> q \in WorkersHold)
        <3>1. worker[w].pkg \in WorkersHold
            BY DEF WorkersHold
        <3> QED BY <1>0, <1>15, <3>1, HandsAfter DEF OneOwner
    <2>2. UNCHANGED <<OnStack(recv), OnStack(send)>>
        BY <1>15 DEF OnStack
    <2>3. OnePlace'
        BY <1>0, <1>15, <2>1, <2>2 DEF OneOwner, OnePlace
    <2> QED BY <1>15, <2>1, <2>3 DEF OneOwner, NoTwice
<1>16. ASSUME NEW w \in Workers, WorkerProcess(w) PROVE OneOwner'
    BY <1>15, <1>16 DEF WorkerProcess
<1>17. ASSUME NEW w \in Workers, WorkerProcessUnready(w) PROVE OneOwner'
    BY <1>15, <1>17, NothingMoves DEF WorkerProcessUnready
<1>18. ASSUME NEW w \in Workers, WorkerPush(w) PROVE OneOwner'
    <2>1. CASE Len(send) >= SendLimit
        BY <1>15, <1>18, <2>1 DEF WorkerPush
    <2>2. CASE ~(Len(send) >= SendLimit)
        <3> DEFINE p == worker[w].pkg
        <3>1. /\ send' = Push(send, p) /\ WorkerTo(w, "notify", Nil)
              /\ UNCHANGED <<recv, free, made, reactor>>
            BY <1>18, <2>2 DEF WorkerPush
        <3>2. p \in made /\ p # Nil /\ p \in WorkersHold /\ send \in Seq(made)
            BY <1>0, <1>18 DEF WorkerPush, WorkerAt, WorkersOK, Holding, WorkersHold,
                              TypeOK, StacksOK
        <3>3. OnStack(send') = {p} \union OnStack(send) /\ NoTwice(send')
            BY <3>1, <3>2, PushFacts DEF OneOwner, OnePlace
        <3>4. /\ HandsDistinct'
              /\ \A q : q # Nil => (q \in WorkersHold' <=> q \in WorkersHold /\ q # p)
            BY <1>0, <3>1, HandsAfter DEF OneOwner
        <3>5. UNCHANGED OnStack(recv)
            BY <3>1 DEF OnStack
        <3>6. OnePlace'
            BY <1>0, <3>1, <3>2, <3>3, <3>4, <3>5 DEF OneOwner, OnePlace
        <3> QED BY <3>1, <3>3, <3>4, <3>6 DEF OneOwner, NoTwice
    <2> QED BY <2>1, <2>2
<1>19. ASSUME NEW w \in Workers, WorkerDestroy(w) PROVE OneOwner'
    <2> DEFINE p == worker[w].pkg
    <2>1. /\ free' = free \union {p} /\ WorkerTo(w, "pop", Nil)
          /\ UNCHANGED <<recv, send, made, reactor>>
        BY <1>19 DEF WorkerDestroy, Release
    <2>2. p \in made /\ p # Nil /\ p \in WorkersHold
        BY <1>0, <1>19 DEF WorkerDestroy, WorkerAt, WorkersOK, Holding, WorkersHold
    <2>3. /\ HandsDistinct'
          /\ \A q : q # Nil => (q \in WorkersHold' <=> q \in WorkersHold /\ q # p)
        BY <1>0, <2>1, HandsAfter DEF OneOwner
    <2>4. UNCHANGED <<OnStack(recv), OnStack(send)>>
        BY <2>1 DEF OnStack
    <2>5. OnePlace'
        BY <1>0, <2>1, <2>2, <2>3, <2>4 DEF OneOwner, OnePlace
    <2> QED BY <2>1, <2>3, <2>5 DEF OneOwner, NoTwice
<1>20. ASSUME NEW w \in Workers, WorkerNotify(w) PROVE OneOwner'
    <2>1. worker[w].pkg = Nil
        BY <1>0, <1>20 DEF WorkerNotify, WorkerAt, WorkersOK, Holding
    <2> QED BY <1>15, <1>20, <2>1 DEF WorkerNotify
<1>21. CASE StopThreads
    <2>1. recv' = Push(recv, Nil) /\ UNCHANGED <<send, worker, free, made, reactor>>
        BY <1>21 DEF StopThreads
    <2>2. OnStack(recv') = {Nil} \union OnStack(recv) /\ NoTwice(recv')
        <3>1. recv \in Seq(made \union {Nil}) /\ Nil \in made \union {Nil} /\ NoTwice(recv)
            BY DEF TypeOK, StacksOK, OneOwner
        <3> QED BY <2>1, <3>1, PushFacts
    <2>3. UNCHANGED <<OnStack(send), WorkersHold>>
        BY <2>1 DEF OnStack, WorkersHold
    <2>4. OnePlace'
        BY <1>0, <2>1, <2>2, <2>3 DEF OneOwner, OnePlace
    <2> QED BY <2>1, <2>2, <2>4 DEF OneOwner, NoTwice, HandsDistinct
<1>22. CASE UNCHANGED vars
    BY <1>22, NothingMoves DEF vars
<1>23. CASE Rest
    BY <1>22, <1>23 DEF Rest
<1> QED
    BY <1>1, <1>2, <1>3, <1>4, <1>5, <1>6, <1>7, <1>8, <1>9, <1>10, <1>11, <1>12,
       <1>13, <1>14, <1>16, <1>17, <1>18, <1>19, <1>20, <1>21, <1>22, <1>23
       DEF Next, ReactorInput, ReactorOutput, Worker

\* On every path, the error paths included, a package has one owner: none leaks
\* and none is destroyed, or used again, while somebody else has it.
THEOREM PackagesOwnedOnce == Spec => []OneOwner
<1>1. Init => TypeOK /\ OneOwner
    BY TypeInit, OwnerInit
<1>2. TypeOK /\ OneOwner /\ [Next]_vars => (TypeOK /\ OneOwner)'
    BY TypeNext, OwnerNext
<1> QED BY <1>1, <1>2, PTL DEF Spec

-----------------------------------------------------------------------------
(* Requests, and the invariant that is inductive for them *)

\* A connection's requests leave "new" in the order sent; a refused one has
\* closed its connection, and the reactor extracts from no closed connection.
InTurn ==
    /\ \A c \in Conns, i \in 1..MaxReq : fate[<<c, i>>] = "new" <=> i > got[c]
    /\ \A c \in Conns, i \in 1..MaxReq : fate[<<c, i>>] = "refused" => c \in closed
    /\ reactor.at \in Extracting => reactor.conn \notin closed

\* The packages with a request are those out of the pool; the one the reactor is
\* about to push has the frame at hand.
Filled ==
    /\ \A p \in Packages : content[p] # NoRequest <=> p \in made \ free
    /\ reactor.at = "push" => content[reactor.pkg] = Frame

ServiceInv == TypeOK /\ OneOwner /\ RequestCarried /\ InTurn /\ Filled

-----------------------------------------------------------------------------
(* Facts about requests and the packages that carry them *)

\* A request is a connection and a number, and the frame at hand is one.
LEMMA RequestFacts ==
    /\ NoRequest \notin Requests
    /\ \A r \in Requests : \E c \in Conns, i \in 1..MaxReq : r = <<c, i>>
    /\ \A c \in Conns, i \in 1..MaxReq : <<c, i>> \in Requests
    /\ \A c, d, i, j : <<c, i>> = <<d, j>> <=> c = d /\ i = j
BY DEF Requests, NoRequest

\* The frame at hand is the next of its connection, and new; once it has come
\* to something, the connection's turns are in order again.
LEMMA FrameTaken ==
    ASSUME TypeOK, InTurn, reactor.at \in Extracting, reactor.left > 0
    PROVE  /\ Frame \in Requests /\ fate[Frame] = "new"
           /\ \A f : /\ f # "new"
                     /\ fate' = [fate EXCEPT ![Frame] = f]
                     /\ got' = [got EXCEPT ![reactor.conn] = @ + 1]
                     => \A c \in Conns, i \in 1..MaxReq :
                           /\ fate'[<<c, i>>] = "new" <=> i > got'[c]
                           /\ fate'[<<c, i>>] # fate[<<c, i>>] => c = reactor.conn /\ fate'[<<c, i>>] = f
<1> DEFINE n == got[reactor.conn]
<1>1. /\ Frame \in Requests /\ Frame = <<reactor.conn, n + 1>>
      /\ reactor.conn \in Conns /\ n \in Nat /\ n + 1 \in 1..MaxReq
      /\ fate \in [Requests -> Fates] /\ got \in [Conns -> 0..MaxReq]
    <2>1. got \in [Conns -> 0..MaxReq] /\ fate \in [Requests -> Fates]
        BY DEF TypeOK, ReactorOK, FatesOK
    <2> QED BY <2>1, FrameIsRequest, PipelineAssumption DEF Frame
<1>2. fate[Frame] = "new"
    BY <1>1 DEF InTurn
<1>3. ASSUME NEW f, f # "new", fate' = [fate EXCEPT ![Frame] = f],
             got' = [got EXCEPT ![reactor.conn] = n + 1],
             NEW c \in Conns, NEW i \in 1..MaxReq
      PROVE  /\ fate'[<<c, i>>] = "new" <=> i > got'[c]
             /\ fate'[<<c, i>>] # fate[<<c, i>>] => c = reactor.conn /\ fate'[<<c, i>>] = f
    <2>1. <<c, i>> \in Requests /\ (<<c, i>> = Frame <=> c = reactor.conn /\ i = n + 1)
        BY <1>1, RequestFacts
    <2>2. fate'[<<c, i>>] = IF c = reactor.conn /\ i = n + 1 THEN f ELSE fate[<<c, i>>]
        BY <1>1, <1>3, <2>1
    <2>3. got[c] \in Nat /\ got'[c] = IF c = reactor.conn THEN n + 1 ELSE got[c]
        BY <1>1, <1>3
    <2>4. fate[<<c, i>>] = "new" <=> i > got[c]
        BY DEF InTurn
    <2> QED BY <1>1, <1>3, <2>2, <2>3, <2>4
<1> QED BY <1>1, <1>2, <1>3

\* A package in somebody's hands or on a stack is out of the pool.
LEMMA OutOfPool ==
    ASSUME TypeOK, OneOwner
    PROVE  /\ reactor.pkg # Nil => reactor.pkg \in made \ free
           /\ \A w \in Workers : worker[w].pkg # Nil => worker[w].pkg \in made \ free
           /\ made \subseteq Packages
BY InMade DEF OneOwner, OnePlace, WorkersHold, TypeOK, PoolOK

\* Steps that change no package's request and nobody's fate.
LEMMA NothingSettled ==
    ASSUME RequestCarried, InTurn, Filled,
           UNCHANGED <<fate, content, made, free, got, closed>>,
           \/ reactor' = reactor
           \/ /\ reactor.at # "push" /\ reactor'.at # "push"
              /\ reactor'.at \in Extracting => reactor'.conn \notin closed
    PROVE  RequestCarried' /\ InTurn' /\ Filled'
<1>1. \A p, r : Carries(p, r)' <=> Carries(p, r)
    BY DEF Carries
<1>2. RequestCarried'
    BY <1>1 DEF RequestCarried
<1>3. InTurn'
    BY DEF InTurn
<1>4. Filled'
    BY DEF Filled, Frame
<1> QED BY <1>2, <1>3, <1>4

\* The package p goes back to the pool, and its request, if it was in flight,
\* is settled.
LEMMA Settling ==
    ASSUME ServiceInv, NEW p \in made \ free, NEW f \in {"dropped", "delivered"},
           Release(p), fate' = [fate EXCEPT ![content[p]] = f],
           UNCHANGED <<made, got, closed>>,
           Carries(p, content[p]),
           \/ reactor' = reactor /\ p # reactor.pkg
           \/ reactor.at # "push" /\ reactor'.at \notin Extracting
    PROVE  /\ RequestCarried' /\ InTurn' /\ Filled'
           /\ content[p] \in Requests /\ fate[content[p]] = "inflight"
<1> DEFINE r == content[p]
<1>1. p \in Packages /\ r \in Requests /\ content \in [Packages -> Requests \union {NoRequest}]
      /\ fate \in [Requests -> Fates] /\ made \subseteq Packages /\ free \subseteq made
    BY DEF ServiceInv, TypeOK, PoolOK, FatesOK, Filled
<1>2. fate[r] = "inflight"
    BY <1>1 DEF ServiceInv, RequestCarried
<1>3. \A q \in Packages : content'[q] = IF q = p THEN NoRequest ELSE content[q]
    BY <1>1 DEF Release
<1>4. \A s \in Requests : fate'[s] = IF s = r THEN f ELSE fate[s]
    BY <1>1
<1>5. free' = free \union {p} /\ made' = made
    BY DEF Release
<1>6. ASSUME NEW q \in made \ free, q # p, NEW s \in Requests
      PROVE  Carries(q, s)' <=> Carries(q, s)
    BY <1>1, <1>3, <1>6 DEF Carries, Extracting
<1>7. RequestCarried'
    <2>1. ASSUME NEW s \in Requests
          PROVE  fate'[s] = "inflight" <=> \E q \in made' \ free' : Carries(q, s)'
        <3>1. CASE s = r
            <4>1. fate'[s] # "inflight"
                BY <1>4, <3>1
            <4>2. ASSUME NEW q \in made \ free, q # p, Carries(q, s) PROVE FALSE
                BY <1>1, <3>1, <4>2, RequestFacts DEF ServiceInv, RequestCarried, Carries
            <4> QED BY <1>5, <1>6, <4>1, <4>2
        <3>2. CASE s # r
            <4>1. ~Carries(p, s)
                BY <3>2 DEF Carries
            <4>2. fate'[s] = "inflight" <=> \E q \in made \ free : Carries(q, s)
                BY <1>4, <3>2 DEF ServiceInv, RequestCarried
            <4> QED BY <1>5, <1>6, <4>1, <4>2
        <3> QED BY <3>1, <3>2
    <2>2. \A q1, q2 \in Packages : content'[q1] = content'[q2] /\ content'[q1] # NoRequest => q1 = q2
        BY <1>3 DEF ServiceInv, RequestCarried
    <2>3. \A q \in free' : content'[q] = NoRequest
        BY <1>1, <1>3, <1>5 DEF ServiceInv, RequestCarried
    <2> QED BY <2>1, <2>2, <2>3 DEF RequestCarried
<1>8. InTurn'
    <2>1. \A c \in Conns, i \in 1..MaxReq :
              /\ <<c, i>> \in Requests
              /\ fate'[<<c, i>>] = fate[<<c, i>>] \/ (<<c, i>> = r /\ fate'[<<c, i>>] = f)
        BY <1>1, <1>4, RequestFacts
    <2> QED BY <1>2, <2>1 DEF ServiceInv, InTurn
<1>9. Filled'
    <2>1. \A q \in Packages : content'[q] # NoRequest <=> q \in made' \ free'
        BY <1>3, <1>5 DEF ServiceInv, Filled
    <2>2. reactor'.at = "push" => reactor' = reactor /\ reactor.pkg \in Packages \ {p}
        BY <1>1 DEF ServiceInv, TypeOK, ReactorOK, Extracting
    <2>3. reactor'.at = "push" => content'[reactor'.pkg] = Frame'
        BY <1>3, <2>2 DEF ServiceInv, Filled, Frame
    <2> QED BY <2>1, <2>3 DEF Filled
<1> QED BY <1>1, <1>2, <1>7, <1>8, <1>9

\* The frame at hand is refused; a package made for it goes back to the pool.
LEMMA Refusing ==
    ASSUME ServiceInv, RefuseFrame, reactor.at \in Extracting, reactor.left > 0,
           UNCHANGED made,
           \/ reactor.at # "push" /\ UNCHANGED <<content, free>>
           \/ reactor.at = "push" /\ Release(reactor.pkg)
    PROVE  RequestCarried' /\ InTurn' /\ Filled'
<1> DEFINE gone == {p \in Packages : reactor.at = "push" /\ p = reactor.pkg}
<1>1. /\ Frame \in Requests /\ fate[Frame] = "new" /\ reactor.conn \in Conns
      /\ fate \in [Requests -> Fates]
      /\ content \in [Packages -> Requests \union {NoRequest}]
      /\ made \subseteq Packages /\ free \subseteq made /\ closed \subseteq Conns
      /\ reactor.at = "push" => reactor.pkg \in made \ free
    BY FrameTaken, FrameIsRequest, OutOfPool
       DEF ServiceInv, TypeOK, PoolOK, FatesOK, ReactorOK
<1>2. /\ fate' = [fate EXCEPT ![Frame] = "refused"]
      /\ got' = [got EXCEPT ![reactor.conn] = @ + 1]
      /\ closed' = closed \union {reactor.conn}
      /\ reactor'.at = "idle"
    BY DEF RefuseFrame, Idle
<1>3. /\ \A p \in Packages : content'[p] = IF p \in gone THEN NoRequest ELSE content[p]
      /\ free' = free \union gone
    BY <1>1 DEF Release
<1>4. \A p \in made \ free, r \in Requests : p \notin gone => (Carries(p, r)' <=> Carries(p, r))
    BY <1>1, <1>2, <1>3 DEF Carries
<1>5. \A p \in made \ free : p \notin gone => content[p] # Frame
    BY <1>1 DEF ServiceInv, RequestCarried, Carries
<1>6. RequestCarried'
    <2>1. ASSUME NEW r \in Requests
          PROVE  fate'[r] = "inflight" <=> \E p \in made' \ free' : Carries(p, r)'
        <3>1. fate'[r] = IF r = Frame THEN "refused" ELSE fate[r]
            BY <1>1, <1>2
        <3>2. \A p \in gone : ~Carries(p, r)
            BY DEF Carries
        <3>3. fate[r] = "inflight" <=> \E p \in made \ free : Carries(p, r)
            BY DEF ServiceInv, RequestCarried
        <3>4. (\E p \in made' \ free' : Carries(p, r)') <=> \E p \in made \ free : Carries(p, r)
            BY <1>3, <1>4, <3>2
        <3> QED BY <1>1, <3>1, <3>3, <3>4
    <2>2. \A p, q \in Packages : content'[p] = content'[q] /\ content'[p] # NoRequest => p = q
        BY <1>3 DEF ServiceInv, RequestCarried
    <2>3. \A p \in free' : content'[p] = NoRequest
        BY <1>1, <1>3 DEF ServiceInv, RequestCarried
    <2> QED BY <2>1, <2>2, <2>3 DEF RequestCarried
<1>7. InTurn'
    <2>1. \A c \in Conns, i \in 1..MaxReq :
              /\ fate'[<<c, i>>] = "new" <=> i > got'[c]
              /\ fate'[<<c, i>>] # fate[<<c, i>>] => c = reactor.conn
        BY <1>2, FrameTaken DEF ServiceInv
    <2> QED BY <1>2, <2>1 DEF ServiceInv, InTurn, Extracting
<1>8. Filled'
    BY <1>1, <1>2, <1>3 DEF ServiceInv, Filled
<1> QED BY <1>6, <1>7, <1>8

\* The reactor takes the package p, free or just made, for the frame at hand.
LEMMA Taking ==
    ASSUME ServiceInv, reactor.at = "create", NEW stock, NEW p \in stock,
           TakePackage(p, stock),
           free \subseteq stock, stock \subseteq free \union (Packages \ made),
           made' = made \union stock, UNCHANGED <<fate, got, closed>>
    PROVE  RequestCarried' /\ InTurn' /\ Filled'
<1>1. /\ p \in Packages /\ p \in made' \ free' /\ free' = stock \ {p}
      /\ made' \ free' = (made \ free) \union {p} /\ p \notin made \ free
      /\ content' = [content EXCEPT ![p] = Frame]
      /\ reactor'.at = "push" /\ reactor'.pkg = p /\ reactor'.conn = reactor.conn
      /\ reactor.at \in Extracting /\ reactor.left > 0 /\ made \subseteq Packages
      /\ content \in [Packages -> Requests \union {NoRequest}] /\ UNCHANGED Frame
    BY DEF TakePackage, ServiceInv, TypeOK, PoolOK, ReactorOK, Extracting, Frame
<1>2. Frame \in Requests /\ fate[Frame] = "new" /\ Frame # NoRequest
    BY <1>1, FrameTaken, RequestFacts DEF ServiceInv
<1>3. \A q \in Packages : content'[q] = IF q = p THEN Frame ELSE content[q]
    BY <1>1
<1>4. \A q \in Packages : content[q] # Frame
    <2>1. \A q \in Packages : content[q] = Frame => Carries(q, Frame) /\ q \in made \ free
        BY <1>2 DEF Carries, ServiceInv, Filled
    <2> QED BY <1>2, <2>1 DEF ServiceInv, RequestCarried
<1>5. RequestCarried'
    <2>1. ASSUME NEW r \in Requests
          PROVE  fate'[r] = "inflight" <=> \E q \in made' \ free' : Carries(q, r)'
        <3>1. ~Carries(p, r)'
            BY <1>1 DEF Carries
        <3>2. \A q \in made \ free : Carries(q, r)' <=> Carries(q, r)
            BY <1>1, <1>3 DEF Carries
        <3> QED BY <1>1, <3>1, <3>2 DEF ServiceInv, RequestCarried
    <2>2. \A q1, q2 \in Packages : content'[q1] = content'[q2] /\ content'[q1] # NoRequest => q1 = q2
        BY <1>3, <1>4 DEF ServiceInv, RequestCarried
    <2>3. \A q \in free' : content'[q] = NoRequest
        <3>1. \A q \in free' : q \in Packages /\ q # p /\ q \notin made \ free
            BY <1>1 DEF ServiceInv, TypeOK, PoolOK
        <3> QED BY <1>3, <3>1 DEF ServiceInv, Filled
    <2> QED BY <2>1, <2>2, <2>3 DEF RequestCarried
<1>6. InTurn'
    BY <1>1 DEF ServiceInv, InTurn
<1>7. Filled'
    BY <1>1, <1>2, <1>3 DEF ServiceInv, Filled
<1> QED BY <1>5, <1>6, <1>7

\* The reactor's push admits the frame at hand.
LEMMA Admitting ==
    ASSUME ServiceInv, PushPackage, ~(Len(recv) >= RecvLimit)
    PROVE  /\ RequestCarried' /\ InTurn' /\ Filled'
           /\ fate' = [fate EXCEPT ![Frame] = "inflight"]
           /\ reactor.at = "push" /\ reactor.left > 0
<1>1. /\ reactor.at = "push" /\ reactor.at \in Extracting /\ reactor.left > 0
      /\ reactor.pkg \in made \ free /\ made \subseteq Packages
      /\ content[reactor.pkg] = Frame
      /\ fate \in [Requests -> Fates]
    BY OutOfPool DEF PushPackage, ReactorAt, ServiceInv, TypeOK, ReactorOK, FatesOK,
                     Extracting, Filled
<1>2. /\ fate' = [fate EXCEPT ![Frame] = "inflight"]
      /\ got' = [got EXCEPT ![reactor.conn] = @ + 1]
      /\ reactor'.at = "extract" /\ reactor'.conn = reactor.conn
      /\ UNCHANGED <<content, made, free, closed>>
    BY DEF PushPackage, ServiceInv, TypeOK, ReactorOK
<1>3. Frame \in Requests /\ fate[Frame] = "new"
    BY <1>1, FrameTaken DEF ServiceInv
<1>4. RequestCarried'
    <2>1. ASSUME NEW r \in Requests
          PROVE  fate'[r] = "inflight" <=> \E p \in made' \ free' : Carries(p, r)'
        <3>1. \A p \in made \ free : Carries(p, r)' <=> content[p] = r
            BY <1>2 DEF Carries
        <3>2. CASE r = Frame
            BY <1>1, <1>2, <1>3, <3>1, <3>2
        <3>3. CASE r # Frame
            <4>1. \A p \in made \ free : content[p] = r <=> Carries(p, r)
                BY <1>1, <3>3 DEF Carries
            <4> QED BY <1>1, <1>2, <3>1, <3>3, <4>1 DEF ServiceInv, RequestCarried
        <3> QED BY <3>2, <3>3
    <2> QED BY <1>2, <2>1 DEF ServiceInv, RequestCarried
<1>5. InTurn'
    <2>1. \A c \in Conns, i \in 1..MaxReq :
              /\ fate'[<<c, i>>] = "new" <=> i > got'[c]
              /\ fate'[<<c, i>>] # fate[<<c, i>>] => fate'[<<c, i>>] = "inflight"
        BY <1>1, <1>2, FrameTaken DEF ServiceInv
    <2> QED BY <1>1, <1>2, <2>1 DEF ServiceInv, InTurn
<1>6. Filled'
    BY <1>2 DEF ServiceInv, Filled
<1> QED BY <1>1, <1>2, <1>4, <1>5, <1>6

-----------------------------------------------------------------------------
(* That invariant is inductive *)

LEMMA ServiceInit == Init => RequestCarried /\ InTurn /\ Filled
<1> SUFFICES ASSUME Init PROVE RequestCarried /\ InTurn /\ Filled
    OBVIOUS
<1> USE PipelineAssumption DEF Init
<1>1. RequestCarried
    BY DEF RequestCarried
<1>2. InTurn
    BY RequestFacts DEF InTurn, Idle, Extracting
<1>3. Filled
    BY DEF Filled, Idle
<1> QED BY <1>1, <1>2, <1>3

\* Every step keeps requests with their packages and in their turn.
LEMMA ServiceNext == ServiceInv /\ [Next]_vars => RequestCarried' /\ InTurn' /\ Filled'
<1> DEFINE Kept == RequestCarried' /\ InTurn' /\ Filled'
<1> SUFFICES ASSUME ServiceInv, [Next]_vars PROVE Kept
    OBVIOUS
<1>0. /\ RequestCarried /\ InTurn /\ Filled
      /\ reactor.pkg # Nil => reactor.pkg \in made \ free
      /\ \A w \in Workers : worker[w].pkg # Nil => worker[w].pkg \in made \ free
    BY OutOfPool DEF ServiceInv
<1>1. ASSUME NEW c \in Conns, PeerCloses(c) PROVE Kept
    BY <1>0, <1>1 DEF PeerCloses, ReactorAt, Extracting, RequestCarried, Carries, InTurn,
                      Filled, Frame
<1>2. ASSUME NEW c \in Conns, NEW n \in 1..MaxReq, ReadChunk(c, n) PROVE Kept
    <2>1. /\ reactor.at = "idle" /\ reactor'.at = "extract" /\ reactor'.conn = c
          /\ c \notin closed
          /\ UNCHANGED <<fate, content, made, free, got, closed>>
        BY <1>2 DEF ReadChunk, ReactorAt, Idle
    <2> QED BY <1>0, <2>1, NothingSettled
<1>3. CASE ExtractDone
    BY <1>0, <1>3, NothingSettled DEF ExtractDone, ReactorAt, Idle, Extracting
<1>4. CASE CheckQueueLimit
    <2>0. reactor.at = "extract" /\ reactor.at \in Extracting /\ reactor.left > 0
        BY <1>4 DEF CheckQueueLimit, ReactorAt, Extracting
    <2>1. CASE RefuseFrame
        BY <1>4, <2>0, <2>1, Refusing DEF CheckQueueLimit
    <2>2. CASE ~RefuseFrame
        <3>1. /\ reactor'.at = "create" /\ reactor'.conn = reactor.conn
              /\ UNCHANGED <<fate, content, made, free, got, closed>>
            BY <1>4, <2>2 DEF CheckQueueLimit, ServiceInv, TypeOK, ReactorOK
        <3>2. reactor.conn \notin closed
            BY <1>0, <2>0 DEF InTurn
        <3> QED BY <1>0, <2>0, <3>1, <3>2, NothingSettled
    <2> QED BY <2>1, <2>2
<1>5. CASE CreatePackage
    <2>1. PICK p \in free : TakePackage(p, free)
        BY <1>5 DEF CreatePackage
    <2>2. /\ reactor.at = "create" /\ UNCHANGED <<made, fate, got, closed>>
          /\ made' = made \union free
        BY <1>5 DEF CreatePackage, ReactorAt, ServiceInv, TypeOK, PoolOK
    <2> QED BY <2>1, <2>2, Taking
<1>6. CASE GrowPool
    <2>1. PICK new \in SUBSET (Packages \ made) :
              made' = made \union new /\ \E p \in new : TakePackage(p, new)
        BY <1>6 DEF GrowPool
    <2>2. PICK p \in new : TakePackage(p, new)
        BY <2>1
    <2>3. reactor.at = "create" /\ free = {} /\ UNCHANGED <<fate, got, closed>>
        BY <1>6 DEF GrowPool, ReactorAt
    <2> QED BY <2>1, <2>2, <2>3, Taking
<1>7. CASE CreateRefused
    <2>1. /\ RefuseFrame /\ reactor.at # "push" /\ reactor.at \in Extracting /\ reactor.left > 0
          /\ UNCHANGED <<made, content, free>>
        BY <1>7 DEF CreateRefused, ReactorAt, Extracting, ServiceInv, TypeOK, ReactorOK
    <2> QED BY <2>1, Refusing
<1>8. CASE CreateFromEmptyList
    BY <1>0, <1>8, NothingSettled DEF CreateFromEmptyList
<1>9. CASE PushPackage
    <2>1. CASE Len(recv) >= RecvLimit
        <3>1. /\ RefuseFrame /\ Release(reactor.pkg) /\ reactor.at = "push"
              /\ reactor.at \in Extracting /\ reactor.left > 0 /\ UNCHANGED made
            BY <1>9, <2>1 DEF PushPackage, ReactorAt, Extracting, ServiceInv, TypeOK, ReactorOK
        <3> QED BY <3>1, Refusing
    <2>2. CASE ~(Len(recv) >= RecvLimit)
        BY <1>9, <2>2, Admitting
    <2> QED BY <2>1, <2>2
<1>10. CASE ReadNotification
    BY <1>0, <1>10, NothingSettled DEF ReadNotification, ReactorAt, Idle, Extracting
<1>11. CASE DrainPop
    BY <1>0, <1>11, NothingSettled DEF DrainPop, ReactorAt, Idle, Extracting
<1>12. CASE DrainDone
    BY <1>0, <1>12, NothingSettled DEF DrainDone, ReactorAt, Idle, Extracting
<1>13. CASE Deliver
    <2>1. /\ reactor.at = "deliver" /\ reactor'.at = "drain" /\ reactor.pkg # Nil
          /\ fate' = [fate EXCEPT ![content[reactor.pkg]] = "delivered"]
          /\ Release(reactor.pkg) /\ UNCHANGED <<made, got, closed>>
          /\ Carries(reactor.pkg, content[reactor.pkg])
        BY <1>13 DEF Deliver, ReactorAt, Idle, Carries, ServiceInv, TypeOK, ReactorOK
    <2> QED BY <1>0, <2>1, Settling DEF Extracting
<1>14. ASSUME NEW w \in Workers,
              \/ WorkerPop(w) \/ WorkerProcess(w) \/ WorkerProcessUnready(w)
              \/ WorkerPush(w) \/ WorkerNotify(w)
       PROVE  Kept
    <2>1. UNCHANGED <<fate, content, made, free, got, closed, reactor>>
        BY <1>14 DEF WorkerPop, WorkerProcess, WorkerProcessUnready, WorkerPush, WorkerNotify
    <2> QED BY <1>0, <2>1, NothingSettled
<1>15. ASSUME NEW w \in Workers, WorkerDestroy(w) PROVE Kept
    <2> DEFINE p == worker[w].pkg
    <2>1. /\ p # Nil /\ fate' = [fate EXCEPT ![content[p]] = "dropped"]
          /\ Release(p) /\ UNCHANGED <<made, got, closed, reactor>>
        BY <1>15 DEF WorkerDestroy, WorkerAt, ServiceInv, TypeOK, WorkersOK, Holding
    <2>2. p \in made \ free
        BY <1>0, <2>1
    <2>3. p # reactor.pkg
        BY <2>2 DEF ServiceInv, OneOwner, OnePlace, WorkersHold
    <2>4. Carries(p, content[p])
        BY <2>3 DEF Carries
    <2> QED BY <2>1, <2>2, <2>3, <2>4, Settling
<1>16. CASE StopThreads
    BY <1>0, <1>16, NothingSettled DEF StopThreads
<1>17. CASE UNCHANGED vars
    BY <1>0, <1>17, NothingSettled DEF vars
<1>18. CASE Rest
    BY <1>17, <1>18 DEF Rest
<1> QED
    BY <1>1, <1>2, <1>3, <1>4, <1>5, <1>6, <1>7, <1>8, <1>9, <1>10, <1>11, <1>12,
       <1>13, <1>14, <1>15, <1>16, <1>17, <1>18
       DEF Next, ReactorInput, ReactorOutput, Worker

LEMMA ServiceInvariant == Spec => []ServiceInv
<1>1. Init => ServiceInv
    BY TypeInit, OwnerInit, ServiceInit DEF ServiceInv
<1>2. ServiceInv /\ [Next]_vars => ServiceInv'
    BY TypeNext, OwnerNext, ServiceNext DEF ServiceInv
<1> QED BY <1>1, <1>2, PTL DEF Spec

\* A request is in flight exactly while one package carries it, no two packages
\* carry the same, and a package in the pool carries none: an answer is never
\* another request's, however often packages are used again.
THEOREM RequestsCarriedOnce == Spec => []RequestCarried
BY ServiceInvariant, PTL DEF ServiceInv

-----------------------------------------------------------------------------
(* The refinement, step by step *)

\* Requests in flight are in packages other than the one the reactor is about
\* to push, so there are fewer of them than packages.
LEMMA RoomForOne ==
    ASSUME ServiceInv, reactor.at = "push"
    PROVE  Cardinality(Service!InFlight) < Cardinality(Packages)
<1> DEFINE Others == Packages \ {reactor.pkg}
           carrier == [r \in Service!InFlight |->
                          CHOOSE p \in made \ free : Carries(p, r)]
<1>1. reactor.pkg \in Packages /\ made \subseteq Packages /\ IsFiniteSet(Packages)
    BY OutOfPool, PipelineAssumption DEF ServiceInv, TypeOK, ReactorOK
<1>2. /\ IsFiniteSet(Others)
      /\ Cardinality(Others) = Cardinality(Packages) - 1
      /\ Cardinality(Packages) \in Nat
    BY <1>1, FS_RemoveElement, FS_CardinalityType
<1>3. ASSUME NEW r \in Service!InFlight
      PROVE  carrier[r] \in Others /\ content[carrier[r]] = r
    <2>1. \E p \in made \ free : Carries(p, r)
        BY DEF Service!InFlight, Service!Requests, Requests, ServiceInv, RequestCarried
    <2>2. carrier[r] \in made \ free /\ Carries(carrier[r], r)
        BY <2>1
    <2> QED BY <1>1, <2>2 DEF Carries
<1>4. carrier \in [Service!InFlight -> Others]
    BY <1>3
<1>5. \A r, s \in Service!InFlight : carrier[r] = carrier[s] => r = s
    BY <1>3
<1>6. carrier \in Injection(Service!InFlight, Others)
    BY <1>4, <1>5 DEF Injection, IsInjective
<1>7. /\ IsFiniteSet(Service!InFlight)
      /\ Cardinality(Service!InFlight) <= Cardinality(Others)
    BY <1>2, <1>6, FS_Injection
<1> QED BY <1>2, <1>7, FS_CardinalityType

\* It is the turn of the frame at hand.
LEMMA FrameTurn ==
    ASSUME ServiceInv, reactor.at \in Extracting, reactor.left > 0
    PROVE  Frame \in Service!Requests /\ Service!Turn(Frame)
<1>1. /\ Frame \in Requests /\ fate[Frame] = "new"
      /\ reactor.conn \in Conns /\ reactor.conn \notin closed
      /\ Frame[1] = reactor.conn /\ Frame[2] = got[reactor.conn] + 1
      /\ got[reactor.conn] \in Nat
    BY FrameTaken, FrameIsRequest, PipelineAssumption
       DEF ServiceInv, InTurn, Frame, TypeOK, ReactorOK
<1>2. \A i \in 1..MaxReq : i < Frame[2] => fate[<<Frame[1], i>>] \notin {"new", "refused"}
    BY <1>1, PipelineAssumption DEF ServiceInv, InTurn
<1> QED BY <1>1, <1>2 DEF Service!Turn, Service!Requests, Requests

\* Each step of the pipeline is one of the service's, or nothing its clients see.
LEMMA StepImplements == ServiceInv /\ [Next]_vars => [Service!Next]_Service!svars
<1> DEFINE Step == [Service!Next]_Service!svars
<1> SUFFICES ASSUME ServiceInv, [Next]_vars PROVE Step
    OBVIOUS
<1>1. ASSUME UNCHANGED <<fate, fault>> PROVE Step
    BY <1>1 DEF Service!svars
<1>2. ASSUME Up, UNCHANGED fault, RefuseFrame, reactor.at \in Extracting, reactor.left > 0
      PROVE  Step
    <2>1. Service!Refuse(Frame)
        BY <1>2, FrameTurn DEF Service!Refuse, Service!Become, RefuseFrame
    <2> QED BY <1>2, <2>1, FrameTurn DEF Service!Next, Up
<1>3. ASSUME Up, fault' # "none", UNCHANGED fate PROVE Step
    BY <1>3 DEF Service!Next, Service!Crash, Up
<1>4. ASSUME Up, UNCHANGED <<fault, made, got, closed>>, NEW p \in made \ free,
             NEW f \in {"dropped", "delivered"},
             Release(p), fate' = [fate EXCEPT ![content[p]] = f],
             Carries(p, content[p])
      PROVE  Step
    <2>1. content[p] \in Requests /\ fate[content[p]] = "inflight"
        BY <1>4, OutOfPool DEF ServiceInv, TypeOK, PoolOK, Filled, RequestCarried
    <2>2. Service!Settle(content[p])
        BY <1>4, <2>1 DEF Service!Settle, Service!Settled, Service!Become
    <2> QED BY <1>4, <2>1, <2>2 DEF Service!Next, Service!Requests, Requests, Up
<1>5. CASE CheckQueueLimit
    <2>1. CASE RefuseFrame
        BY <1>2, <1>5, <2>1 DEF CheckQueueLimit, ReactorAt, Extracting
    <2>2. CASE ~RefuseFrame
        BY <1>1, <1>5, <2>2 DEF CheckQueueLimit
    <2> QED BY <2>1, <2>2
<1>6. CASE CreateRefused
    BY <1>2, <1>6 DEF CreateRefused, ReactorAt, Extracting, ServiceInv, TypeOK, ReactorOK
<1>7. CASE CreateFromEmptyList
    BY <1>3, <1>7 DEF CreateFromEmptyList, ReactorAt
<1>8. CASE PushPackage
    <2>1. /\ Up /\ UNCHANGED fault /\ reactor.at = "push" /\ reactor.at \in Extracting
          /\ reactor.left > 0
        BY <1>8 DEF PushPackage, ReactorAt, Extracting, ServiceInv, TypeOK, ReactorOK
    <2>2. CASE Len(recv) >= RecvLimit
        BY <1>2, <1>8, <2>1, <2>2 DEF PushPackage
    <2>3. CASE ~(Len(recv) >= RecvLimit)
        <3>1. fate' = [fate EXCEPT ![Frame] = "inflight"]
            BY <1>8, <2>3, Admitting
        <3>2. Service!Turn(Frame) /\ Cardinality(Service!InFlight) < Cardinality(Packages)
            BY <2>1, FrameTurn, RoomForOne
        <3>3. Service!Become(Frame, "inflight")
            BY <2>1, <3>1 DEF Service!Become
        <3>4. Service!Admit(Frame)
            BY <3>2, <3>3 DEF Service!Admit, Service!Cardinality, Cardinality
        <3> QED BY <2>1, <3>4, FrameTurn DEF Service!Next, Up
    <2> QED BY <2>2, <2>3
<1>9. CASE Deliver
    <2>1. /\ Up /\ UNCHANGED <<fault, made, got, closed>> /\ reactor.pkg \in made \ free
          /\ fate' = [fate EXCEPT ![content[reactor.pkg]] = "delivered"]
          /\ Release(reactor.pkg) /\ Carries(reactor.pkg, content[reactor.pkg])
        BY <1>9, OutOfPool DEF Deliver, ReactorAt, Carries, ServiceInv, TypeOK, ReactorOK
    <2> QED BY <1>4, <2>1
<1>10. ASSUME NEW w \in Workers, WorkerDestroy(w) PROVE Step
    <2> DEFINE p == worker[w].pkg
    <2>1. /\ Up /\ UNCHANGED <<fault, made, got, closed>> /\ p \in made \ free
          /\ fate' = [fate EXCEPT ![content[p]] = "dropped"] /\ Release(p)
        BY <1>10, OutOfPool DEF WorkerDestroy, WorkerAt, ServiceInv, TypeOK, WorkersOK, Holding
    <2>2. Carries(p, content[p])
        BY <2>1 DEF Carries, ServiceInv, OneOwner, OnePlace, WorkersHold
    <2> QED BY <1>4, <2>1, <2>2
<1>11. ASSUME NEW w \in Workers, WorkerProcessUnready(w) PROVE Step
    BY <1>3, <1>11 DEF WorkerProcessUnready, WorkerAt
<1>12. ASSUME NEW w \in Workers, WorkerPop(w) \/ WorkerProcess(w) \/ WorkerPush(w) \/ WorkerNotify(w)
       PROVE  Step
    BY <1>1, <1>12 DEF WorkerPop, WorkerProcess, WorkerPush, WorkerNotify
<1>13. ASSUME NEW c \in Conns, PeerCloses(c) \/ \E n \in 1..MaxReq : ReadChunk(c, n)
       PROVE  Step
    BY <1>1, <1>13 DEF PeerCloses, ReadChunk
<1>14. CASE ExtractDone \/ CreatePackage \/ GrowPool
    BY <1>1, <1>14 DEF ExtractDone, CreatePackage, GrowPool
<1>15. CASE ReadNotification \/ DrainPop \/ DrainDone
    BY <1>1, <1>15 DEF ReadNotification, DrainPop, DrainDone
<1>16. CASE StopThreads \/ Rest \/ UNCHANGED vars
    BY <1>1, <1>16 DEF StopThreads, Rest, vars
<1> QED
    BY <1>5, <1>6, <1>7, <1>8, <1>9, <1>10, <1>11, <1>12, <1>13, <1>14, <1>15, <1>16
       DEF Next, ReactorInput, ReactorOutput, Worker

\* The threads, stacks and packages keep the server's promise to its clients.
THEOREM PipelineImplementsService == Spec => KeepsPromise
<1>1. Init => Service!Init
    BY DEF Init, Service!Init, Service!Requests, Requests
<1> QED
    BY <1>1, StepImplements, ServiceInvariant, PTL DEF Spec, KeepsPromise, Service!SafetySpec
=============================================================================
