--------------------------- MODULE ThreadPoolProofs ---------------------------
(***************************************************************************)
(* Proofs about ThreadPool, for any number of thread objects: the lists    *)
(* are never raced for where they are not guarded, no object is deleted    *)
(* under its thread, and between calls the pool's list is its threads.     *)
(***************************************************************************)
EXTENDS ThreadPool, TLAPS, FiniteSetTheorems

-----------------------------------------------------------------------------
(* The inductive invariant *)

\* The thread being started, or joined.
InHand == IF ctl.at \in {"alive", "append"} THEN {ctl.thread} ELSE {}
\* The threads that have taken a stop request since Stop was called.
Asked == {t \in Threads : run[t] = "leaving"} \union dead

\* Where each object of the pool stands with its thread.
ObjectsOK ==
    /\ live \union InHand \subseteq object
    /\ live \intersect (InHand \union dead) = {} /\ InHand \intersect dead = {}
    /\ ctl.at = "join" => ctl.thread \in dead
    /\ \A t \in live \union InHand : run[t] \in Working \union {"leaving", "none"}
    /\ \A t \in dead : run[t] \in {"left", "over"}
    /\ \A t \in Threads : run[t] \in Working \union {"leaving"} => t \in live \union InHand
    /\ \A t \in Threads : run[t] = "left" => t \in dead \intersect object
    /\ \A t \in Threads : run[t] \in Working \union {"leaving", "left"} =>
          t \in alive \/ (ctl.at = "alive" /\ t = ctl.thread)

\* Every request is taken by one thread, and never are there more than threads.
RequestsOK ==
    /\ ctl.at \in Unlocked \union {"alive"} =>
          requests = 0 /\ \A t \in Threads : run[t] # "leaving"
    /\ ctl.at \in {"idle", "create", "alive", "append"} => dead = {}
    /\ ctl.at = "signal" =>
          /\ ctl.have <= ctl.goal
          /\ requests + Cardinality(Asked) = ctl.have
          /\ counter => ctl.have = 0
    /\ ctl.at = "wait" => requests + Cardinality(Asked) = ctl.goal
    /\ ctl.at \in {"signal", "wait"} => ctl.goal <= Cardinality(live \union dead)

\* Where pthread_create does not fail every thread of the pool has run.
StartedOK ==
    "create" \notin Failures => \A t \in live \union InHand : run[t] # "none"

PoolInv == TypeOK /\ ObjectsOK /\ RequestsOK /\ StartedOK

-----------------------------------------------------------------------------
LEMMA AskedFacts ==
    ASSUME TypeOK
    PROVE  /\ Asked \subseteq Threads
           /\ IsFiniteSet(Asked) /\ Cardinality(Asked) \in Nat
           /\ IsFiniteSet(live) /\ Cardinality(live) \in Nat
           /\ IsFiniteSet(dead) /\ Cardinality(dead) \in Nat
           /\ IsFiniteSet(live \union dead) /\ Cardinality(live \union dead) \in Nat
           /\ Cardinality(live \union dead) <= Cardinality(Threads)
           /\ Cardinality(Threads) \in Nat
           /\ Cardinality({}) = 0
<1>1. /\ Asked \in SUBSET Threads /\ live \in SUBSET Threads
      /\ dead \in SUBSET Threads /\ live \union dead \in SUBSET Threads
    BY DEF TypeOK, Asked
<1> QED BY <1>1, PoolAssumption, FS_Subset, FS_CardinalityType, FS_EmptySet

LEMMA PoolInit ==
    ASSUME Init
    PROVE  PoolInv
<1>1. TypeOK
    BY PoolAssumption, FS_CardinalityType DEF Init, TypeOK, Idle, RunSteps, CtlSteps
<1>2. ObjectsOK /\ RequestsOK /\ StartedOK
    BY DEF Init, ObjectsOK, RequestsOK, StartedOK, InHand, Idle, Unlocked, Working
<1> QED BY <1>1, <1>2 DEF PoolInv

LEMMA PoolNext ==
    ASSUME PoolInv, [Next]_vars
    PROVE  PoolInv'
<1> USE DEF At, Working
<1>0. /\ TypeOK /\ ObjectsOK /\ RequestsOK /\ StartedOK
      /\ ctl = [at |-> ctl.at, goal |-> ctl.goal, have |-> ctl.have, thread |-> ctl.thread]
    BY DEF PoolInv, TypeOK
<1>1. ASSUME NEW n \in 0..Cardinality(Threads), Start(n)
      PROVE  PoolInv'
    <2>1. TypeOK'
        <3>1. Size \in Nat /\ n \in Nat /\ Size # n
            BY <1>0, <1>1, AskedFacts DEF Start, Size
        <3>2. CASE Size < n
            BY <1>0, <1>1, <3>1, <3>2 DEF Start, TypeOK, Idle, CtlSteps
        <3>3. CASE n < Size
            <4>1. Size - n \in Nat /\ ~(Size < n)
                BY <3>1, <3>3
            <4> QED BY <1>0, <1>1, <4>1 DEF Start, TypeOK, Idle, CtlSteps
        <3> QED BY <3>1, <3>2, <3>3
    <2>2. ObjectsOK'
        BY <1>0, <1>1 DEF Start, TypeOK, ObjectsOK, RequestsOK, InHand, Idle, Unlocked, CtlSteps, RunSteps
    <2>3. RequestsOK'
        <3>1. /\ Size \in Nat /\ n \in Nat /\ Size # n
              /\ Cardinality({}) = 0 /\ live \union dead = live
              /\ dead = {} /\ requests = 0 /\ Asked = {}
            BY <1>0, <1>1, AskedFacts DEF Start, Size, RequestsOK, Unlocked, Asked
        <3>2. Asked' = Asked /\ UNCHANGED <<live, dead, run, requests, counter>>
            BY <1>1 DEF Start, Asked
        <3>3. CASE Size < n
            BY <1>0, <1>1, <3>1, <3>2, <3>3 DEF Start, RequestsOK, Idle, Unlocked
        <3>4. CASE ~(Size < n)
            <4>1. /\ ctl'.at = "signal" /\ ctl'.goal = Size - n /\ ctl'.have = 0
                BY <1>1, <3>4 DEF Start, Idle
            <4>2. Size - n \in Nat /\ 0 <= Size - n /\ Size - n <= Size
                BY <3>1, <3>4
            <4> QED BY <3>1, <3>2, <4>1, <4>2 DEF RequestsOK, Unlocked, Size
        <3> QED BY <3>3, <3>4
    <2>4. StartedOK'
        BY <1>0, <1>1 DEF Start, TypeOK, StartedOK, InHand, Idle, CtlSteps
    <2> QED BY <2>1, <2>2, <2>3, <2>4 DEF PoolInv
<1>2. ASSUME NEW n \in 0..Cardinality(Threads), Stop(n)
      PROVE  PoolInv'
    <2>1. TypeOK'
        <3>1. Size \in Nat /\ n \in Nat
            BY <1>0, <1>2, AskedFacts DEF Size
        <3> QED BY <1>0, <1>2, <3>1 DEF Stop, TypeOK, Idle, CtlSteps
    <2>2. ObjectsOK'
        BY <1>0, <1>2 DEF Stop, TypeOK, ObjectsOK, RequestsOK, InHand, Idle, Unlocked, CtlSteps, RunSteps
    <2>3. RequestsOK'
        <3>1. /\ Size \in Nat /\ n \in Nat
              /\ Cardinality({}) = 0 /\ live \union dead = live
              /\ dead = {} /\ requests = 0 /\ Asked = {}
            BY <1>0, <1>2, AskedFacts DEF Stop, Size, RequestsOK, Unlocked, Asked
        <3>2. Asked' = Asked /\ UNCHANGED <<live, dead, run, requests, counter>>
            BY <1>2 DEF Stop, Asked
        <3>3. /\ ctl'.at = "signal" /\ ctl'.have = 0
              /\ ctl'.goal = IF n < Size THEN n ELSE Size
            BY <1>2 DEF Stop, Idle
        <3>4. ctl'.goal \in Nat /\ ctl'.goal <= Size
            BY <3>1, <3>3
        <3>5. /\ requests' + Cardinality(Asked') = 0
              /\ Cardinality((live \union dead)') = Size
            <4>1. Asked' = {} /\ requests' = 0 /\ live' = live /\ dead' = {}
                BY <3>1, <3>2
            <4>2. Cardinality(Asked') = 0 /\ (live \union dead)' = live
                BY <3>1, <4>1
            <4> QED BY <4>1, <4>2 DEF Size
        <3> QED BY <3>3, <3>4, <3>5 DEF RequestsOK, Unlocked
    <2>4. StartedOK'
        BY <1>0, <1>2 DEF Stop, TypeOK, StartedOK, InHand, Idle, CtlSteps
    <2> QED BY <2>1, <2>2, <2>3, <2>4 DEF PoolInv
<1>3. ASSUME NEW t \in Threads, CreateThread(t)
      PROVE  PoolInv'
    <2>1. TypeOK'
        BY <1>0, <1>3, AskedFacts DEF CreateThread, TypeOK, Idle, Size, CtlSteps, RunSteps
    <2>2. ObjectsOK'
        BY <1>0, <1>3 DEF CreateThread, TypeOK, ObjectsOK, RequestsOK, InHand, Idle, Unlocked, CtlSteps, RunSteps
    <2>3. RequestsOK'
        BY <1>0, <1>3, AskedFacts DEF CreateThread, TypeOK, ObjectsOK, RequestsOK, InHand, Idle, Unlocked, CtlSteps, Asked
    <2>4. StartedOK'
        BY <1>0, <1>3 DEF CreateThread, TypeOK, StartedOK, InHand, Idle, CtlSteps
    <2> QED BY <2>1, <2>2, <2>3, <2>4 DEF PoolInv
<1>4. ASSUME NEW t \in Threads, StartFails(t)
      PROVE  PoolInv'
    <2>1. TypeOK'
        BY <1>0, <1>4, AskedFacts DEF StartFails, TypeOK, Idle, Size, CtlSteps, RunSteps
    <2>2. ObjectsOK'
        BY <1>0, <1>4 DEF StartFails, TypeOK, ObjectsOK, RequestsOK, InHand, Idle, Unlocked, CtlSteps, RunSteps
    <2>3. RequestsOK'
        BY <1>0, <1>4, AskedFacts DEF StartFails, TypeOK, ObjectsOK, RequestsOK, InHand, Idle, Unlocked, CtlSteps, Asked
    <2>4. StartedOK'
        BY <1>0, <1>4 DEF StartFails, TypeOK, StartedOK, InHand, Idle, CtlSteps
    <2> QED BY <2>1, <2>2, <2>3, <2>4 DEF PoolInv
<1>5. ASSUME SetAlive
      PROVE  PoolInv'
    <2>1. TypeOK'
        <3>1. ctl.thread \in Threads
            BY <1>0, <1>5 DEF SetAlive, TypeOK, ObjectsOK, InHand
        <3> QED BY <1>0, <1>5, <3>1 DEF SetAlive, TypeOK, CtlSteps
    <2>2. ObjectsOK'
        BY <1>0, <1>5 DEF SetAlive, TypeOK, ObjectsOK, RequestsOK, InHand, Idle, Unlocked, CtlSteps, RunSteps
    <2>3. RequestsOK'
        BY <1>0, <1>5, AskedFacts DEF SetAlive, TypeOK, ObjectsOK, RequestsOK, InHand, Idle, Unlocked, CtlSteps, Asked
    <2>4. StartedOK'
        BY <1>0, <1>5 DEF SetAlive, TypeOK, StartedOK, InHand, Idle, CtlSteps
    <2> QED BY <2>1, <2>2, <2>3, <2>4 DEF PoolInv
<1>6. ASSUME AppendLive
      PROVE  PoolInv'
    <2>1. TypeOK'
        <3>1. ctl.thread \in Threads
            BY <1>0, <1>6 DEF AppendLive, TypeOK, ObjectsOK, InHand
        <3>2. CASE ctl.have + 1 < ctl.goal
            <4>1. /\ ctl' = [ctl EXCEPT !.at = "create", !.have = ctl.have + 1,
                                        !.thread = NoThread]
                  /\ ctl.have + 1 \in Nat
                BY <1>0, <1>6, <3>2 DEF AppendLive, TypeOK
            <4>2. ctl' \in [at : CtlSteps, goal : Nat, have : Nat,
                            thread : Threads \union {NoThread}]
                BY <1>0, <4>1 DEF TypeOK, CtlSteps
            <4> QED BY <1>0, <1>6, <3>1, <4>2 DEF AppendLive, TypeOK
        <3>3. CASE ~(ctl.have + 1 < ctl.goal)
            BY <1>0, <1>6, <3>1, <3>3 DEF AppendLive, TypeOK, Idle, CtlSteps
        <3> QED BY <3>2, <3>3
    <2>2. ObjectsOK'
        BY <1>0, <1>6 DEF AppendLive, TypeOK, ObjectsOK, RequestsOK, InHand, Idle, Unlocked, CtlSteps, RunSteps
    <2>3. RequestsOK'
        BY <1>0, <1>6, AskedFacts DEF AppendLive, TypeOK, ObjectsOK, RequestsOK, InHand, Idle, Unlocked, CtlSteps, Asked
    <2>4. StartedOK'
        BY <1>0, <1>6 DEF AppendLive, TypeOK, StartedOK, InHand, Idle, CtlSteps
    <2> QED BY <2>1, <2>2, <2>3, <2>4 DEF PoolInv
<1>7. ASSUME StopThreads
      PROVE  PoolInv'
    <2>1. TypeOK'
        <3>1. requests' \in 0..Cardinality(Threads)
            BY <1>0, <1>7, AskedFacts DEF StopThreads, TypeOK, RequestsOK
        <3> QED BY <1>0, <1>7, <3>1 DEF StopThreads, TypeOK, CtlSteps
    <2>2. ObjectsOK'
        BY <1>0, <1>7 DEF StopThreads, TypeOK, ObjectsOK, RequestsOK, InHand, Idle, Unlocked, CtlSteps, RunSteps
    <2>3. RequestsOK'
        BY <1>0, <1>7, AskedFacts DEF StopThreads, TypeOK, ObjectsOK, RequestsOK, InHand, Idle, Unlocked, CtlSteps, Asked
    <2>4. StartedOK'
        BY <1>0, <1>7 DEF StopThreads, TypeOK, StartedOK, InHand, Idle, CtlSteps
    <2> QED BY <2>1, <2>2, <2>3, <2>4 DEF PoolInv
<1>8. ASSUME Waited
      PROVE  PoolInv'
    <2>1. TypeOK'
        BY <1>0, <1>8, AskedFacts DEF Waited, TypeOK, Idle, Size, CtlSteps, RunSteps
    <2>2. ObjectsOK'
        BY <1>0, <1>8 DEF Waited, TypeOK, ObjectsOK, RequestsOK, InHand, Idle, Unlocked, CtlSteps, RunSteps
    <2>3. RequestsOK'
        <3>1. requests + Cardinality(Asked) = ctl.goal /\ requests \in Nat
            BY <1>0, <1>8 DEF Waited, RequestsOK, TypeOK
        <3>2. dead \subseteq Asked
            BY DEF Asked
        <3>3. CASE Cardinality(dead) >= ctl.goal
            <4>1. Cardinality(dead) <= Cardinality(Asked)
                  /\ (Cardinality(dead) = Cardinality(Asked) => dead = Asked)
                BY <1>0, <3>2, AskedFacts, FS_Subset
            <4>2. requests = 0 /\ dead = Asked
                BY <1>0, <3>1, <3>3, <4>1, AskedFacts
            <4>3. \A t \in Threads : run[t] # "leaving"
                BY <1>0, <4>2 DEF Asked, ObjectsOK
            <4> QED BY <1>8, <4>2, <4>3 DEF Waited, RequestsOK
        <3>4. CASE live = {}
            <4>1. \A t \in Threads : run[t] # "leaving"
                BY <1>0, <1>8, <3>4 DEF Waited, ObjectsOK, InHand
            <4>2. Asked = dead /\ live \union dead = dead
                BY <3>4, <4>1 DEF Asked
            <4>3. ctl.goal <= Cardinality(dead)
                BY <1>0, <1>8, <4>2 DEF Waited, RequestsOK
            <4>4. requests = 0
                BY <1>0, <3>1, <4>2, <4>3, AskedFacts
            <4> QED BY <1>8, <4>1, <4>4 DEF Waited, RequestsOK
        <3> QED BY <1>8, <3>3, <3>4 DEF Waited
    <2>4. StartedOK'
        BY <1>0, <1>8 DEF Waited, TypeOK, StartedOK, InHand, Idle, CtlSteps
    <2> QED BY <2>1, <2>2, <2>3, <2>4 DEF PoolInv
<1>9. ASSUME NEW t \in Threads, Reap(t)
      PROVE  PoolInv'
    <2>1. TypeOK'
        <3>1. CASE t \in alive
            BY <1>0, <1>9, <3>1 DEF Reap, TypeOK, CtlSteps
        <3>2. CASE t \notin alive
            BY <1>0, <1>9, <3>2 DEF Reap, TypeOK
        <3> QED BY <3>1, <3>2
    <2>2. ObjectsOK'
        <3>1. CASE t \in alive
            <4>1. /\ ctl'.at = "join" /\ ctl'.thread = t /\ ctl.at = "reap" /\ t \in dead
                  /\ UNCHANGED <<live, dead, object, alive, run>>
                BY <1>0, <1>9, <3>1 DEF Reap
            <4>2. InHand' = {} /\ InHand = {}
                BY <4>1 DEF InHand
            <4> QED BY <1>0, <4>1, <4>2 DEF ObjectsOK
        <3>2. CASE t \notin alive
            <4>1. run[t] = "over"
                BY <1>0, <1>9, <3>2 DEF Reap, ObjectsOK
            <4> QED BY <1>0, <1>9, <3>2, <4>1 DEF Reap, ObjectsOK, InHand
        <3> QED BY <3>1, <3>2
    <2>3. RequestsOK'
        <3>1. UNCHANGED <<live, dead, run, requests>> /\ ctl'.at \in {"reap", "join"}
            BY <1>0, <1>9 DEF Reap
        <3> QED BY <1>0, <1>9, <3>1 DEF Reap, RequestsOK, Unlocked
    <2>4. StartedOK'
        BY <1>0, <1>9 DEF Reap, TypeOK, StartedOK, InHand, Idle, CtlSteps
    <2> QED BY <2>1, <2>2, <2>3, <2>4 DEF PoolInv
<1>10. ASSUME Join
      PROVE  PoolInv'
    <2>1. TypeOK'
        BY <1>0, <1>10, AskedFacts DEF Join, TypeOK, Idle, Size, CtlSteps, RunSteps
    <2>2. ObjectsOK'
        BY <1>0, <1>10 DEF Join, TypeOK, ObjectsOK, RequestsOK, InHand, Idle, Unlocked, CtlSteps, RunSteps
    <2>3. RequestsOK'
        BY <1>0, <1>10, AskedFacts DEF Join, TypeOK, ObjectsOK, RequestsOK, InHand, Idle, Unlocked, CtlSteps, Asked
    <2>4. StartedOK'
        BY <1>0, <1>10 DEF Join, TypeOK, StartedOK, InHand, Idle, CtlSteps
    <2> QED BY <2>1, <2>2, <2>3, <2>4 DEF PoolInv
<1>11. ASSUME ClearDead
      PROVE  PoolInv'
    <2>1. TypeOK'
        BY <1>0, <1>11, AskedFacts DEF ClearDead, TypeOK, Idle, Size, CtlSteps, RunSteps
    <2>2. ObjectsOK'
        BY <1>0, <1>11 DEF ClearDead, TypeOK, ObjectsOK, RequestsOK, InHand, Idle, Unlocked, CtlSteps, RunSteps
    <2>3. RequestsOK'
        BY <1>0, <1>11, AskedFacts DEF ClearDead, TypeOK, ObjectsOK, RequestsOK, InHand, Idle, Unlocked, CtlSteps, Asked
    <2>4. StartedOK'
        BY <1>0, <1>11 DEF ClearDead, TypeOK, StartedOK, InHand, Idle, CtlSteps
    <2> QED BY <2>1, <2>2, <2>3, <2>4 DEF PoolInv
<1>12. ASSUME NEW t \in Threads, TakeRequest(t)
      PROVE  PoolInv'
    <2>1. TypeOK'
        BY <1>0, <1>12, AskedFacts DEF TakeRequest, TypeOK, Idle, Size, CtlSteps, RunSteps
    <2>2. ObjectsOK'
        BY <1>0, <1>12 DEF TakeRequest, TypeOK, ObjectsOK, RequestsOK, InHand, Idle, Unlocked, CtlSteps, RunSteps
    <2>3. RequestsOK'
        <3>1. ctl.at \in {"signal", "wait"} /\ requests \in Nat
            BY <1>0, <1>12 DEF TakeRequest, TypeOK, RequestsOK, Unlocked, CtlSteps
        <3>2. Asked' = Asked \union {t} /\ t \notin Asked
            BY <1>0, <1>12 DEF TakeRequest, TypeOK, ObjectsOK, Asked
        <3>3. Cardinality(Asked') = Cardinality(Asked) + 1
            BY <1>0, <3>2, AskedFacts, FS_AddElement
        <3>4. requests' + Cardinality(Asked') = requests + Cardinality(Asked)
            BY <1>0, <1>12, <3>1, <3>3, AskedFacts DEF TakeRequest
        <3>5. UNCHANGED <<live, dead, counter, ctl>>
            BY <1>12 DEF TakeRequest
        <3> QED BY <1>0, <3>1, <3>4, <3>5 DEF RequestsOK, Unlocked
    <2>4. StartedOK'
        BY <1>0, <1>12 DEF TakeRequest, TypeOK, StartedOK, InHand, Idle, CtlSteps
    <2> QED BY <2>1, <2>2, <2>3, <2>4 DEF PoolInv
<1>13. ASSUME NEW t \in Threads, DestroyThread(t)
      PROVE  PoolInv'
    <2>1. TypeOK'
        BY <1>0, <1>13, AskedFacts DEF DestroyThread, TypeOK, Idle, Size, CtlSteps, RunSteps
    <2>2. ObjectsOK'
        BY <1>0, <1>13 DEF DestroyThread, TypeOK, ObjectsOK, RequestsOK, InHand, Idle, Unlocked, CtlSteps, RunSteps
    <2>3. RequestsOK'
        <3>1. ctl.at \in {"signal", "wait"}
            BY <1>0, <1>13 DEF DestroyThread, TypeOK, RequestsOK, Unlocked, CtlSteps
        <3>2. t \in live
            BY <1>0, <1>13, <3>1 DEF DestroyThread, ObjectsOK, InHand
        <3>3. Asked' = Asked /\ (live \union dead)' = live \union dead
            BY <1>0, <1>13, <3>2 DEF DestroyThread, TypeOK, Asked
        <3>4. UNCHANGED <<requests, counter, ctl>>
            BY <1>13 DEF DestroyThread
        <3> QED BY <1>0, <3>1, <3>3, <3>4 DEF RequestsOK, Unlocked
    <2>4. StartedOK'
        BY <1>0, <1>13 DEF DestroyThread, TypeOK, StartedOK, InHand, Idle, CtlSteps
    <2> QED BY <2>1, <2>2, <2>3, <2>4 DEF PoolInv
<1>14. ASSUME NEW t \in Threads, End(t)
      PROVE  PoolInv'
    <2>1. TypeOK'
        BY <1>0, <1>14, AskedFacts DEF End, TypeOK, Idle, Size, CtlSteps, RunSteps
    <2>2. ObjectsOK'
        BY <1>0, <1>14 DEF End, TypeOK, ObjectsOK, RequestsOK, InHand, Idle, Unlocked, CtlSteps, RunSteps
    <2>3. RequestsOK'
        BY <1>0, <1>14, AskedFacts DEF End, TypeOK, ObjectsOK, RequestsOK, InHand, Idle, Unlocked, CtlSteps, Asked
    <2>4. StartedOK'
        BY <1>0, <1>14 DEF End, TypeOK, StartedOK, InHand, Idle, CtlSteps
    <2> QED BY <2>1, <2>2, <2>3, <2>4 DEF PoolInv
<1>15. ASSUME OutOfObjects
      PROVE  PoolInv'
    <2>1. TypeOK'
        BY <1>0, <1>15, AskedFacts DEF OutOfObjects, TypeOK, Idle, Size, CtlSteps, RunSteps
    <2>2. ObjectsOK'
        BY <1>0, <1>15 DEF OutOfObjects, TypeOK, ObjectsOK, RequestsOK, InHand, Idle, Unlocked, CtlSteps, RunSteps
    <2>3. RequestsOK'
        BY <1>0, <1>15, AskedFacts DEF OutOfObjects, TypeOK, ObjectsOK, RequestsOK, InHand, Idle, Unlocked, CtlSteps, Asked
    <2>4. StartedOK'
        BY <1>0, <1>15 DEF OutOfObjects, TypeOK, StartedOK, InHand, Idle, CtlSteps
    <2> QED BY <2>1, <2>2, <2>3, <2>4 DEF PoolInv
<1>16. ASSUME UNCHANGED vars
      PROVE  PoolInv'
    <2>1. TypeOK'
        BY <1>0, <1>16, AskedFacts DEF vars, TypeOK, Idle, Size, CtlSteps, RunSteps
    <2>2. ObjectsOK'
        BY <1>0, <1>16 DEF vars, TypeOK, ObjectsOK, RequestsOK, InHand, Idle, Unlocked, CtlSteps, RunSteps
    <2>3. RequestsOK'
        BY <1>0, <1>16, AskedFacts DEF vars, TypeOK, ObjectsOK, RequestsOK, InHand, Idle, Unlocked, CtlSteps, Asked
    <2>4. StartedOK'
        BY <1>0, <1>16 DEF vars, TypeOK, StartedOK, InHand, Idle, CtlSteps
    <2> QED BY <2>1, <2>2, <2>3, <2>4 DEF PoolInv
<1>17. ASSUME NEW t \in Threads, LooksAtStops(t) \/ FindsNone(t)
       PROVE  PoolInv'
    <2>1. /\ run[t] \in Working /\ UNCHANGED <<counter, live, dead, object, alive, requests, ctl>>
          /\ \/ run' = [run EXCEPT ![t] = "looked"]
             \/ run' = [run EXCEPT ![t] = "run"]
        BY <1>17 DEF LooksAtStops, FindsNone
    <2>2. TypeOK'
        BY <1>0, <2>1 DEF TypeOK, RunSteps
    <2>3. ObjectsOK'
        BY <1>0, <2>1 DEF TypeOK, ObjectsOK, InHand
    <2>4. RequestsOK'
        <3>1. Asked' = Asked /\ \A k \in Threads : run[k] # "leaving" => run'[k] # "leaving"
            BY <1>0, <2>1 DEF TypeOK, Asked
        <3> QED BY <1>0, <2>1, <3>1 DEF RequestsOK
    <2>5. StartedOK'
        <3>1. InHand' = InHand /\ live' = live
            BY <2>1 DEF InHand
        <3>2. \A k \in live \union InHand : k \in Threads
            BY <1>0 DEF TypeOK, ObjectsOK
        <3>3. \A k \in Threads : run[k] # "none" => run'[k] # "none"
            BY <1>0, <2>1 DEF TypeOK
        <3> QED BY <1>0, <3>1, <3>2, <3>3 DEF StartedOK
    <2> QED BY <2>2, <2>3, <2>4, <2>5 DEF PoolInv
<1> QED
    BY <1>1, <1>2, <1>3, <1>4, <1>5, <1>6, <1>7, <1>8, <1>9, <1>10, <1>11, <1>12,
       <1>13, <1>14, <1>15, <1>16, <1>17
    DEF Next, Calls, Controller, StillWaiting, Thread

LEMMA PoolInvariant == Spec => []PoolInv
BY PoolInit, PoolNext, PTL DEF Spec

-----------------------------------------------------------------------------
(* What it implies *)

\* Every variable holds what the code keeps there, and there is never a stop
\* request for more threads than exist.
THEOREM PoolTypeCorrect == Spec => []TypeOK
BY PoolInvariant, PTL DEF PoolInv

\* Where the controlling thread reads and writes the two lists without the
\* mutex no thread is, or can be sent, into DestroyThread (threadpool.cpp:74,
\* 85, 102, 119-124): with or without failures of pthread_create.
THEOREM ListsNotRaced == Spec => []UnlockedAccessSafe
<1>1. PoolInv => UnlockedAccessSafe
    BY DEF PoolInv, RequestsOK, UnlockedAccessSafe, Unlocked
<1> QED BY <1>1, PoolInvariant, PTL

\* A thread object outlives its thread's last write to it (thread.cpp:7-8,
\* threadpool.cpp:119-122).
THEOREM ObjectsOutliveThreads == Spec => []NoUseAfterDelete
<1>1. PoolInv => NoUseAfterDelete
    BY DEF PoolInv, ObjectsOK, NoUseAfterDelete, Working
<1> QED BY <1>1, PoolInvariant, PTL

\* Between calls the list is exactly the running threads and nothing is left of
\* the last Stop (threadpool.cpp:74, 102, 133-136), provided pthread_create does
\* not fail: Thread::Start takes its failure for a success (thread.cpp:37), and
\* the list then holds an object with no thread.
THEOREM PoolListIsAccurate ==
    ASSUME "create" \notin Failures
    PROVE  Spec => []PoolAccurate
<1>1. ASSUME PoolInv
      PROVE  PoolAccurate
    <2>1. ASSUME At("idle")
          PROVE  live = {t \in Threads : run[t] \in Working} /\ dead = {} /\ requests = 0
        <3>1. /\ dead = {} /\ requests = 0 /\ InHand = {}
              /\ \A t \in Threads : run[t] # "leaving"
            BY <1>1, <2>1 DEF PoolInv, RequestsOK, InHand, At, Unlocked
        <3>2. /\ live \subseteq Threads
              /\ \A t \in live : run[t] \in Working \union {"leaving", "none"} /\ run[t] # "none"
              /\ \A t \in Threads : run[t] \in Working => t \in live
            BY <1>1, <3>1 DEF PoolInv, TypeOK, ObjectsOK, StartedOK
        <3> QED BY <3>1, <3>2
    <2> QED BY <2>1 DEF PoolAccurate
<1> QED BY <1>1, PoolInvariant, PTL
=============================================================================
