--------------------------- MODULE SyncQueueProofs ---------------------------
(***************************************************************************)
(* Proofs about SyncQueue, for any number of threads, any values and any   *)
(* limit: its calls are atomic, and no consumer sleeps through an item.    *)
(***************************************************************************)
EXTENDS SyncQueue, TLAPS, SequenceTheorems, FiniteSetTheorems

-----------------------------------------------------------------------------
(* The inductive invariant *)

Calls == Buffer!PushCalls \union Buffer!PopCalls
Results == {Buffer!Pending, Buffer!Full, Buffer!Empty, Buffer!Done}
           \union {Buffer!Got(v) : v \in Values}

\* A call has its result once it is past its effect; only pushes insert and
\* signal, and only pops wait.
CallsOK ==
    /\ op \in [Threads -> {Buffer!NoCall} \union Calls]
    /\ res \in [Threads -> Results]
    /\ \A t \in Threads : res[t] = Buffer!Pending <=> pc[t] \notin {"signal", "unlock"}
    /\ \A t \in Threads : pc[t] \in {"insert", "signal"} => IsPush(t)
    /\ \A t \in Threads : pc[t] = "waiting" => op[t].kind = "pop"

\* Something is out of the buffer only while the push that took it out, from a
\* full stack, holds the mutex and has yet to put its own value in.
RemovedOK ==
    /\ \A t \in Threads : pc[t] = "insert" =>
          /\ MakesRoom(t) /\ op[t].limit
          /\ Len(items) + 1 >= Limit
          /\ \E v \in Values : removed = <<v>>
    /\ (\A t \in Threads : pc[t] # "insert") => removed = <<>>

QueueInv == TypeOK /\ CallsOK /\ RemovedOK

-----------------------------------------------------------------------------
(* What calls and results are *)

LEMMA CallFacts ==
    ASSUME NEW c \in {Buffer!NoCall} \union Calls
    PROVE  /\ c.kind = "push" => /\ c \in Calls /\ c.val \in Values
                                 /\ c.evict \in BOOLEAN /\ c.limit \in BOOLEAN
           /\ c.kind = "pop" => c \in Calls /\ c.block \in BOOLEAN
           /\ c \in Calls <=> c # Buffer!NoCall
           /\ c \in Calls => c.kind \in {"push", "pop"}
           /\ c = Buffer!NoCall => c.kind = "none"
BY DEF Calls, Buffer!PushCalls, Buffer!PopCalls, Buffer!NoCall

LEMMA ResultFacts ==
    /\ {Buffer!Full, Buffer!Empty, Buffer!Done} \subseteq Results \ {Buffer!Pending}
    /\ \A v \in Values : Buffer!Got(v) \in Results \ {Buffer!Pending}
    /\ Buffer!Pending \in Results
<1>1. Buffer!Full # Buffer!Pending /\ Buffer!Empty # Buffer!Pending /\ Buffer!Done # Buffer!Pending
    BY DEF Buffer!Full, Buffer!Empty, Buffer!Done, Buffer!Pending
<1>2. ASSUME NEW v \in Values
      PROVE  Buffer!Got(v) # Buffer!Pending
    <2>1. Buffer!Got(v).kind = "got" /\ Buffer!Pending.kind = "pending"
        BY DEF Buffer!Got, Buffer!Pending
    <2> QED BY <2>1
<1> QED BY <1>1, <1>2 DEF Results

\* The buffer operations on sequences of values.
LEMMA BufferFacts ==
    ASSUME NEW s \in Seq(Values), NEW v \in Values
    PROVE  /\ Buffer!Insert(s, v) \in Seq(Values)
           /\ Len(Buffer!Insert(s, v)) = Len(s) + 1
           /\ s # <<>> => /\ s[Len(s)] \in Values
                          /\ Buffer!WithoutLast(s) \in Seq(Values)
                          /\ Len(Buffer!WithoutLast(s)) = Len(s) - 1
                          /\ Buffer!WithoutLast(s) \o <<s[Len(s)]>> = s
           /\ Buffer!WithoutLast(s \o <<v>>) = s
           /\ Len(s \o <<v>>) = Len(s) + 1
           /\ (s \o <<v>>)[Len(s) + 1] = v
<1>0. Len(s) \in Nat /\ <<v>> \in Seq(Values) /\ Len(<<v>>) = 1 /\ <<v>>[1] = v
    BY LenProperties
<1>1. Buffer!Insert(s, v) \in Seq(Values) /\ Len(Buffer!Insert(s, v)) = Len(s) + 1
    <2>1. <<v>> \o s \in Seq(Values) /\ Len(<<v>> \o s) = 1 + Len(s)
        BY <1>0, ConcatProperties
    <2>2. Append(s, v) \in Seq(Values) /\ Len(Append(s, v)) = Len(s) + 1
        BY AppendProperties
    <2> QED BY <1>0, <2>1, <2>2 DEF Buffer!Insert
<1>2. ASSUME s # <<>>
      PROVE  /\ s[Len(s)] \in Values
             /\ Buffer!WithoutLast(s) \in Seq(Values)
             /\ Len(Buffer!WithoutLast(s)) = Len(s) - 1
             /\ Buffer!WithoutLast(s) \o <<s[Len(s)]>> = s
    <2>1. Len(s) \in Nat \ {0} /\ Len(s) \in 1..Len(s) /\ 1 \in 1..Len(s)
        BY <1>2, EmptySeq
    <2>2. s[Len(s)] \in Values /\ \A i \in 1..(Len(s) - 1) : s[i] \in Values
        BY <2>1, ElementOfSeq
    <2>3. /\ SubSeq(s, 1, Len(s) - 1) \in Seq(Values)
          /\ Len(SubSeq(s, 1, Len(s) - 1)) = Len(s) - 1
        <3> DEFINE k == Len(s) - 1
        <3>1. k \in Nat /\ k \in Int /\ 1 \in Int /\ \A i \in 1..k : s[i] \in Values
            BY <2>1, <2>2
        <3> HIDE DEF k
        <3>2. /\ SubSeq(s, 1, k) \in Seq(Values)
              /\ Len(SubSeq(s, 1, k)) = IF 1 <= k THEN k - 1 + 1 ELSE 0
            BY <3>1, SubSeqProperties
        <3>3. Len(SubSeq(s, 1, k)) = k
            <4>1. CASE 1 <= k
                BY <4>1, <3>1, <3>2
            <4>2. CASE k = 0
                BY <4>2, <3>2
            <4> QED BY <3>1, <4>1, <4>2
        <3> QED BY <3>2, <3>3 DEF k
    <2>4. SubSeq(s, 1, Len(s)) = SubSeq(s, 1, Len(s) - 1) \o <<s[Len(s)]>>
        BY <2>1, SubSeqRecursiveSecond
    <2>5. SubSeq(s, 1, Len(s)) = s
        BY SubSeqFull
    <2> QED BY <2>2, <2>3, <2>4, <2>5 DEF Buffer!WithoutLast
<1>3. /\ s \o <<v>> \in Seq(Values)
      /\ Len(s \o <<v>>) = Len(s) + 1
      /\ \A i \in 1..(Len(s) + 1) : (s \o <<v>>)[i] = IF i <= Len(s) THEN s[i] ELSE <<v>>[i - Len(s)]
    BY <1>0, ConcatProperties
<1>4. (s \o <<v>>)[Len(s) + 1] = v
    BY <1>0, <1>3
<1>5. SubSeq(s \o <<v>>, 1, Len(s)) = s
    <2> DEFINE u == SubSeq(s \o <<v>>, 1, Len(s))
    <2>1. \A i \in 1..Len(s) : (s \o <<v>>)[i] = s[i] /\ s[i] \in Values
        BY <1>0, <1>3, ElementOfSeq
    <2>2. /\ u \in Seq(Values)
          /\ Len(u) = IF 1 <= Len(s) THEN Len(s) - 1 + 1 ELSE 0
          /\ \A i \in 1..(Len(s) - 1 + 1) : u[i] = (s \o <<v>>)[1 + i - 1]
        BY <1>0, <2>1, SubSeqProperties
    <2>3. Len(u) = Len(s) /\ \A i \in 1..Len(s) : u[i] = s[i]
        BY <1>0, <2>1, <2>2
    <2> HIDE DEF u
    <2>4. u = s
        BY <2>2, <2>3, SeqEqual
    <2> QED BY <2>4 DEF u
<1>6. Buffer!WithoutLast(s \o <<v>>) = s
    BY <1>0, <1>3, <1>5 DEF Buffer!WithoutLast
<1> QED BY <1>1, <1>2, <1>3, <1>4, <1>6

-----------------------------------------------------------------------------
(* The invariant is inductive *)

LEMMA QueueInit ==
    ASSUME Init
    PROVE  QueueInv
<1>1. TypeOK
    BY QueueAssumption DEF Init, TypeOK, Steps
<1>2. CallsOK
    BY ResultFacts DEF Init, CallsOK
<1>3. RemovedOK
    BY DEF Init, RemovedOK
<1> QED BY <1>1, <1>2, <1>3 DEF QueueInv

\* Only one thread is between its lock and its unlock or wait.
LEMMA MutexExcludes ==
    ASSUME TypeOK, NEW t \in Threads, lock = t, NEW u \in Threads, u # t
    PROVE  pc[u] \in {"idle", "lock", "waiting"}
BY DEF TypeOK, Steps

LEMMA QueueNext ==
    ASSUME QueueInv, NEW t \in Threads, Thread(t)
    PROVE  QueueInv'
<1> USE DEF Goes, Comes, Owns
<1>0. TypeOK /\ CallsOK /\ RemovedOK
    BY DEF QueueInv
<1>1. ASSUME Call(t)
      PROVE  QueueInv'
    <2>1. PICK c \in Calls : op' = [op EXCEPT ![t] = c]
        BY <1>1 DEF Call, Calls
    <2>2. c # Buffer!NoCall
        BY <2>1, CallFacts
    <2>3. TypeOK'
        BY <1>0, <1>1, <2>1, <2>2 DEF Call, TypeOK, CallsOK, Steps
    <2>4. CallsOK'
        BY <1>0, <1>1, <2>1 DEF Call, TypeOK, CallsOK, IsPush
    <2>5. RemovedOK'
        BY <1>0, <1>1, <2>1 DEF Call, TypeOK, CallsOK, RemovedOK, MakesRoom
    <2> QED BY <2>3, <2>4, <2>5 DEF QueueInv
<1>2. ASSUME Lock(t)
      PROVE  QueueInv'
    <2>1. TypeOK'
        BY <1>0, <1>2, QueueAssumption DEF Lock, TypeOK, Steps
    <2>2. CallsOK' /\ RemovedOK'
        BY <1>0, <1>2 DEF Lock, TypeOK, CallsOK, RemovedOK, IsPush, MakesRoom
    <2> QED BY <2>1, <2>2 DEF QueueInv
<1>3. ASSUME PushRefused(t)
      PROVE  QueueInv'
    <2>1. TypeOK'
        BY <1>0, <1>3 DEF PushRefused, TypeOK, Steps
    <2>2. CallsOK'
        BY <1>0, <1>3, ResultFacts DEF PushRefused, TypeOK, CallsOK, IsPush
    <2>3. RemovedOK'
        BY <1>0, <1>3 DEF PushRefused, TypeOK, RemovedOK, MakesRoom
    <2> QED BY <2>1, <2>2, <2>3 DEF QueueInv
<1>4. ASSUME Evict(t)
      PROVE  QueueInv'
    <2>1. Len(items) >= Limit /\ items # <<>> /\ op[t].limit
        BY <1>0, <1>4, QueueAssumption, LenProperties DEF Evict, AtLimit, TypeOK
    <2>2. /\ items[Len(items)] \in Values
          /\ items' \in Seq(Values) /\ Len(items') = Len(items) - 1
        BY <1>0, <1>4, <2>1, BufferFacts DEF Evict, TypeOK
    <2>3. TypeOK'
        BY <1>0, <1>4, <2>2 DEF Evict, TypeOK, Steps
    <2>4. CallsOK'
        BY <1>0, <1>4 DEF Evict, TypeOK, CallsOK, IsPush
    <2>5. \A u \in Threads : pc'[u] = "insert" => u = t
        BY <1>0, <1>4, MutexExcludes DEF Evict, TypeOK
    <2>6. Len(items') + 1 >= Limit
        BY <1>0, <2>1, <2>2, LenProperties DEF TypeOK
    <2>7. RemovedOK'
        BY <1>0, <1>4, <2>1, <2>2, <2>5, <2>6 DEF Evict, TypeOK, RemovedOK, MakesRoom
    <2> QED BY <2>3, <2>4, <2>7 DEF QueueInv
<1>5. ASSUME Insert(t)
      PROVE  QueueInv'
    <2>1. IsPush(t) /\ op[t].val \in Values
        BY <1>0, <1>5, CallFacts DEF Insert, CallsOK, IsPush
    <2>2. items' \in Seq(Values)
        BY <1>0, <1>5, <2>1, BufferFacts DEF Insert, TypeOK
    <2>3. PICK r \in Results \ {Buffer!Pending} : res' = [res EXCEPT ![t] = r]
        <3>1. CASE Owns(t, "body")
            BY <1>5, <3>1, ResultFacts DEF Insert
        <3>2. CASE Owns(t, "insert")
            <4>1. removed[1] \in Values
                BY <1>0, <3>2 DEF RemovedOK
            <4> QED BY <1>5, <3>2, <4>1, ResultFacts DEF Insert
        <3> QED BY <1>5, <3>1, <3>2 DEF Insert
    <2>4. TypeOK'
        BY <1>0, <1>5, <2>2 DEF Insert, TypeOK, Steps
    <2>5. CallsOK'
        BY <1>0, <1>5, <2>1, <2>3 DEF Insert, TypeOK, CallsOK, IsPush
    <2>6. RemovedOK'
        BY <1>0, <1>5, MutexExcludes DEF Insert, TypeOK, RemovedOK
    <2> QED BY <2>4, <2>5, <2>6 DEF QueueInv
<1>6. ASSUME Signal(t)
      PROVE  QueueInv'
    <2>1. TypeOK'
        BY <1>0, <1>6 DEF Signal, TypeOK, Steps
    <2>2. CallsOK'
        BY <1>0, <1>6 DEF Signal, TypeOK, CallsOK, IsPush
    <2>3. RemovedOK'
        BY <1>0, <1>6 DEF Signal, TypeOK, RemovedOK, MakesRoom
    <2> QED BY <2>1, <2>2, <2>3 DEF QueueInv
<1>7. ASSUME PopTakes(t)
      PROVE  QueueInv'
    <2>1. Head(items) \in Values /\ items' \in Seq(Values)
        BY <1>0, <1>7, HeadTailProperties DEF PopTakes, TypeOK
    <2>2. TypeOK'
        BY <1>0, <1>7, <2>1 DEF PopTakes, TypeOK, Steps
    <2>3. CallsOK'
        BY <1>0, <1>7, <2>1, ResultFacts DEF PopTakes, TypeOK, CallsOK, IsPush
    <2>4. RemovedOK'
        BY <1>0, <1>7, MutexExcludes DEF PopTakes, TypeOK, RemovedOK
    <2> QED BY <2>2, <2>3, <2>4 DEF QueueInv
<1>8. ASSUME PopFindsNothing(t)
      PROVE  QueueInv'
    <2>1. TypeOK'
        BY <1>0, <1>8 DEF PopFindsNothing, TypeOK, Steps
    <2>2. CallsOK'
        BY <1>0, <1>8, ResultFacts DEF PopFindsNothing, TypeOK, CallsOK, IsPush
    <2>3. RemovedOK'
        BY <1>0, <1>8 DEF PopFindsNothing, TypeOK, RemovedOK, MakesRoom
    <2> QED BY <2>1, <2>2, <2>3 DEF QueueInv
<1>9. ASSUME Wait(t)
      PROVE  QueueInv'
    <2>1. TypeOK'
        BY <1>0, <1>9, QueueAssumption DEF Wait, TypeOK, Steps
    <2>2. op[t].kind = "pop"
        BY <1>0, <1>9, CallFacts DEF Wait, TypeOK, CallsOK, IsPush
    <2>3. CallsOK'
        BY <1>0, <1>9, <2>2 DEF Wait, TypeOK, CallsOK, IsPush
    <2>4. RemovedOK'
        BY <1>0, <1>9 DEF Wait, TypeOK, RemovedOK, MakesRoom
    <2> QED BY <2>1, <2>3, <2>4 DEF QueueInv
<1>10. ASSUME Timeout(t)
       PROVE  QueueInv'
    <2>1. TypeOK'
        BY <1>0, <1>10, QueueAssumption DEF Timeout, TypeOK, Steps
    <2>2. CallsOK' /\ RemovedOK'
        BY <1>0, <1>10 DEF Timeout, TypeOK, CallsOK, RemovedOK, IsPush, MakesRoom
    <2> QED BY <2>1, <2>2 DEF QueueInv
<1>11. ASSUME Unlock(t)
       PROVE  QueueInv'
    <2>1. \A u \in Threads : pc'[u] = "insert" => FALSE
        BY <1>0, <1>11, MutexExcludes DEF Unlock, TypeOK
    <2>2. TypeOK'
        BY <1>0, <1>11, QueueAssumption DEF Unlock, TypeOK, CallsOK, Steps
    <2>3. CallsOK'
        BY <1>0, <1>11, ResultFacts DEF Unlock, TypeOK, CallsOK, IsPush
    <2>4. RemovedOK'
        BY <1>0, <1>11, <2>1, MutexExcludes DEF Unlock, TypeOK, RemovedOK
    <2> QED BY <2>2, <2>3, <2>4 DEF QueueInv
<1> QED
    BY <1>1, <1>2, <1>3, <1>4, <1>5, <1>6, <1>7, <1>8, <1>9, <1>10, <1>11 DEF Thread

LEMMA QueueInvariant == Spec => []QueueInv
<1>1. Init => QueueInv
    BY QueueInit
<1>2. QueueInv /\ [Next]_vars => QueueInv'
    <2>1. ASSUME QueueInv, UNCHANGED vars
          PROVE  QueueInv'
        BY <2>1 DEF QueueInv, TypeOK, CallsOK, RemovedOK, vars, IsPush, MakesRoom
    <2> QED BY <2>1, QueueNext DEF Next
<1> QED BY <1>1, <1>2, PTL DEF Spec

\* Every variable holds what the code keeps there, and the mutex belongs to
\* exactly the thread that is between its lock and its unlock or wait.
THEOREM QueueTypeCorrect == Spec => []TypeOK
BY QueueInvariant, PTL DEF QueueInv

-----------------------------------------------------------------------------
(* Every call is atomic *)

\* The buffer as the abstract specification sees it.
Seen == items \o removed

LEMMA NothingOut ==
    ASSUME QueueInv, NEW t \in Threads, lock = t, pc[t] # "insert"
    PROVE  removed = <<>> /\ Seen = items
<1>1. removed = <<>>
    BY MutexExcludes DEF QueueInv, RemovedOK
<1> QED BY <1>1, ConcatEmptySeq DEF Seen, QueueInv, TypeOK

\* A push takes effect where it puts its value in, and not where it takes
\* another out.
LEMMA InsertTakesEffect ==
    ASSUME QueueInv, NEW t \in Threads, Insert(t)
    PROVE  Buffer!PushTakesEffect(t)
<1>1. /\ IsPush(t) /\ op[t].val \in Values /\ lock = t
      /\ res[t] = Buffer!Pending /\ items \in Seq(Values)
    BY CallFacts DEF Insert, Owns, QueueInv, TypeOK, CallsOK, IsPush
<1>2. Seen' = Buffer!Insert(items, op[t].val) /\ UNCHANGED <<lifo, op>>
    <2>1. Buffer!Insert(items, op[t].val) \in Seq(Values)
        BY <1>1, BufferFacts
    <2> QED BY <2>1, ConcatEmptySeq DEF Insert, Seen
<1>3. CASE Owns(t, "body") /\ ~AtLimit(t) /\ Comes(t, Buffer!Done)
    <2>1. Seen = items
        BY <1>1, <1>3, NothingOut DEF Owns
    <2> QED
        BY <1>1, <1>2, <1>3, <2>1
        DEF Buffer!PushTakesEffect, Buffer!IsFull, Buffer!Returns, Seen, AtLimit, Comes, IsPush
<1>4. CASE Owns(t, "insert") /\ Comes(t, Buffer!Got(removed[1]))
    <2>1. PICK v \in Values : removed = <<v>>
        BY <1>4 DEF QueueInv, RemovedOK, Owns
    <2>2. MakesRoom(t) /\ op[t].limit /\ Len(items) + 1 >= Limit
        BY <1>4 DEF QueueInv, RemovedOK, Owns
    <2>3. /\ Len(Seen) = Len(items) + 1
          /\ Seen[Len(Seen)] = v
          /\ Buffer!WithoutLast(Seen) = items
        BY <1>1, <2>1, BufferFacts DEF Seen
    <2>4. /\ res' = [res EXCEPT ![t] = Buffer!Got(Seen[Len(Seen)])]
          /\ Seen' = Buffer!Insert(Buffer!WithoutLast(Seen), op[t].val)
        BY <1>2, <1>4, <2>1, <2>3 DEF Comes
    <2> QED
        BY <1>1, <1>2, <2>2, <2>3, <2>4
        DEF Buffer!PushTakesEffect, Buffer!IsFull, Buffer!MakesRoom, Buffer!Returns,
            Seen, MakesRoom, IsPush
<1> QED BY <1>3, <1>4 DEF Insert

LEMMA StepLinear ==
    ASSUME QueueInv, NEW t \in Threads, Thread(t)
    PROVE  Buffer!Next \/ UNCHANGED Buffer!bvars
<1> USE DEF Goes, Comes, Owns
<1>0. TypeOK /\ CallsOK
    BY DEF QueueInv
<1>1. ASSUME Call(t)
      PROVE  Buffer!Invoke(t)
    BY <1>0, <1>1 DEF Call, Buffer!Invoke, TypeOK
<1>2. ASSUME PushRefused(t)
      PROVE  Buffer!PushTakesEffect(t)
    <2>1. Seen = items /\ res[t] = Buffer!Pending
        BY <1>0, <1>2, NothingOut DEF PushRefused, CallsOK
    <2> QED
        BY <1>2, <2>1 DEF PushRefused, Buffer!PushTakesEffect, Buffer!IsFull,
                          Buffer!MakesRoom, Buffer!Returns, Seen, AtLimit, MakesRoom, IsPush
<1>3. ASSUME Evict(t)
      PROVE  UNCHANGED Buffer!bvars
    <2>1. Seen = items /\ items # <<>>
        BY <1>0, <1>3, NothingOut, QueueAssumption, LenProperties DEF Evict, AtLimit, TypeOK
    <2>2. Seen' = items
        BY <1>0, <1>3, <2>1, BufferFacts, SMTT(30) DEF Evict, Seen, TypeOK
    <2> QED BY <1>3, <2>1, <2>2 DEF Evict, Buffer!bvars, Seen
<1>4. ASSUME PopTakes(t)
      PROVE  Buffer!PopTakesEffect(t)
    <2>1. removed = <<>> /\ Seen = items /\ res[t] = Buffer!Pending
        BY <1>0, <1>4, NothingOut DEF PopTakes, CallsOK
    <2>2. op[t].kind = "pop"
        BY <1>0, <1>4, CallFacts DEF PopTakes, TypeOK, CallsOK, IsPush
    <2>3. Tail(items) \in Seq(Values)
        BY <1>0, <1>4, HeadTailProperties DEF PopTakes, TypeOK
    <2>4. Seen' = Tail(items)
        BY <1>4, <2>1, <2>3, ConcatEmptySeq DEF PopTakes, Seen
    <2> QED
        BY <1>4, <2>1, <2>2, <2>4 DEF PopTakes, Buffer!PopTakesEffect, Buffer!Returns, Seen
<1>5. ASSUME PopFindsNothing(t)
      PROVE  Buffer!PopTakesEffect(t)
    <2>1. Seen = items /\ res[t] = Buffer!Pending
        BY <1>0, <1>5, NothingOut DEF PopFindsNothing, CallsOK
    <2>2. op[t].kind = "pop"
        BY <1>0, <1>5, CallFacts DEF PopFindsNothing, TypeOK, CallsOK, IsPush
    <2> QED
        BY <1>5, <2>1, <2>2 DEF PopFindsNothing, Buffer!PopTakesEffect, Buffer!Returns, Seen
<1>6. ASSUME Unlock(t)
      PROVE  Buffer!Return(t)
    BY <1>0, <1>6 DEF Unlock, Buffer!Return, TypeOK, CallsOK
<1>7. ASSUME Lock(t) \/ Signal(t) \/ Wait(t) \/ Timeout(t)
      PROVE  UNCHANGED Buffer!bvars
    BY <1>7 DEF Lock, Signal, Wait, Timeout, Buffer!bvars
<1> QED
    BY <1>1, <1>2, <1>3, <1>4, <1>5, <1>6, <1>7, InsertTakesEffect DEF Thread, Buffer!Next

\* Every Push and Pop takes effect in one instant between its call and its
\* return: the code's buffers implement AtomicBuffer (queue.h:80-161).
THEOREM QueueIsLinearizable == Spec => Linearizable
<1>1. Init => Buffer!Init
    <2>1. ASSUME Init
          PROVE  items \o removed = <<>>
        BY <2>1 DEF Init
    <2> QED BY <2>1 DEF Init, Buffer!Init
<1>2. QueueInv /\ [Next]_vars => [Buffer!Next]_(Buffer!bvars)
    <2>1. UNCHANGED vars => UNCHANGED Buffer!bvars
        BY DEF vars, Buffer!bvars
    <2> QED BY <2>1, StepLinear DEF Next
<1> QED BY <1>1, <1>2, QueueInvariant, PTL DEF Spec, Linearizable, Buffer!Spec

-----------------------------------------------------------------------------
(* No consumer sleeps through an item *)

LEMMA AwakeFinite ==
    /\ IsFiniteSet(Takers) /\ IsFiniteSet(Signallers)
    /\ Cardinality(Takers) \in Nat /\ Cardinality(Signallers) \in Nat
<1>1. Takers \in SUBSET Threads /\ Signallers \in SUBSET Threads
    BY DEF Takers, Signallers
<1> QED BY <1>1, QueueAssumption, FS_Subset, FS_CardinalityType

\* The invariant carries itself, given what the calls are: an insertion that
\* adds an item adds a signaller, a signal makes a taker of a sleeper, a taker
\* that leaves takes an item with it, and nobody goes to sleep on an item.
LEMMA TakersNext ==
    ASSUME QueueInv, EveryItemHasATaker, NEW t \in Threads, Thread(t)
    PROVE  EveryItemHasATaker'
<1> USE DEF Goes, Comes, Owns
<1> DEFINE T == Cardinality(Takers)
           S == Cardinality(Signallers)
<1>0. /\ TypeOK /\ CallsOK
      /\ Len(items) \in Nat /\ T \in Nat /\ S \in Nat
      /\ IsFiniteSet(Takers) /\ IsFiniteSet(Signallers)
    BY AwakeFinite, LenProperties DEF QueueInv, TypeOK
<1>s. ASSUME items' = items, Takers' = Takers, Signallers' = Signallers, waiting' = waiting
      PROVE  EveryItemHasATaker'
    BY <1>s DEF EveryItemHasATaker
<1>e. ASSUME items' = <<>>
      PROVE  EveryItemHasATaker'
    <2>1. T' \in Nat /\ S' \in Nat /\ Len(items') = 0
        <3>1. (IsFiniteSet(Takers) /\ IsFiniteSet(Signallers)
               /\ Cardinality(Takers) \in Nat /\ Cardinality(Signallers) \in Nat)'
            BY AwakeFinite, PTL
        <3> QED BY <1>e, <3>1
    <2> QED BY <2>1 DEF EveryItemHasATaker
<1>1. ASSUME Call(t)
      PROVE  EveryItemHasATaker'
    <2>1. PICK c \in Calls : op' = [op EXCEPT ![t] = c]
        BY <1>1 DEF Call, Calls
    <2>2. t \notin Takers /\ Signallers' = Signallers
        BY <1>0, <1>1 DEF Call, TypeOK, Takers, Signallers, Steps
    <2>3. CASE c.kind = "pop"
        <3>1. Takers' = Takers \union {t}
            BY <1>0, <1>1, <2>1, <2>3 DEF Call, TypeOK, CallsOK, Takers, Steps
        <3>2. T' = T + 1
            BY <1>0, <2>2, <3>1, FS_AddElement
        <3> QED BY <1>0, <1>1, <2>2, <3>2 DEF Call, EveryItemHasATaker
    <2>4. CASE c.kind # "pop"
        <3>1. Takers' = Takers
            BY <1>0, <1>1, <2>1, <2>2, <2>4 DEF Call, TypeOK, CallsOK, Takers, Steps
        <3> QED BY <1>1, <1>s, <2>2, <3>1 DEF Call
    <2> QED BY <2>3, <2>4
<1>2. ASSUME Lock(t)
      PROVE  EveryItemHasATaker'
    <2>1. Takers' = Takers /\ Signallers' = Signallers
        BY <1>0, <1>2 DEF Lock, TypeOK, Takers, Signallers, Steps
    <2> QED BY <1>2, <1>s, <2>1 DEF Lock
<1>3. ASSUME PushRefused(t)
      PROVE  EveryItemHasATaker'
    <2>1. Takers' = Takers /\ Signallers' = Signallers
        BY <1>0, <1>3 DEF PushRefused, TypeOK, Takers, Signallers, Steps, IsPush
    <2> QED BY <1>3, <1>s, <2>1 DEF PushRefused
<1>4. ASSUME Evict(t)
      PROVE  EveryItemHasATaker'
    <2>1. Takers' = Takers /\ Signallers' = Signallers
        BY <1>0, <1>4 DEF Evict, TypeOK, Takers, Signallers, Steps, IsPush
    <2>2. items # <<>>
        BY <1>0, <1>4, QueueAssumption, LenProperties DEF Evict, AtLimit, TypeOK
    <2>3. Len(items') = Len(items) - 1
        BY <1>0, <1>4, <2>2, BufferFacts DEF Evict, TypeOK
    <2> QED BY <1>0, <1>4, <2>1, <2>3 DEF Evict, EveryItemHasATaker
<1>5. ASSUME Insert(t)
      PROVE  EveryItemHasATaker'
    <2>1. IsPush(t) /\ op[t].val \in Values
        BY <1>0, <1>5, CallFacts DEF Insert, CallsOK, IsPush
    <2>2. Len(items') = Len(items) + 1
        BY <1>0, <1>5, <2>1, BufferFacts DEF Insert, TypeOK
    <2>3. Takers' = Takers
        BY <1>0, <1>5, <2>1 DEF Insert, TypeOK, Takers, Steps, IsPush
    <2>4. Signallers' = Signallers \union {t} /\ t \notin Signallers
        BY <1>0, <1>5 DEF Insert, TypeOK, Signallers, Steps
    <2>5. S' = S + 1
        BY <1>0, <2>4, FS_AddElement
    <2> QED BY <1>0, <1>5, <2>2, <2>3, <2>5 DEF Insert, EveryItemHasATaker
<1>6. ASSUME Signal(t)
      PROVE  EveryItemHasATaker'
    <2>1. CASE waiting = {}
        BY <1>6, <2>1 DEF Signal, EveryItemHasATaker
    <2>2. CASE waiting # {}
        <3>1. PICK w \in waiting : /\ waiting' = waiting \ {w}
                                   /\ pc' = [pc EXCEPT ![t] = "unlock", ![w] = "lock"]
            BY <1>6, <2>2 DEF Signal
        <3>2. w \in Threads /\ pc[w] = "waiting" /\ op[w].kind = "pop" /\ w # t
            BY <1>0, <1>6, <3>1 DEF Signal, TypeOK, CallsOK
        <3>3. op[t].kind = "push"
            BY <1>0, <1>6 DEF Signal, CallsOK, IsPush
        <3>4. Takers' = Takers \union {w} /\ w \notin Takers
            BY <1>0, <1>6, <3>1, <3>2, <3>3 DEF Signal, TypeOK, Takers, Steps
        <3>5. Signallers' = Signallers \ {t} /\ t \in Signallers
            BY <1>0, <1>6, <3>1, <3>2 DEF Signal, TypeOK, Signallers, Steps
        <3>6. T' = T + 1
            BY <1>0, <3>4, FS_AddElement
        <3>7. S' = S - 1
            BY <1>0, <3>5, FS_RemoveElement
        <3> QED BY <1>0, <1>6, <2>2, <3>6, <3>7 DEF Signal, EveryItemHasATaker
    <2> QED BY <2>1, <2>2
<1>7. ASSUME PopTakes(t)
      PROVE  EveryItemHasATaker'
    <2>1. op[t].kind = "pop"
        BY <1>0, <1>7, CallFacts DEF PopTakes, TypeOK, CallsOK, IsPush
    <2>2. Takers' = Takers \ {t} /\ t \in Takers /\ Signallers' = Signallers
        BY <1>0, <1>7, <2>1 DEF PopTakes, TypeOK, Takers, Signallers, Steps
    <2>3. T' = T - 1
        BY <1>0, <2>2, FS_RemoveElement
    <2>4. Len(items') = Len(items) - 1
        BY <1>0, <1>7, HeadTailProperties DEF PopTakes, TypeOK
    <2> QED BY <1>0, <1>7, <2>2, <2>3, <2>4 DEF PopTakes, EveryItemHasATaker
<1>8. ASSUME PopFindsNothing(t) \/ Wait(t)
      PROVE  EveryItemHasATaker'
    BY <1>8, <1>e DEF PopFindsNothing, Wait
<1>9. ASSUME Timeout(t)
      PROVE  EveryItemHasATaker'
    <2>1. pc[t] = "waiting" /\ op[t].kind = "pop"
        BY <1>0, <1>9 DEF Timeout, TypeOK, CallsOK
    <2>2. Takers' = Takers \union {t} /\ t \notin Takers /\ Signallers' = Signallers
        BY <1>0, <1>9, <2>1 DEF Timeout, TypeOK, Takers, Signallers, Steps
    <2>3. T' = T + 1
        BY <1>0, <2>2, FS_AddElement
    <2> QED BY <1>0, <1>9, <2>2, <2>3 DEF Timeout, EveryItemHasATaker
<1>10. ASSUME Unlock(t)
       PROVE  EveryItemHasATaker'
    <2>1. Takers' = Takers /\ Signallers' = Signallers
        BY <1>0, <1>10 DEF Unlock, TypeOK, CallsOK, Takers, Signallers, Steps
    <2> QED BY <1>10, <1>s, <2>1 DEF Unlock
<1> QED
    BY <1>1, <1>2, <1>3, <1>4, <1>5, <1>6, <1>7, <1>8, <1>9, <1>10 DEF Thread

\* While some thread sleeps in Pop, every item has a thread that is about to
\* take it or to wake another (queue.h:93-94, 104-120, 153-158).
THEOREM NoItemSleptThrough == Spec => []EveryItemHasATaker
<1>1. Init => EveryItemHasATaker
    BY DEF Init, EveryItemHasATaker
<1>2. QueueInv /\ EveryItemHasATaker /\ [Next]_vars => EveryItemHasATaker'
    <2>1. ASSUME EveryItemHasATaker, UNCHANGED vars
          PROVE  EveryItemHasATaker'
        BY <2>1 DEF EveryItemHasATaker, Takers, Signallers, vars
    <2> QED BY <2>1, TakersNext DEF Next
<1> QED BY <1>1, <1>2, QueueInvariant, PTL DEF Spec
=============================================================================
