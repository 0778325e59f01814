---------------------------- MODULE AtomicBuffer ----------------------------
(***************************************************************************)
(* What a bounded buffer between threads promises: a call takes effect in  *)
(* one instant between its invocation and its return.  SyncQueue shows     *)
(* that the code's SyncQueue and SyncStack, with their mutex and condition *)
(* variable, are such buffers.                                             *)
(***************************************************************************)
EXTENDS Integers, Sequences

CONSTANTS Threads, Values, Limit

\* A call and its parameters, and what a call has come to.
NoCall == [kind |-> "none"]
PushCalls == [kind : {"push"}, val : Values, evict : BOOLEAN, limit : BOOLEAN]
PopCalls == [kind : {"pop"}, block : BOOLEAN]

Pending == [kind |-> "pending"]
Full == [kind |-> "full"]
Empty == [kind |-> "empty"]
Done == [kind |-> "done"]
Got(v) == [kind |-> "got", val |-> v]

VARIABLES lifo,            \* TRUE: a stack; FALSE: a queue
          items,           \* the buffer, the next to be popped first
          op,              \* the call each thread is in
          res              \* what it has come to

bvars == <<lifo, items, op, res>>

Insert(s, v) == IF lifo THEN <<v>> \o s ELSE Append(s, v)
WithoutLast(s) == SubSeq(s, 1, Len(s) - 1)

\* A full stack makes room only for a push that takes what is removed.
IsFull(t) == op[t].limit /\ Len(items) >= Limit
MakesRoom(t) == lifo /\ op[t].evict

Returns(t, r) == res' = [res EXCEPT ![t] = r] /\ UNCHANGED <<lifo, op>>

Invoke(t) ==
    /\ op[t] = NoCall
    /\ \E c \in PushCalls \union PopCalls : op' = [op EXCEPT ![t] = c]
    /\ UNCHANGED <<lifo, items, res>>

PushTakesEffect(t) ==
    /\ op[t].kind = "push" /\ res[t] = Pending
    /\ \/ ~IsFull(t) /\ items' = Insert(items, op[t].val) /\ Returns(t, Done)
       \/ /\ IsFull(t) /\ MakesRoom(t)
          /\ items' = Insert(WithoutLast(items), op[t].val)
          /\ Returns(t, Got(items[Len(items)]))
       \/ IsFull(t) /\ ~MakesRoom(t) /\ Returns(t, Full) /\ UNCHANGED items

PopTakesEffect(t) ==
    /\ op[t].kind = "pop" /\ res[t] = Pending
    /\ \/ items # <<>> /\ items' = Tail(items) /\ Returns(t, Got(Head(items)))
       \/ items = <<>> /\ ~op[t].block /\ Returns(t, Empty) /\ UNCHANGED items

Return(t) ==
    /\ op[t] # NoCall /\ res[t] # Pending
    /\ op' = [op EXCEPT ![t] = NoCall]
    /\ res' = [res EXCEPT ![t] = Pending]
    /\ UNCHANGED <<lifo, items>>

Init ==
    /\ lifo \in BOOLEAN
    /\ items = <<>>
    /\ op = [t \in Threads |-> NoCall]
    /\ res = [t \in Threads |-> Pending]

Next == \E t \in Threads :
    Invoke(t) \/ PushTakesEffect(t) \/ PopTakesEffect(t) \/ Return(t)

Spec == Init /\ [][Next]_bvars
=============================================================================
