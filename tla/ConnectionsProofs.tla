--------------------------- MODULE ConnectionsProofs ---------------------------
(***************************************************************************)
(* Proofs about Connections, for any peers, descriptors, handlers and      *)
(* frames: every variable holds what it should, and, until an answer for a *)
(* handler that has ended acts on another's descriptor, descriptors and    *)
(* watched handlers are one to one and every connection waits for what it  *)
(* has to wait for.  Answers for ended handlers are part of this.          *)
(***************************************************************************)
EXTENDS Connections, TLAPS, FiniteSetTheorems, WellFoundedInduction

HandlerRecords ==
    [peer : Peers \union {Nobody}, fd : Fds \union {0},
     read : EventStates, write : EventStates, out : 0..MaxFrames,
     closing : BOOLEAN, frames : 0..MaxFrames, inflight : 0..MaxFrames]

Watched(hr) == hr.read # "off" \/ hr.write # "off"

\* It waits for input, and for room to write exactly while it has something to
\* send; it has, if it is to be closed after sending.
Waits(hr) ==
    /\ hr.read = "on"
    /\ hr.out > 0 <=> hr.write = "on"
    /\ hr.closing => hr.out > 0

-----------------------------------------------------------------------------
(* The inductive invariants *)

\* A handler has a peer and a descriptor from the time it is made, and nothing
\* before; what it has to send are answers to frames that came in.
HandlersOK ==
    /\ \A h \in Handlers : h \notin Registry => handler[h] = NoHandler
    /\ \A h \in Registry : handler[h].peer \in Peers /\ handler[h].fd \in Fds
    /\ \A h \in Handlers : handler[h].out + handler[h].inflight <= handler[h].frames
    /\ \A p \in Peers : heard[p] \subseteq Registry

\* Descriptors and watched handlers are one to one.
OneToOne ==
    /\ \A h \in Registry : Attached(h) => owner[handler[h].fd] = handler[h].peer
    /\ \A h \in Registry, k \in Registry :
          Attached(h) /\ Attached(k) /\ handler[h].fd = handler[k].fd => h = k
    /\ \A f \in Fds : owner[f] \in Peers =>
          \E h \in Registry : Attached(h) /\ handler[h].fd = f

\* The acceptor's descriptor is its own.
AcceptorOK ==
    /\ \A f \in Fds : owner[f] = Listener <=> acceptor.fd = f
    /\ acceptor.read = "on" => acceptor.fd # 0

ConnectionsInv == TypeOK /\ HandlersOK
OwnedInv == ~astray => OneToOne /\ AcceptorOK /\ Attended

-----------------------------------------------------------------------------
(* The lowest free descriptor *)

LEMMA LeastOf ==
    ASSUME NEW S, IsFiniteSet(S), S \subseteq Nat, S # {}
    PROVE  Min(S) \in S
<1> DEFINE Upto(x) == {y \in S : y <= x}
           Family == {Upto(x) : x \in S}
<1>1. Family \subseteq FiniteSubsetsOf(S) /\ Family # {}
    <2>1. \A x \in S : Upto(x) \in SUBSET S
        OBVIOUS
    <2>2. \A T \in SUBSET S : IsFiniteSet(T)
        BY FS_Subset
    <2>3. Family \subseteq FiniteSubsetsOf(S)
        BY <2>1, <2>2 DEF FiniteSubsetsOf
    <2> QED BY <2>3
<1>2. PICK U \in Family : \A V \in Family : <<V, U>> \notin StrictSubsetOrdering(S)
    <2> HIDE DEF Family
    <2> QED BY <1>1, WFMin, FS_StrictSubsetOrderingWellFounded
<1>3. PICK x \in S : U = Upto(x)
    BY <1>2
<1>4. ASSUME NEW y \in S, y < x
      PROVE  FALSE
    <2>1. Upto(y) \subseteq Upto(x) /\ x \in Upto(x) /\ x \notin Upto(y)
        <3>1. x \in Nat /\ y \in Nat /\ \A z \in S : z \in Nat
            OBVIOUS
        <3>2. \A z \in S : z <= y => z <= x
            BY <1>4, <3>1
        <3>3. x <= x /\ ~(x <= y)
            BY <1>4, <3>1
        <3> QED BY <3>2, <3>3
    <2>2. <<Upto(y), U>> \in StrictSubsetOrdering(S)
        BY <1>3, <2>1 DEF StrictSubsetOrdering
    <2> QED BY <1>2, <2>2
<1>5. \A y \in S : x <= y
    BY <1>4
<1> QED BY <1>5 DEF Min

LEMMA FreeFacts ==
    ASSUME TypeOK, Free # {}
    PROVE  Min(Free) \in Fds /\ owner[Min(Free)] = Nobody /\ Min(Free) # 0
<1>1. Free \in SUBSET Fds /\ Free \subseteq Nat
    BY ConnectionsAssumption DEF Free
<1>2. Min(Free) \in Free
    BY <1>1, ConnectionsAssumption, FS_Subset, LeastOf
<1> QED BY <1>2, ConnectionsAssumption DEF Free

-----------------------------------------------------------------------------
(* What a callback of a handler can do *)

\* The callback leaves the record r of a handler it found as hr: the handler is
\* still watched and its descriptor open, or neither.
After(h, hr, r) ==
    /\ r \in HandlerRecords
    /\ handler' = [handler EXCEPT ![h] = r]
    /\ r.peer = hr.peer /\ r.fd = hr.fd
    /\ r.out + r.inflight <= r.frames
    /\ \/ UNCHANGED owner /\ (Watched(hr) => Watched(r))
       \/ owner' = [owner EXCEPT ![hr.fd] = Nobody] /\ ~Watched(r)

LEMMA CloseDoes ==
    ASSUME NEW h, NEW hr \in HandlerRecords, hr.out + hr.inflight <= hr.frames, Close(h, hr)
    PROVE  \E r : After(h, hr, r) /\ ~Watched(r)
<1> DEFINE r == [hr EXCEPT !.read = "off", !.write = "off"]
<1>1. /\ r \in HandlerRecords /\ r.peer = hr.peer /\ r.fd = hr.fd
      /\ r.out = hr.out /\ r.inflight = hr.inflight /\ r.frames = hr.frames
      /\ r.read = "off" /\ r.write = "off"
    BY DEF HandlerRecords, EventStates
<1>2. handler' = [handler EXCEPT ![h] = r] /\ owner' = [owner EXCEPT ![hr.fd] = Nobody]
    BY DEF Close
<1> HIDE DEF r
<1>3. After(h, hr, r) /\ ~Watched(r)
    BY <1>1, <1>2 DEF After, Watched
<1> QED BY <1>3

LEMMA OutputDoes ==
    ASSUME NEW h, NEW hr \in HandlerRecords, hr.out + hr.inflight <= hr.frames, hr.out > 0,
           Output(h, hr)
    PROVE  \E r : After(h, hr, r) /\ (~interrupts /\ hr.read = "on" /\ Watched(r) => Waits(r))
<1>0. /\ hr.out \in Nat /\ hr.inflight \in Nat /\ hr.frames \in Nat /\ hr.frames <= MaxFrames
      /\ 0 \in 0..MaxFrames /\ "off" \in EventStates /\ "on" \in EventStates
      /\ hr.out <= MaxFrames /\ hr.inflight <= hr.frames /\ MaxFrames \in Nat
      /\ [hr EXCEPT !.out = 0].read = hr.read
    BY ConnectionsAssumption DEF HandlerRecords, EventStates
<1> DEFINE Goal == \E r : /\ After(h, hr, r)
                          /\ ~interrupts /\ hr.read = "on" /\ Watched(r) => Waits(r)
<1>1. ASSUME Close(h, hr)
      PROVE  Goal
    BY <1>1, CloseDoes
<1>2. ASSUME interrupts, Keep(h, hr)
      PROVE  Goal
    BY <1>2 DEF Keep, After
<1>3. ASSUME hr.closing \/ hr.read = "off", Close(h, [hr EXCEPT !.out = 0])
      PROVE  Goal
    <2> DEFINE sent == [hr EXCEPT !.out = 0]
    <2>1. /\ sent \in HandlerRecords /\ sent.out + sent.inflight <= sent.frames
          /\ sent.peer = hr.peer /\ sent.fd = hr.fd
          /\ sent.read = hr.read /\ sent.write = hr.write
        BY <1>0 DEF HandlerRecords
    <2> HIDE DEF sent
    <2>2. PICK r : After(h, sent, r) /\ ~Watched(r)
        BY <1>3, <2>1, CloseDoes DEF sent
    <2>3. After(h, hr, r)
        BY <2>1, <2>2 DEF After, Watched
    <2> QED BY <2>2, <2>3
<1>4. ASSUME ~hr.closing, hr.read # "off", Keep(h, [[hr EXCEPT !.out = 0] EXCEPT !.write = "off"])
      PROVE  Goal
    <2> DEFINE r == [[hr EXCEPT !.out = 0] EXCEPT !.write = "off"]
    <2>1. /\ r \in HandlerRecords /\ r.inflight = hr.inflight
          /\ r.frames = hr.frames /\ r.peer = hr.peer /\ r.fd = hr.fd /\ r.read = hr.read
          /\ r.out = 0 /\ r.write = "off" /\ r.closing = hr.closing
        BY <1>0 DEF HandlerRecords
    <2>2. handler' = [handler EXCEPT ![h] = r] /\ UNCHANGED owner
        BY <1>4 DEF Keep
    <2> HIDE DEF r
    <2>3. r.out + r.inflight <= r.frames
        BY <1>0, <2>1
    <2>4. After(h, hr, r) /\ (hr.read = "on" => Waits(r))
        BY <1>4, <2>1, <2>2, <2>3 DEF After, Watched, Waits
    <2> QED BY <2>4
<1>5. ASSUME NEW rest \in 1..hr.out, AwaitWritable(h, [hr EXCEPT !.out = rest])
      PROVE  Goal
    <2> DEFINE part == [hr EXCEPT !.out = rest]
               r == [part EXCEPT !.write = "on"]
    <2>0. rest \in 0..MaxFrames /\ rest > 0 /\ rest + hr.inflight <= hr.frames
        BY <1>0, <1>5
    <2>1. /\ part \in HandlerRecords /\ part.out + part.inflight <= part.frames
          /\ part.peer = hr.peer /\ part.fd = hr.fd
          /\ part.read = hr.read /\ part.write = hr.write
        BY <2>0 DEF HandlerRecords
    <2>2. /\ r \in HandlerRecords /\ r.out + r.inflight <= r.frames
          /\ r.peer = hr.peer /\ r.fd = hr.fd /\ r.read = hr.read
          /\ r.out > 0 /\ r.write = "on"
        BY <1>0, <2>0 DEF HandlerRecords
    <2>3. CASE Keep(h, r)
        <3>1. handler' = [handler EXCEPT ![h] = r] /\ UNCHANGED owner
            BY <2>3 DEF Keep
        <3> HIDE DEF r
        <3>2. After(h, hr, r) /\ (hr.read = "on" => Waits(r))
            BY <2>2, <3>1 DEF After, Watched, Waits
        <3> QED BY <3>2
    <2>4. CASE Close(h, part)
        <3> HIDE DEF part, r
        <3>1. PICK q : After(h, part, q) /\ ~Watched(q)
            BY <2>1, <2>4, CloseDoes
        <3>2. After(h, hr, q)
            BY <2>1, <3>1 DEF After, Watched
        <3> QED BY <3>1, <3>2
    <2> QED BY <1>5, <2>3, <2>4 DEF AwaitWritable
<1>6. ASSUME IF hr.closing THEN Close(h, [hr EXCEPT !.out = 0])
             ELSE NothingToWrite(h, [hr EXCEPT !.out = 0])
      PROVE  Goal
    <2> HIDE DEF Goal
    <2>1. CASE hr.closing \/ hr.read = "off"
        BY <1>0, <1>3, <1>6, <2>1 DEF NothingToWrite
    <2>2. CASE ~hr.closing /\ hr.read # "off"
        BY <1>0, <1>4, <1>6, <2>2 DEF NothingToWrite
    <2> QED BY <2>1, <2>2
<1> HIDE DEF Goal
<1>7. Goal
    BY <1>1, <1>2, <1>5, <1>6 DEF Output
<1> QED BY <1>7 DEF Goal

\* Only a registered handler has callbacks.
LEMMA OnlyRegistered ==
    ASSUME ConnectionsInv, NEW h \in Handlers, Callback(h)
    PROVE  h \in Registry
<1>1. ASSUME h \notin Registry
      PROVE  handler[h].read = "off" /\ handler[h].write = "off" /\ handler[h].inflight = 0
    BY <1>1 DEF ConnectionsInv, HandlersOK, NoHandler
<1>2. ASSUME NoAnswer(h)
      PROVE  handler[h].inflight > 0
    BY <1>2 DEF NoAnswer
<1>3. ASSUME ~NoAnswer(h)
      PROVE  handler[h].read = "on" \/ handler[h].write = "on" \/ h \in Registry
    BY <1>3 DEF Callback, HandleInput, InputInterrupted, HandleOutput, HandleTimeout,
                Answer, Ready
<1> QED BY <1>1, <1>2, <1>3

LEMMA CallbackDoes ==
    ASSUME ConnectionsInv, NEW h \in Handlers, Callback(h)
    PROVE  \E r : /\ After(h, handler[h], r)
                  /\ ~interrupts /\ Waits(handler[h]) /\ Watched(r) => Waits(r)
<1> DEFINE hr == handler[h]
           Goal == \E r : /\ After(h, hr, r)
                          /\ ~interrupts /\ Waits(hr) /\ Watched(r) => Waits(r)
<1>0. /\ hr \in HandlerRecords /\ hr.out + hr.inflight <= hr.frames
      /\ hr.out \in Nat /\ hr.inflight \in Nat /\ hr.frames \in Nat
      /\ hr.frames <= MaxFrames /\ hr.out <= MaxFrames /\ hr.inflight <= hr.frames
      /\ MaxFrames \in Nat
      /\ \A e \in {"off", "set", "on"} : e \in EventStates
    BY ConnectionsAssumption DEF ConnectionsInv, HandlersOK, TypeOK, HandlerRecords, EventStates
<1> HIDE DEF hr, Goal
\* A record that differs from hr in its events and counts only.
<1>1. ASSUME NEW q \in HandlerRecords, q.out + q.inflight <= q.frames,
             q.peer = hr.peer, q.fd = hr.fd, Watched(hr) => Watched(q), Close(h, q)
      PROVE  Goal
    <2>1. PICK r : After(h, q, r) /\ ~Watched(r)
        BY <1>1, CloseDoes
    <2>2. After(h, hr, r)
        BY <1>1, <2>1 DEF After
    <2> QED BY <2>1, <2>2 DEF Goal
<1>2. ASSUME NEW q \in HandlerRecords, q.out + q.inflight <= q.frames,
             q.peer = hr.peer, q.fd = hr.fd, Watched(hr) => Watched(q), Keep(h, q),
             ~interrupts /\ Waits(hr) /\ Watched(q) => Waits(q)
      PROVE  Goal
    <2>1. After(h, hr, q)
        BY <1>2 DEF After, Keep
    <2> QED BY <1>2, <2>1 DEF Goal
<1>3. ASSUME NEW q \in HandlerRecords, q.out + q.inflight <= q.frames, q.out > 0,
             q.peer = hr.peer, q.fd = hr.fd, Watched(hr) => Watched(q), Output(h, q),
             Waits(hr) => q.read = "on"
      PROVE  Goal
    <2>1. PICK r : After(h, q, r) /\ (~interrupts /\ q.read = "on" /\ Watched(r) => Waits(r))
        BY <1>3, OutputDoes
    <2>2. After(h, hr, r)
        BY <1>3, <2>1 DEF After
    <2> QED BY <1>3, <2>1, <2>2 DEF Goal
<1>4. ASSUME HandleInput(h)
      PROVE  Goal
    <2>1. PICK n \in 0..(MaxFrames - hr.frames) :
             \/ Keep(h, [[hr EXCEPT !.frames = @ + n, !.inflight = @ + n] EXCEPT !.read = "on"])
             \/ Close(h, [[hr EXCEPT !.frames = @ + n, !.inflight = @ + n] EXCEPT !.read = "set"])
        BY <1>4 DEF HandleInput, hr
    <2> DEFINE in == [hr EXCEPT !.frames = @ + n, !.inflight = @ + n]
               q == [in EXCEPT !.read = "on"]
               c == [in EXCEPT !.read = "set"]
    <2>2. /\ hr.frames + n \in 0..MaxFrames /\ hr.inflight + n \in 0..MaxFrames
          /\ hr.out + (hr.inflight + n) <= hr.frames + n
        BY <1>0
    <2>3. /\ q \in HandlerRecords /\ c \in HandlerRecords
          /\ q.out = hr.out /\ q.inflight = hr.inflight + n /\ q.frames = hr.frames + n
          /\ c.out = hr.out /\ c.inflight = hr.inflight + n /\ c.frames = hr.frames + n
          /\ q.peer = hr.peer /\ q.fd = hr.fd /\ c.peer = hr.peer /\ c.fd = hr.fd
          /\ q.read = "on" /\ c.read = "set" /\ q.write = hr.write /\ q.closing = hr.closing
        BY <1>0, <2>2 DEF HandlerRecords
    <2>4. Keep(h, q) \/ Close(h, c)
        BY <2>1
    <2> HIDE DEF q, c
    <2>5. CASE Keep(h, q)
        BY <1>2, <2>2, <2>3, <2>5 DEF Watched, Waits
    <2>6. CASE Close(h, c)
        BY <1>1, <2>2, <2>3, <2>6 DEF Watched
    <2> QED BY <2>4, <2>5, <2>6
<1>5. ASSUME InputInterrupted(h)
      PROVE  Goal
    <2> DEFINE q == [hr EXCEPT !.read = "set"]
    <2>1. /\ q \in HandlerRecords /\ q.out = hr.out /\ q.inflight = hr.inflight
          /\ q.frames = hr.frames /\ q.peer = hr.peer /\ q.fd = hr.fd /\ q.read = "set"
        BY <1>0 DEF HandlerRecords
    <2>2. Keep(h, q) /\ interrupts
        BY <1>5 DEF InputInterrupted, hr
    <2> HIDE DEF q
    <2> QED BY <1>0, <1>2, <2>1, <2>2 DEF Watched
<1>6. ASSUME HandleOutput(h)
      PROVE  Goal
    <2> DEFINE q == [hr EXCEPT !.write = "set"]
    <2>1. /\ q \in HandlerRecords /\ q.out = hr.out /\ q.inflight = hr.inflight
          /\ q.frames = hr.frames /\ q.peer = hr.peer /\ q.fd = hr.fd
          /\ q.write = "set" /\ q.read = hr.read
        BY <1>0 DEF HandlerRecords
    <2>2. Output(h, q) /\ hr.out > 0
        BY <1>6 DEF HandleOutput, hr
    <2> HIDE DEF q
    <2> QED BY <1>0, <1>3, <2>1, <2>2 DEF Watched, Waits
<1>7. ASSUME HandleTimeout(h)
      PROVE  Goal
    BY <1>0, <1>1, <1>7 DEF HandleTimeout, hr
<1>8. ASSUME Answer(h)
      PROVE  Goal
    <2> DEFINE q == [hr EXCEPT !.inflight = @ - 1]
               send == [q EXCEPT !.out = @ + 1]
               last == [q EXCEPT !.out = @ + 1, !.closing = TRUE]
    <2>1. /\ hr.inflight > 0
          /\ Output(h, send) \/ Output(h, last) \/ Close(h, q) \/ Keep(h, q)
        BY <1>8 DEF Answer, hr
    <2>2. /\ hr.inflight - 1 \in 0..MaxFrames /\ hr.out + 1 \in 0..MaxFrames
          /\ hr.out + (hr.inflight - 1) <= hr.frames
          /\ (hr.out + 1) + (hr.inflight - 1) <= hr.frames
        BY <1>0, <2>1
    <2>3. /\ q \in HandlerRecords /\ q.out = hr.out /\ q.inflight = hr.inflight - 1
          /\ q.frames = hr.frames /\ q.peer = hr.peer /\ q.fd = hr.fd
          /\ q.read = hr.read /\ q.write = hr.write /\ q.closing = hr.closing
        BY <1>0, <2>2 DEF HandlerRecords
    <2>4. /\ send \in HandlerRecords /\ send.out = hr.out + 1 /\ send.inflight = hr.inflight - 1
          /\ send.frames = hr.frames /\ send.peer = hr.peer /\ send.fd = hr.fd
          /\ send.read = hr.read /\ send.write = hr.write
        BY <1>0, <2>2 DEF HandlerRecords
    <2>5. /\ last \in HandlerRecords /\ last.out = hr.out + 1 /\ last.inflight = hr.inflight - 1
          /\ last.frames = hr.frames /\ last.peer = hr.peer /\ last.fd = hr.fd
          /\ last.read = hr.read /\ last.write = hr.write
        BY <1>0, <2>2 DEF HandlerRecords
    <2> HIDE DEF q, send, last
    <2>6. CASE Output(h, send)
        BY <1>0, <1>3, <2>2, <2>4, <2>6 DEF Watched, Waits
    <2>7. CASE Output(h, last)
        BY <1>0, <1>3, <2>2, <2>5, <2>7 DEF Watched, Waits
    <2>8. CASE Close(h, q)
        BY <1>1, <2>2, <2>3, <2>8 DEF Watched
    <2>9. CASE Keep(h, q)
        BY <1>2, <2>2, <2>3, <2>9 DEF Watched, Waits
    <2> QED BY <2>1, <2>6, <2>7, <2>8, <2>9
<1>9. ASSUME NoAnswer(h)
      PROVE  Goal
    <2> DEFINE q == [hr EXCEPT !.inflight = @ - 1]
    <2>1. hr.inflight > 0 /\ Keep(h, q)
        BY <1>9 DEF NoAnswer, Keep, hr
    <2>2. hr.inflight - 1 \in 0..MaxFrames /\ hr.out + (hr.inflight - 1) <= hr.frames
        BY <1>0, <2>1
    <2>3. /\ q \in HandlerRecords /\ q.out = hr.out /\ q.inflight = hr.inflight - 1
          /\ q.frames = hr.frames /\ q.peer = hr.peer /\ q.fd = hr.fd
          /\ q.read = hr.read /\ q.write = hr.write /\ q.closing = hr.closing
        BY <1>0, <2>2 DEF HandlerRecords
    <2> HIDE DEF q
    <2> QED BY <1>2, <2>1, <2>2, <2>3 DEF Watched, Waits
<1> QED BY <1>4, <1>5, <1>6, <1>7, <1>8, <1>9 DEF Callback, Goal, hr

\* Who hears of a callback is the owner of the handler's descriptor.
LEMMA CallbackHears ==
    ASSUME ConnectionsInv, NEW h \in Handlers, Callback(h)
    PROVE  /\ UNCHANGED <<interrupts, acceptor, arrived, count>>
           /\ astray' = astray \/ astray' = (astray \/ Astray(h))
           /\ \/ UNCHANGED heard
              \/ heard' = [heard EXCEPT ![owner[handler[h].fd]] = @ \union {h}]
<1>0. handler[h] \in HandlerRecords
    BY DEF ConnectionsInv, TypeOK, HandlerRecords
<1>1. ASSUME NEW hr, hr.fd = handler[h].fd, Output(h, hr)
      PROVE  \/ UNCHANGED heard
             \/ heard' = [heard EXCEPT ![owner[handler[h].fd]] = @ \union {h}]
    BY <1>1 DEF Output, Hears
<1>2. CASE HandleOutput(h)
    <2>1. [handler[h] EXCEPT !.write = "set"].fd = handler[h].fd
        BY <1>0 DEF HandlerRecords
    <2> QED BY <1>1, <1>2, <2>1 DEF HandleOutput
<1>3. CASE Answer(h)
    <2> DEFINE q == [handler[h] EXCEPT !.inflight = @ - 1]
    <2>1. /\ [q EXCEPT !.out = @ + 1].fd = handler[h].fd
          /\ [q EXCEPT !.out = @ + 1, !.closing = TRUE].fd = handler[h].fd
        BY <1>0 DEF HandlerRecords
    <2>2. /\ UNCHANGED <<interrupts, acceptor, arrived, count>>
          /\ astray' = astray \/ astray' = (astray \/ Astray(h))
          /\ \/ Output(h, [q EXCEPT !.out = @ + 1])
             \/ Output(h, [q EXCEPT !.out = @ + 1, !.closing = TRUE])
             \/ UNCHANGED heard
        BY <1>3 DEF Answer
    <2> HIDE DEF q
    <2> QED BY <1>1, <2>1, <2>2
<1>4. CASE HandleInput(h) \/ InputInterrupted(h) \/ HandleTimeout(h) \/ NoAnswer(h)
    BY <1>4 DEF HandleInput, InputInterrupted, HandleTimeout, NoAnswer
<1> QED BY <1>2, <1>3, <1>4 DEF Callback

\* An ended handler's packages come to nothing: the most that an answer does is to
\* close a descriptor that nobody has, if it does not go astray.
LEMMA UnwatchedIsLeftAlone ==
    ASSUME ConnectionsInv, NEW h \in Handlers, ~Attached(h), Callback(h), ~astray'
    PROVE  UNCHANGED owner /\ ~Attached(h)'
<1>0. /\ handler[h] \in HandlerRecords /\ handler[h].read = "off" /\ handler[h].write = "off"
      /\ handler = [k \in Handlers |-> handler[k]] /\ owner = [f \in Fds |-> owner[f]]
      /\ Nobody \notin Peers
    BY ConnectionsAssumption DEF Attached, ConnectionsInv, TypeOK, HandlerRecords
<1> DEFINE q == [handler[h] EXCEPT !.inflight = @ - 1]
           send == [q EXCEPT !.out = @ + 1]
           last == [q EXCEPT !.out = @ + 1, !.closing = TRUE]
           Off(hr) == [hr EXCEPT !.read = "off", !.write = "off"]
<1>1. /\ q.read = "off" /\ q.write = "off" /\ q.fd = handler[h].fd
      /\ send.fd = handler[h].fd /\ last.fd = handler[h].fd
    BY <1>0 DEF HandlerRecords
<1>a. /\ Off(q).read = "off" /\ Off(send).read = "off" /\ Off(last).read = "off"
      /\ Off(q).write = "off" /\ Off(send).write = "off" /\ Off(last).write = "off"
    BY <1>0 DEF HandlerRecords
<1>2. NoAnswer(h) \/ Answer(h)
    BY <1>0 DEF Callback, HandleInput, InputInterrupted, HandleOutput, HandleTimeout, Ready
<1>3. CASE Keep(h, q) \/ NoAnswer(h)
    <2>1. handler' = [handler EXCEPT ![h] = q] /\ UNCHANGED owner
        BY <1>3 DEF Keep, NoAnswer
    <2> QED BY <1>0, <1>1, <2>1 DEF Attached
<1>4. ASSUME NEW hr, hr.fd = handler[h].fd, Off(hr).read = "off", Off(hr).write = "off",
             Close(h, hr), owner[handler[h].fd] = Nobody
      PROVE  UNCHANGED owner /\ ~Attached(h)'
    <2>1. handler'[h] = Off(hr)
        BY <1>0, <1>4 DEF Close
    <2>2. UNCHANGED owner
        BY <1>0, <1>4 DEF Close
    <2>3. handler'[h].read = "off" /\ handler'[h].write = "off"
        BY <1>4, <2>1
    <2> QED BY <2>2, <2>3 DEF Attached
<1>5. ASSUME Answer(h), ~Keep(h, q)
      PROVE  UNCHANGED owner /\ ~Attached(h)'
    <2>1. owner[handler[h].fd] = Nobody
        BY <1>5 DEF Answer, Astray
    <2>2. Output(h, send) \/ Output(h, last) \/ Close(h, q)
        BY <1>5 DEF Answer
    <2> HIDE DEF q, send, last
    <2>3. Close(h, send) \/ Close(h, last) \/ Close(h, q)
        BY <1>0, <1>1, <2>1, <2>2 DEF Output
    <2> HIDE DEF Off
    <2> QED BY <1>1, <1>a, <1>4, <2>1, <2>3
<1> QED BY <1>2, <1>3, <1>5

-----------------------------------------------------------------------------
(* The first invariant: types and registered handlers *)

LEMMA ConnectionsInit ==
    ASSUME Init
    PROVE  ConnectionsInv
<1>1. /\ count = 0 /\ Registry = {} /\ MaxHandlers \in Nat /\ 0 \in 0..MaxFrames
      /\ \A h \in Handlers : handler[h] = NoHandler
    BY ConnectionsAssumption DEF Init, Registry
<1>2. NoHandler \in HandlerRecords /\ NoHandler.out + NoHandler.inflight <= NoHandler.frames
    BY <1>1 DEF NoHandler, HandlerRecords, EventStates
<1>3. TypeOK
    <2>1. /\ interrupts \in BOOLEAN /\ astray \in BOOLEAN
          /\ acceptor \in [fd : Fds \union {0}, read : EventStates]
        BY DEF Init, EventStates
    <2>2. /\ arrived \subseteq Peers /\ count \in 0..MaxHandlers
          /\ owner \in [Fds -> Peers \union {Nobody, Listener}]
          /\ heard \in [Peers -> SUBSET Handlers]
        BY <1>1 DEF Init
    <2>3. handler \in [Handlers -> HandlerRecords]
        BY <1>2 DEF Init
    <2> QED BY <2>1, <2>2, <2>3 DEF TypeOK, HandlerRecords
<1>4. HandlersOK
    BY <1>1, <1>2 DEF Init, HandlersOK
<1> QED BY <1>3, <1>4 DEF ConnectionsInv

LEMMA ConnectionsNext ==
    ASSUME ConnectionsInv, [Next]_vars
    PROVE  ConnectionsInv'
<1>0. TypeOK /\ HandlersOK
    BY DEF ConnectionsInv
<1>1. ASSUME AcceptorOpen \/ AcceptorOpenFails \/ AcceptorClose
      PROVE  ConnectionsInv'
    <2>1. UNCHANGED <<interrupts, arrived, count, handler, heard, astray>>
        BY <1>1 DEF AcceptorOpen, AcceptorOpenFails, AcceptorClose
    <2>2. acceptor' \in [fd : Fds \union {0}, read : EventStates]
        BY <1>0, <1>1, FreeFacts
        DEF AcceptorOpen, AcceptorOpenFails, AcceptorClose, TypeOK, EventStates
    <2>3. owner' \in [Fds -> Peers \union {Nobody, Listener}]
        BY <1>0, <1>1 DEF AcceptorOpen, AcceptorOpenFails, AcceptorClose, TypeOK
    <2>4. TypeOK'
        BY <1>0, <2>1, <2>2, <2>3 DEF TypeOK
    <2>5. HandlersOK'
        BY <1>0, <2>1 DEF HandlersOK, Registry
    <2> QED BY <2>4, <2>5 DEF ConnectionsInv
<1>2. ASSUME NEW p \in Peers, Accept(p)
      PROVE  ConnectionsInv'
    <2> DEFINE hr == [NoHandler EXCEPT !.peer = p, !.fd = Min(Free), !.read = "on"]
    <2>1. Min(Free) \in Fds /\ count \in Nat /\ count + 1 \in Handlers /\ count + 1 \in Nat
        BY <1>0, <1>2, FreeFacts, ConnectionsAssumption DEF Accept, Accepts, TypeOK, Handlers
    <2>2. /\ hr \in HandlerRecords /\ hr.peer = p /\ hr.fd = Min(Free)
          /\ hr.out = 0 /\ hr.inflight = 0 /\ hr.frames = 0
        <3>1. 0 \in 0..MaxFrames /\ "on" \in EventStates /\ "off" \in EventStates
            BY ConnectionsAssumption DEF EventStates
        <3>2. NoHandler \in HandlerRecords
            BY <3>1 DEF NoHandler, HandlerRecords
        <3>3. hr \in HandlerRecords
            BY <2>1, <3>1, <3>2 DEF HandlerRecords
        <3>4. /\ hr.peer = p /\ hr.fd = Min(Free)
              /\ hr.out = 0 /\ hr.inflight = 0 /\ hr.frames = 0
            BY DEF NoHandler
        <3> QED BY <3>3, <3>4
    <2>3. /\ handler' = [handler EXCEPT ![count + 1] = hr]
          /\ owner' = [owner EXCEPT ![Min(Free)] = p]
          /\ count' = count + 1 /\ arrived' = arrived \union {p}
          /\ UNCHANGED <<interrupts, acceptor, heard, astray>> /\ count < MaxHandlers
        BY <1>2 DEF Accept
    <2> HIDE DEF hr
    <2>4. TypeOK'
        BY <1>0, <2>1, <2>2, <2>3, ConnectionsAssumption DEF TypeOK, HandlerRecords
    <2>5. Registry' = Registry \union {count + 1}
        BY <2>1, <2>3 DEF Registry
    <2>6. HandlersOK'
        BY <1>0, <2>1, <2>2, <2>3, <2>5 DEF HandlersOK, TypeOK
    <2> QED BY <2>4, <2>6 DEF ConnectionsInv
<1>3. ASSUME NEW p \in Peers, AcceptRefused(p)
      PROVE  ConnectionsInv'
    BY <1>0, <1>3 DEF AcceptRefused, ConnectionsInv, TypeOK, HandlersOK, Registry
<1>4. ASSUME NEW h \in Handlers, Callback(h)
      PROVE  ConnectionsInv'
    <2>1. PICK r : After(h, handler[h], r)
        BY <1>4, CallbackDoes
    <2>2. h \in Registry
        BY <1>4, OnlyRegistered
    <2>3. /\ UNCHANGED <<interrupts, acceptor, arrived, count>>
          /\ \/ UNCHANGED heard
             \/ heard' = [heard EXCEPT ![owner[handler[h].fd]] = @ \union {h}]
          /\ astray' \in BOOLEAN
        <3>1. astray \in BOOLEAN
            BY <1>0 DEF TypeOK
        <3>2. (astray \/ Astray(h)) \in BOOLEAN
            BY Zenon
        <3> QED BY <1>4, <3>1, <3>2, CallbackHears
    <2>4. owner' \in [Fds -> Peers \union {Nobody, Listener}]
        BY <1>0, <2>1 DEF After, TypeOK
    <2>5. handler' = [handler EXCEPT ![h] = r] /\ r \in HandlerRecords
        BY <2>1 DEF After
    <2>6. TypeOK'
        BY <1>0, <2>3, <2>4, <2>5 DEF TypeOK, HandlerRecords
    <2>7. HandlersOK'
        BY <1>0, <2>1, <2>2, <2>3 DEF After, HandlersOK, Registry, TypeOK
    <2> QED BY <2>6, <2>7 DEF ConnectionsInv
<1>5. ASSUME Rest \/ UNCHANGED vars
      PROVE  ConnectionsInv'
    BY <1>5 DEF Rest, vars, ConnectionsInv, TypeOK, HandlersOK, Registry
<1> QED BY <1>1, <1>2, <1>3, <1>4, <1>5 DEF Next

LEMMA ConnectionsInvariant == Spec => []ConnectionsInv
BY ConnectionsInit, ConnectionsNext, PTL DEF Spec

\* Every variable holds what the code keeps there, whenever answers come.
THEOREM ConnectionsTypeCorrect == Spec => []TypeOK
BY ConnectionsInvariant, PTL DEF ConnectionsInv

-----------------------------------------------------------------------------
(* The second invariant: descriptors, peers and pending events *)

LEMMA OwnedInit ==
    ASSUME Init
    PROVE  OwnedInv
<1>1. Registry = {} /\ \A f \in Fds : owner[f] = Nobody /\ f # 0
    BY ConnectionsAssumption DEF Init, Registry
<1>2. OneToOne /\ AcceptorOK
    BY <1>1, ConnectionsAssumption DEF Init, OneToOne, AcceptorOK
<1>3. Attended
    BY <1>1 DEF Init, Attended
<1> QED BY <1>2, <1>3 DEF OwnedInv

LEMMA AstrayStays ==
    ASSUME ConnectionsInv, [Next]_vars, astray
    PROVE  astray'
<1>1. ASSUME NEW h \in Handlers, Callback(h)
      PROVE  astray'
    BY <1>1, CallbackHears
<1> QED BY <1>1 DEF Next, vars, AcceptorOpen, AcceptorOpenFails, AcceptorClose, Accept,
                    AcceptRefused, Rest

LEMMA OwnedNext ==
    ASSUME ConnectionsInv, OwnedInv, [Next]_vars
    PROVE  OwnedInv'
<1> SUFFICES ASSUME ~astray'
             PROVE  OwnedInv'
    BY DEF OwnedInv
<1>0. /\ TypeOK /\ HandlersOK /\ OneToOne /\ AcceptorOK /\ Attended /\ ~astray
      /\ \A f \in Fds : f # 0
      /\ Nobody \notin Peers /\ Listener \notin Peers /\ Nobody # Listener
    BY ConnectionsAssumption, AstrayStays DEF ConnectionsInv, OwnedInv
\* The acceptor's steps leave the handlers and the peers' descriptors alone.
<1>1. ASSUME UNCHANGED <<interrupts, count, handler>>, AcceptorOK',
             owner' \in [Fds -> Peers \union {Nobody, Listener}],
             \A f \in Fds : owner[f] \in Peers \/ owner'[f] \in Peers => owner'[f] = owner[f]
      PROVE  OwnedInv'
    <2>1. OneToOne'
        BY <1>0, <1>1 DEF OneToOne, Attached, Registry, HandlersOK, TypeOK
    <2>2. Attended'
        BY <1>0, <1>1 DEF Attended, Attached, Registry
    <2> QED BY <1>1, <2>1, <2>2 DEF OwnedInv
<1>2. ASSUME AcceptorOpen \/ AcceptorOpenFails \/ AcceptorClose
      PROVE  OwnedInv'
    <2>1. AcceptorOK'
        BY <1>0, <1>2, FreeFacts
        DEF AcceptorOpen, AcceptorOpenFails, AcceptorClose, AcceptorOK, TypeOK
    <2>2. /\ owner' \in [Fds -> Peers \union {Nobody, Listener}]
          /\ \A f \in Fds : owner[f] \in Peers \/ owner'[f] \in Peers => owner'[f] = owner[f]
        BY <1>0, <1>2, FreeFacts
        DEF AcceptorOpen, AcceptorOpenFails, AcceptorClose, AcceptorOK, TypeOK
    <2> QED
        BY <1>1, <1>2, <2>1, <2>2 DEF AcceptorOpen, AcceptorOpenFails, AcceptorClose
<1>3. ASSUME NEW p \in Peers, Accept(p)
      PROVE  OwnedInv'
    <2>n. PICK new, fd : new = count + 1 /\ fd = Min(Free)
        OBVIOUS
    <2> DEFINE hr == [NoHandler EXCEPT !.peer = p, !.fd = fd, !.read = "on"]
    <2>1. /\ fd \in Fds /\ owner[fd] = Nobody
          /\ new \in Handlers /\ new \notin Registry
          /\ \A h \in Registry : h \in Handlers /\ h # new
        BY <1>0, <1>3, <2>n, FreeFacts, ConnectionsAssumption
        DEF Accept, Accepts, TypeOK, Handlers, Registry
    <2>2. /\ hr.peer = p /\ hr.fd = fd /\ hr.read = "on" /\ hr.write = "off"
          /\ hr.out = 0 /\ hr.closing = FALSE
        BY DEF NoHandler
    <2>3. /\ handler' = [handler EXCEPT ![new] = hr] /\ owner' = [owner EXCEPT ![fd] = p]
          /\ UNCHANGED <<interrupts, acceptor>>
        BY <1>3, <2>n DEF Accept
    <2>4. Registry' = Registry \union {new}
        BY <1>0, <1>3, <2>n DEF Accept, Registry, TypeOK
    <2> HIDE DEF hr
    <2>5. /\ handler'[new] = hr /\ \A h \in Registry : handler'[h] = handler[h]
          /\ Attached(new)'
          /\ \A h \in Registry : Attached(h)' <=> Attached(h)
        BY <1>0, <2>1, <2>2, <2>3 DEF TypeOK, Attached
    <2>6. \A h \in Registry : Attached(h) => handler[h].fd # fd
        BY <1>0, <2>1 DEF OneToOne, HandlersOK
    <2>7. OneToOne'
        BY <1>0, <2>1, <2>2, <2>3, <2>4, <2>5, <2>6 DEF OneToOne, TypeOK
    <2>8. AcceptorOK'
        BY <1>0, <2>1, <2>3 DEF AcceptorOK, TypeOK
    <2>10. Attended'
        BY <1>0, <2>2, <2>3, <2>4, <2>5 DEF Attended
    <2> QED BY <2>7, <2>8, <2>10 DEF OwnedInv
<1>4. ASSUME NEW p \in Peers, AcceptRefused(p)
      PROVE  OwnedInv'
    BY <1>0, <1>1, <1>4 DEF AcceptRefused, AcceptorOK, TypeOK
<1>5. ASSUME NEW h \in Handlers, Callback(h)
      PROVE  OwnedInv'
    <2>1. /\ h \in Registry
          /\ UNCHANGED <<interrupts, acceptor, arrived, count>>
          /\ Registry' = Registry
        BY <1>5, OnlyRegistered, CallbackHears DEF Registry
    <2>2. PICK r : /\ After(h, handler[h], r)
                   /\ ~interrupts /\ Waits(handler[h]) /\ Watched(r) => Waits(r)
        BY <1>5, CallbackDoes
    <2>3. /\ handler' = [handler EXCEPT ![h] = r]
          /\ r.peer = handler[h].peer /\ r.fd = handler[h].fd
          /\ handler[h].peer \in Peers /\ handler[h].fd \in Fds
        BY <1>0, <2>1, <2>2 DEF After, HandlersOK
    <2>4. /\ handler'[h] = r
          /\ \A k \in Registry : k \in Handlers /\ (k # h => handler'[k] = handler[k])
          /\ Attached(h) <=> Watched(handler[h])
          /\ Attached(h)' <=> Watched(r)
          /\ \A k \in Registry : k # h => (Attached(k)' <=> Attached(k))
          /\ \A k \in Handlers : handler'[k].peer = handler[k].peer
                                 /\ handler'[k].fd = handler[k].fd
        <3>1. Registry \subseteq Handlers
            BY <1>0, ConnectionsAssumption DEF TypeOK, Registry, Handlers
        <3> QED BY <1>0, <2>3, <3>1 DEF Attached, Watched, TypeOK
    <2>5. CASE ~Attached(h)
        <3>1. UNCHANGED owner /\ ~Watched(r)
            BY <1>5, <2>4, <2>5, UnwatchedIsLeftAlone
        <3>2. OneToOne' /\ AcceptorOK'
            BY <1>0, <2>1, <2>4, <2>5, <3>1 DEF OneToOne, AcceptorOK
        <3>3. Attended'
            BY <1>0, <2>1, <2>4, <2>5, <3>1 DEF Attended
        <3> QED BY <3>2, <3>3 DEF OwnedInv
    <2>6. CASE Attached(h)
        <3>1. owner[handler[h].fd] = handler[h].peer
            BY <1>0, <2>1, <2>6 DEF OneToOne
        <3>2. OneToOne'
            <4>1. CASE UNCHANGED owner /\ Watched(r)
                BY <1>0, <2>1, <2>3, <2>4, <2>6, <4>1 DEF OneToOne
            <4>2. CASE owner' = [owner EXCEPT ![handler[h].fd] = Nobody] /\ ~Watched(r)
                BY <1>0, <2>1, <2>3, <2>4, <2>6, <4>2 DEF OneToOne, HandlersOK, TypeOK
            <4> QED BY <2>2, <2>4, <2>6, <4>1, <4>2 DEF After
        <3>3. AcceptorOK'
            BY <1>0, <2>1, <2>2, <2>3, <3>1 DEF After, AcceptorOK, TypeOK
        <3>5. Attended'
            BY <1>0, <2>1, <2>2, <2>4, <2>6 DEF Attended, Waits
        <3> QED BY <3>2, <3>3, <3>5 DEF OwnedInv
    <2> QED BY <2>5, <2>6
<1>6. ASSUME Rest \/ UNCHANGED vars
      PROVE  OwnedInv'
    BY <1>0, <1>1, <1>6 DEF Rest, vars, AcceptorOK, TypeOK
<1> QED BY <1>2, <1>3, <1>4, <1>5, <1>6 DEF Next

LEMMA OwnedInvariant == Spec => [](ConnectionsInv /\ OwnedInv)
<1>1. ConnectionsInv /\ OwnedInv /\ [Next]_vars => OwnedInv'
    BY OwnedNext
<1> QED BY <1>1, OwnedInit, ConnectionsInvariant, PTL DEF Spec

\* No descriptor leaks and none is closed under a connection: those open are the
\* acceptor's and, one each, those of the handlers the reactor watches
\* (acceptor.cpp:36-69, 86-92, 102-111, 130-159, connecteventhandler.cpp:168-174,
\* libeventreactor.cpp:112-119).  Answers for ended handlers do not break this
\* before one of them finds the handler's descriptor open again.
THEOREM NoDescriptorLeaks == Spec => []DescriptorsOwned
<1>1. ASSUME ConnectionsInv, OwnedInv
      PROVE  DescriptorsOwned
    <2> SUFFICES ASSUME ~astray
                 PROVE  DescriptorsOwned
        BY DEF DescriptorsOwned
    <2>0. OneToOne /\ AcceptorOK
        BY <1>1 DEF OwnedInv
    <2>1. ASSUME NEW f \in Fds, owner[f] \in Peers
          PROVE  Cardinality({h \in Registry : Attached(h) /\ handler[h].fd = f}) = 1
        <3>1. PICK h \in Registry : Attached(h) /\ handler[h].fd = f
            BY <2>0, <2>1 DEF OneToOne
        <3>2. {k \in Registry : Attached(k) /\ handler[k].fd = f} = {h}
            BY <2>0, <3>1 DEF OneToOne
        <3> QED BY <3>2, FS_Singleton
    <2> QED BY <2>0, <2>1 DEF OneToOne, AcceptorOK, DescriptorsOwned
<1> QED BY <1>1, OwnedInvariant, PTL

\* Between callbacks, before a system call is interrupted or an answer acts on
\* another's descriptor, every connection waits for input, and to write exactly
\* while it has something to send (connecteventhandler.cpp:86-92, 98-159).
THEOREM NoConnectionForgotten == Spec => []Attended
<1>1. OwnedInv => Attended
    BY DEF OwnedInv, Attended
<1> QED BY <1>1, OwnedInvariant, PTL
=============================================================================
