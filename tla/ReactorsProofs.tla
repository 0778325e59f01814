---------------------------- MODULE ReactorsProofs ----------------------------
(***************************************************************************)
(* Proofs about Reactors and Connector, for any handlers, timers, delays   *)
(* and any unit of time: under either reactor the handlers' data, the      *)
(* reactor's set of handlers and the timers agree, select waits until the  *)
(* deadline that was found, and a connector's socket has one owner.        *)
(***************************************************************************)
EXTENDS Connector, RecursionFacts, TLAPS, SequenceTheorems

TimerRecords == [id : Timers, until : Times]
DataRecords(h) == [read : EventType(h), write : EventType(h), timers : Seq(TimerRecords)]

Distinct(timers) == \A i, j \in DOMAIN timers : timers[i].id = timers[j].id => i = j

\* What the reactor data of handler h may be.
Good(h, d) ==
    /\ d \in DataRecords(h)
    /\ \A kind \in Kinds : d[kind].on = "on" => d[kind].fd = h
    /\ Distinct(d.timers)

-----------------------------------------------------------------------------
(* The inductive invariant *)

Basics ==
    /\ select \in BOOLEAN /\ quiet \in BOOLEAN /\ aborted \in BOOLEAN
    /\ now \in 0..Horizon
    /\ handlers \subseteq Handlers

DataOK ==
    /\ data = [h \in Handlers |-> data[h]]
    /\ \A h \in Handlers : data[h] \in {{}, {Data(h)}} /\ Good(h, Data(h))

TimersApart ==
    \A g, h \in Handlers : g # h => Listed(Data(g)) \cap Listed(Data(h)) = {}

ExpiringOK == expiring \subseteq [handler : Handlers, timer : Timers]

ReactorInv ==
    /\ Basics /\ DataOK /\ TimersApart /\ ExpiringOK
    /\ HandlersHaveData /\ DetachedWhenIdle

-----------------------------------------------------------------------------
(* The scan for the least deadline *)

\* What it finds is one of the timeouts it looked at.
LEMMA PicksOneOf ==
    ASSUME NEW S, NEW least \in SUBSET S, NEW ts \in Seq(S)
    PROVE  Picks(least, ts) \in SUBSET S
<1> DEFINE n == Len(ts)
           Eq(f, k) == f = [i \in 0..k |-> IF i = 0 THEN least ELSE Pick(f[i - 1], ts[i])]
<1>0. n \in Nat
    BY LenProperties
<1>1. \E f : Eq(f, n)
    <2> DEFINE B == {k \in 0..n : ~ \E f : Eq(f, k)}
    <2>1. 0 \notin B
        <3>1. Eq([i \in 0..0 |-> least], 0)
            OBVIOUS
        <3> QED BY <3>1
    <2>2. ASSUME NEW k \in 1..n, k - 1 \notin B
          PROVE  k \notin B
        <3>1. PICK f : Eq(f, k - 1)
            BY <1>0, <2>2
        <3> DEFINE g == [i \in 0..k |-> IF i = k THEN Pick(f[k - 1], ts[k]) ELSE f[i]]
        <3>2. \A i \in 0..k : g[i] = IF i = 0 THEN least ELSE Pick(g[i - 1], ts[i])
            BY <1>0, <3>1
        <3>3. Eq(g, k)
            BY <3>2
        <3> QED BY <3>3
    <2> HIDE DEF Eq
    <2>3. B = {}
        BY <1>0, <2>1, <2>2, NoLeastCounterexample
    <2> QED BY <1>0, <2>3
<1> DEFINE a == CHOOSE f : Eq(f, n)
<1>2. Eq(a, n)
    <2> HIDE DEF Eq
    <2> QED BY <1>1
<1>3. Picks(least, ts) = a[n]
    BY DEF Picks
<1> HIDE DEF a
<1>4. a[0] = least /\ \A i \in 1..n : a[i] = Pick(a[i - 1], ts[i])
    BY <1>0, <1>2
<1> DEFINE C == {k \in 0..n : ~(a[k] \subseteq S)}
<1>5. 0 \notin C
    BY <1>4
<1>6. ASSUME NEW k \in 1..n, k - 1 \notin C
      PROVE  k \notin C
    <2>1. a[k - 1] \subseteq S
        BY <1>0, <1>6
    <2>2. ts[k] \in S
        BY <1>0, ElementOfSeq
    <2> QED BY <1>4, <2>1, <2>2 DEF Pick
<1>7. C = {}
    BY <1>0, <1>5, <1>6, NoLeastCounterexample
<1> QED BY <1>0, <1>3, <1>7

\* What RunOnce may have to wait for: an event's timeout or a listed timer's.
Waits ==
    {c \in [handler : Handlers, timer : Timers \union {NoTimer}, until : Times] :
        c.timer = NoTimer \/ c.timer \in Listed(Data(c.handler))}

LEMMA TimeoutsAreWaits ==
    ASSUME NEW h \in Handlers, Good(h, Data(h))
    PROVE  Timeouts(h) \in Seq(Waits)
<1> DEFINE d == Data(h)
           Of(kind) == IF d[kind].on = "on" /\ d[kind].until # Never
                       THEN <<[handler |-> h, timer |-> NoTimer, until |-> d[kind].until]>>
                       ELSE <<>>
           OfTimers == [i \in DOMAIN d.timers |->
               [handler |-> h, timer |-> d.timers[i].id, until |-> d.timers[i].until]]
<1>1. /\ d.read.until \in Times /\ d.write.until \in Times
      /\ d.timers \in Seq(TimerRecords)
    BY DEF Good, DataRecords, EventType
<1>2. \A kind \in Kinds : Of(kind) \in Seq(Waits)
    <2>1. SUFFICES ASSUME NEW until \in Times
                   PROVE  [handler |-> h, timer |-> NoTimer, until |-> until] \in Waits
        BY <1>1 DEF Kinds
    <2> QED BY DEF Waits
<1>3. OfTimers \in Seq(Waits)
    <2>1. \A i \in DOMAIN d.timers :
             /\ d.timers[i].id \in Timers /\ d.timers[i].until \in Times
             /\ d.timers[i].id \in Listed(d)
        <3>1. \A i \in DOMAIN d.timers : d.timers[i] \in TimerRecords
            BY <1>1
        <3> QED BY <3>1 DEF TimerRecords, Listed
    <2> HIDE DEF d
    <2>2. ASSUME NEW i \in DOMAIN d.timers
          PROVE  [handler |-> h, timer |-> d.timers[i].id, until |-> d.timers[i].until] \in Waits
        BY <2>1, <2>2 DEF Waits, d
    <2>3. Len(d.timers) \in Nat /\ DOMAIN d.timers = 1..Len(d.timers)
        BY <1>1
    <2> QED BY <2>2, <2>3, IsASeq
<1>4. Timeouts(h) = Of("read") \o Of("write") \o OfTimers
    BY DEF Timeouts
<1> HIDE DEF Of, OfTimers
<1>5. Of("read") \in Seq(Waits) /\ Of("write") \in Seq(Waits)
    BY <1>2 DEF Kinds
<1> QED BY <1>3, <1>4, <1>5, ConcatProperties

LEMMA LeastIsAWait ==
    ASSUME \A h \in Handlers : Good(h, Data(h))
    PROVE  Least \in SUBSET Waits
<1> DEFINE n == NumHandlers
           Of(h) == IF h \in handlers THEN Timeouts(h) ELSE <<>>
           Scans(f) == f = [h \in 0..n |-> IF h = 0 THEN {} ELSE Picks(f[h - 1], Of(h))]
<1>0. n \in Nat
    BY ReactorsAssumption
<1>1. PICK T, none : T = [h \in 1..n |-> Of(h)] /\ none = {}
    OBVIOUS
<1> DEFINE Eq(f, k) == f = [h \in 0..k |-> IF h = 0 THEN none ELSE Picks(f[h - 1], T[h])]
<1>2. \E f : Eq(f, n)
    <2> DEFINE B == {k \in 0..n : ~ \E f : Eq(f, k)}
    <2>1. 0 \notin B
        <3>1. Eq([h \in 0..0 |-> none], 0)
            OBVIOUS
        <3> QED BY <3>1
    <2>2. ASSUME NEW k \in 1..n, k - 1 \notin B
          PROVE  k \notin B
        <3>1. PICK f : Eq(f, k - 1)
            BY <1>0, <2>2
        <3> DEFINE g == [h \in 0..k |-> IF h = k THEN Picks(f[k - 1], T[k]) ELSE f[h]]
        <3>2. \A h \in 0..k : g[h] = IF h = 0 THEN none ELSE Picks(g[h - 1], T[h])
            BY <1>0, <3>1
        <3>3. Eq(g, k)
            BY <3>2
        <3> QED BY <3>3
    <2> HIDE DEF Eq
    <2>3. B = {}
        BY <1>0, <2>1, <2>2, NoLeastCounterexample
    <2> QED BY <1>0, <2>3
<1>3. Eq(Scan, n)
    <2>1. ASSUME NEW f
          PROVE  Scans(f) <=> Eq(f, n)
        <3>1. none = {} /\ \A h \in 1..n : T[h] = Of(h)
            BY <1>1
        <3> HIDE DEF Of
        <3>2. \A h \in 0..n :
                 (IF h = 0 THEN {} ELSE Picks(f[h - 1], Of(h)))
                    = IF h = 0 THEN none ELSE Picks(f[h - 1], T[h])
            BY <1>0, <3>1
        <3> QED BY <3>2
    <2>2. Scan = CHOOSE f : Scans(f)
        BY DEF Scan
    <2> HIDE DEF Scans, Eq
    <2> QED BY <1>2, <2>1, <2>2
<1>4. Scan[0] = none /\ \A h \in 1..n : Scan[h] = Picks(Scan[h - 1], T[h])
    <2> DEFINE s == Scan
    <2>1. s = [h \in 0..n |-> IF h = 0 THEN none ELSE Picks(s[h - 1], T[h])]
        BY <1>3
    <2> HIDE DEF s
    <2>2. s[0] = none /\ \A h \in 1..n : s[h] = Picks(s[h - 1], T[h])
        BY <1>0, <2>1
    <2> QED BY <2>2 DEF s
<1>5. \A h \in 1..n : T[h] \in Seq(Waits)
    <2>1. <<>> \in Seq(Waits)
        OBVIOUS
    <2> QED BY <1>1, <2>1, TimeoutsAreWaits DEF Handlers
<1> HIDE DEF Of, Eq
<1> DEFINE C == {h \in 0..n : ~(Scan[h] \subseteq Waits)}
<1>6. 0 \notin C
    BY <1>1, <1>4
<1>7. ASSUME NEW h \in 1..n, h - 1 \notin C
      PROVE  h \notin C
    <2>1. Scan[h - 1] \in SUBSET Waits
        BY <1>0, <1>7
    <2> QED BY <1>4, <1>5, <2>1, PicksOneOf
<1>8. C = {}
    BY <1>0, <1>6, <1>7, NoLeastCounterexample
<1> QED BY <1>0, <1>8 DEF Least

-----------------------------------------------------------------------------
(* Deadlines *)

LEMMA MomentIsANumber ==
    ASSUME NEW time \in Times
    PROVE  Moment(time) \in 0..Horizon
<1>1. PerSec \in Nat /\ Horizon \in Nat
    BY ReactorsAssumption
<1>2. time[1] \in Nat /\ time[2] \in Nat /\ Moment(time) <= Horizon
    BY <1>1 DEF Times
<1>3. time[1] * PerSec \in Nat
    BY <1>1, <1>2
<1> QED BY <1>1, <1>2, <1>3 DEF Moment

LEMMA NeverIsATime == Never \in Times
<1>1. PerSec \in Nat \ {0} /\ Horizon \in Nat
    BY ReactorsAssumption
<1>2. 0 * PerSec + 0 = 0
    BY <1>1
<1>3. Never[1] = 0 /\ Never[2] = 0 /\ Never \in (0..Horizon) \X (0..2 * PerSec - 1)
    BY <1>1 DEF Never
<1> QED BY <1>1, <1>2, <1>3 DEF Times, Moment

\* A deadline is in range although its nanoseconds do not carry.
LEMMA DeadlineIsATime ==
    ASSUME NEW delay \in Nat, now \in 0..Horizon, now + delay <= Horizon
    PROVE  Deadline(delay) \in Times
<1> DEFINE P == PerSec
           a == now \div P
           b == delay \div P
           r == now % P
           s == delay % P
<1>1. P \in Nat \ {0} /\ Horizon \in Nat /\ now \in Nat
    BY ReactorsAssumption
<1>2. a \in Nat /\ r \in 0..(P - 1) /\ a * P + r = now
    BY <1>1
<1>3. b \in Nat /\ s \in 0..(P - 1) /\ b * P + s = delay
    BY <1>1
<1>4. PICK A, B, R, S : A = a /\ B = b /\ R = r /\ S = s
    OBVIOUS
<1>5. Deadline(delay) = <<A + B, R + S>>
    BY <1>4 DEF Deadline
<1> HIDE DEF a, b, r, s, P
<1>6. A \in Nat /\ B \in Nat /\ R \in 0..(P - 1) /\ S \in 0..(P - 1) /\ P \in Nat \ {0}
    BY <1>1, <1>2, <1>3, <1>4
<1>7. (A + B) * P = A * P + B * P
    BY <1>6
<1>8. A * P \in Nat /\ B * P \in Nat /\ A * P + R + B * P + S <= Horizon
    BY <1>1, <1>2, <1>3, <1>4, <1>6
<1>9. (A + B) * P + (R + S) <= Horizon
    BY <1>6, <1>7, <1>8
<1>10. A + B <= (A + B) * P
    <2>1. A + B \in Nat
        BY <1>6
    <2> HIDE DEF P
    <2> QED BY <1>6, <2>1
<1>11. A + B \in 0..Horizon /\ R + S \in 0..2 * P - 1
    BY <1>1, <1>6, <1>7, <1>8, <1>9, <1>10
<1> QED BY <1>5, <1>9, <1>11 DEF Times, Moment, P

\* One round of each loop puts the difference of the fields in range, and the
\* wait lasts as long as there is to the deadline.
LEMMA WaitIsExact ==
    ASSUME NEW time \in Times, now \in 0..Horizon
    PROVE  /\ Wait(time) \in Nat \X (0..PerSec - 1)
           /\ Moment(Wait(time)) = IF Passed(time) THEN 0 ELSE Moment(time) - now
<1>1. PICK P, a, b, N, R :
         P = PerSec /\ a = time[1] /\ b = time[2] /\ N = now \div PerSec /\ R = now % PerSec
    OBVIOUS
<1>2. /\ P \in Nat \ {0} /\ now \in Nat /\ Horizon \in Nat
    BY <1>1, ReactorsAssumption
<1>3. N \in Nat /\ R \in 0..(P - 1) /\ N * P + R = now
    BY <1>1, <1>2
<1>4. a \in Nat /\ b \in 0..(2 * P - 1)
    BY <1>1, <1>2 DEF Times
<1>5. PICK M, D : M = a * P + b /\ D = M - now
    OBVIOUS
<1>6. Moment(time) = M /\ M \in Int /\ D \in Int
    <2>1. a * P \in Int
        BY <1>2, <1>4
    <2> QED BY <1>1, <1>2, <1>4, <1>5, <2>1 DEF Moment
<1>7. PICK since : since = <<a - N, b - R>>
    OBVIOUS
<1>8. Since(time) = since
    BY <1>1, <1>7 DEF Since
<1>9. /\ (a - N) * P + (b - R) = D
      /\ (a - N - 1) * P + (b - R + P) = D
      /\ (a - N + 1) * P + (b - R - P) = D
    <2>1. /\ (a - N) * P = a * P - N * P
          /\ (a - N - 1) * P = a * P - N * P - P
          /\ (a - N + 1) * P = a * P - N * P + P
        BY <1>2, <1>3, <1>4
    <2>2. a * P \in Int /\ N * P \in Int
        BY <1>2, <1>3, <1>4
    <2> QED BY <1>2, <1>3, <1>4, <1>5, <2>1, <2>2
<1>10. PICK left : left = Carried(Borrowed(since))
    OBVIOUS
<1>11. PICK s, u : left = <<s, u>> /\ s \in Int /\ u \in 0..(P - 1) /\ s * P + u = D
    <2>1. CASE b - R < 0
        <3>1. Borrowed(since) = <<a - N - 1, b - R + P>>
            BY <1>1, <1>7, <2>1 DEF Borrowed
        <3>2. b - R + P \in 0..(P - 1) /\ a - N - 1 \in Int
            BY <1>2, <1>3, <1>4, <2>1
        <3>3. left = <<a - N - 1, b - R + P>>
            BY <1>1, <1>2, <1>10, <3>1, <3>2 DEF Carried
        <3> QED BY <1>9, <3>2, <3>3
    <2>2. CASE b - R >= P
        <3>1. Borrowed(since) = since
            BY <1>2, <1>3, <1>4, <1>7, <2>2 DEF Borrowed
        <3>2. b - R - P \in 0..(P - 1) /\ a - N + 1 \in Int
            BY <1>2, <1>3, <1>4, <2>2
        <3>3. left = <<a - N + 1, b - R - P>>
            BY <1>1, <1>7, <1>10, <2>2, <3>1 DEF Carried
        <3> QED BY <1>9, <3>2, <3>3
    <2>3. CASE ~(b - R < 0) /\ ~(b - R >= P)
        <3>1. b - R \in 0..(P - 1) /\ a - N \in Int
            BY <1>2, <1>3, <1>4, <2>3
        <3>2. left = since
            BY <1>1, <1>2, <1>7, <1>10, <2>3, <3>1 DEF Borrowed, Carried
        <3> QED BY <1>7, <1>9, <3>1, <3>2
    <2> QED BY <2>1, <2>2, <2>3
<1>12. Wait(time) = IF s < 0 THEN <<0, 0>> ELSE <<s, u>>
    <2>1. Wait(time) = Clamped(left)
        BY <1>8, <1>10 DEF Wait
    <2>2. left[1] = s /\ left[2] = u /\ ~(u < 0)
        BY <1>2, <1>11
    <2> QED BY <1>11, <2>1, <2>2 DEF Clamped
<1>13. Passed(time) <=> D <= 0
    BY <1>2, <1>5, <1>6 DEF Passed
<1>14. CASE s < 0
    <2>1. s * P <= -P
        BY <1>2, <1>11, <1>14
    <2>2. s * P \in Int /\ D < 0
        BY <1>2, <1>11, <2>1
    <2>3. Wait(time) = <<0, 0>> /\ 0 * PerSec + 0 = 0
        BY <1>1, <1>2, <1>12, <1>14
    <2>4. <<0, 0>> \in Nat \X (0..PerSec - 1)
        BY <1>1, <1>2
    <2>5. Moment(Wait(time)) = 0
        BY <2>3 DEF Moment
    <2> QED BY <1>6, <1>13, <2>2, <2>3, <2>4, <2>5
<1>15. CASE ~(s < 0)
    <2>1. s \in Nat /\ Wait(time) = <<s, u>>
        BY <1>11, <1>12, <1>15
    <2>2. s * P \in Nat
        BY <1>2, <2>1
    <2>3. D >= 0
        BY <1>2, <1>11, <2>2
    <2>4. Moment(Wait(time)) = D
        BY <1>1, <1>11, <2>1 DEF Moment
    <2>5. D = IF Passed(time) THEN 0 ELSE Moment(time) - now
        BY <1>5, <1>6, <1>13, <2>3
    <2> QED BY <1>1, <1>11, <2>1, <2>4, <2>5
<1> QED BY <1>14, <1>15

LEMMA WaitingStaysInRange ==
    ASSUME NEW time \in Times, now \in 0..Horizon
    PROVE  now + Moment(Wait(time)) \in 0..Horizon
<1>1. Moment(time) \in 0..Horizon /\ Horizon \in Nat
    BY MomentIsANumber, ReactorsAssumption
<1>2. Moment(Wait(time)) = IF Moment(time) <= now THEN 0 ELSE Moment(time) - now
    BY WaitIsExact DEF Passed
<1> QED BY <1>1, <1>2

-----------------------------------------------------------------------------
(* Reactor data *)

LEMMA NoDataIsGood ==
    ASSUME NEW h \in Handlers
    PROVE  Good(h, NoData) /\ ~HasEvent(NoData) /\ Listed(NoData) = {}
<1>1. NoEvent \in EventType(h)
    BY NeverIsATime DEF NoEvent, EventType
<1>2. <<>> \in Seq(TimerRecords) /\ Distinct(<<>>)
    BY DEF Distinct
<1>3. NoData \in DataRecords(h)
    <2> HIDE DEF TimerRecords, EventType, NoEvent
    <2> QED BY <1>1, <1>2 DEF NoData, DataRecords
<1>4. /\ NoData.read = NoEvent /\ NoData.write = NoEvent /\ NoData.timers = <<>>
      /\ NoData["read"] = NoEvent /\ NoData["write"] = NoEvent
    BY DEF NoData
<1>5. NoEvent.on = "off"
    BY DEF NoEvent
<1>6. Listed(NoData) = {}
    BY <1>4 DEF Listed
<1> QED BY <1>2, <1>3, <1>4, <1>5, <1>6 DEF Good, HasEvent, Kinds

Replaced(d, kind, e) == [d EXCEPT ![kind] = e]

LEMMA EventReplaced ==
    ASSUME NEW h \in Handlers, NEW d, Good(h, d), NEW kind \in Kinds,
           NEW e \in EventType(h), e.on = "on" => e.fd = h,
           NEW new, new = Replaced(d, kind, e)
    PROVE  /\ Good(h, new) /\ new.timers = d.timers /\ new[kind] = e
           /\ \A other \in Kinds : other # kind => new[other] = d[other]
<1>1. d \in DataRecords(h) /\ Distinct(d.timers) /\ kind \in {"read", "write"}
    BY DEF Good, Kinds
<1>2. /\ new \in DataRecords(h) /\ new.timers = d.timers /\ new[kind] = e
      /\ \A other \in Kinds : other # kind => new[other] = d[other]
    <2> HIDE DEF EventType, TimerRecords
    <2> QED BY <1>1 DEF DataRecords, Kinds, Replaced
<1>3. \A other \in Kinds : new[other].on = "on" => new[other].fd = h
    BY <1>2 DEF Good
<1> QED BY <1>1, <1>2, <1>3 DEF Good

LEMMA TimersReplaced ==
    ASSUME NEW h \in Handlers, NEW d, Good(h, d),
           NEW ts \in Seq(TimerRecords), Distinct(ts)
    PROVE  LET new == [d EXCEPT !.timers = ts]
           IN /\ Good(h, new) /\ new.timers = ts
              /\ new.read = d.read /\ new.write = d.write
<1> DEFINE new == [d EXCEPT !.timers = ts]
<1>1. d \in DataRecords(h) /\ \A kind \in Kinds : d[kind].on = "on" => d[kind].fd = h
    BY DEF Good
<1>2. /\ new \in DataRecords(h) /\ new.timers = ts
      /\ new.read = d.read /\ new.write = d.write
      /\ \A kind \in Kinds : new[kind] = d[kind]
    <2> HIDE DEF EventType, TimerRecords
    <2> QED BY <1>1 DEF DataRecords, Kinds
<1> QED BY <1>1, <1>2 DEF Good

LEMMA RemovedIsOff ==
    ASSUME NEW h \in Handlers, NEW e \in EventType(h)
    PROVE  Removed(e) \in EventType(h) /\ Removed(e).on = "off"
<1>1. NoEvent \in EventType(h) /\ NoEvent.on = "off"
    BY NeverIsATime DEF NoEvent, EventType
<1>2. [e EXCEPT !.on = "off"] \in EventType(h) /\ [e EXCEPT !.on = "off"].on = "off"
    BY DEF EventType
<1> QED BY <1>1, <1>2 DEF Removed

\* RemoveHandler touches the events of its mask and nothing else.
LEMMA EventsRemoved ==
    ASSUME NEW h \in Handlers, NEW d, Good(h, d), NEW mask \in SUBSET Kinds
    PROVE  LET new == AfterRemove(d, mask)
           IN /\ Good(h, new) /\ new.timers = d.timers
              /\ "read" \in mask => new.read.on = "off"
              /\ "write" \in mask => new.write.on = "off"
              /\ "read" \notin mask => new.read = d.read
              /\ "write" \notin mask => new.write = d.write
<1> DEFINE new == AfterRemove(d, mask)
           r == IF "read" \in mask THEN Removed(d.read) ELSE d.read
           w == IF "write" \in mask THEN Removed(d.write) ELSE d.write
<1>1. d \in DataRecords(h) /\ Distinct(d.timers)
    BY DEF Good
<1>2. d.read \in EventType(h) /\ d.write \in EventType(h) /\ d.timers \in Seq(TimerRecords)
    BY <1>1 DEF DataRecords
<1>3. r \in EventType(h) /\ w \in EventType(h)
    BY <1>2, RemovedIsOff
<1>4. /\ "read" \in mask => r.on = "off"
      /\ "write" \in mask => w.on = "off"
    BY <1>2, RemovedIsOff
<1>5. \A kind \in Kinds : d[kind].on = "on" => d[kind].fd = h
    BY DEF Good
<1>6. (r.on = "on" => r.fd = h) /\ (w.on = "on" => w.fd = h)
    BY <1>4, <1>5 DEF Kinds
<1>7. new = [d EXCEPT !.read = r, !.write = w]
    BY DEF AfterRemove
<1>8. PICK R, W : R = r /\ W = w
    OBVIOUS
<1>9. /\ new \in DataRecords(h) /\ new.timers = d.timers
      /\ new.read = R /\ new.write = W /\ new["read"] = R /\ new["write"] = W
    <2>1. R \in EventType(h) /\ W \in EventType(h) /\ new = [d EXCEPT !.read = R, !.write = W]
        BY <1>3, <1>7, <1>8
    <2> HIDE DEF EventType, TimerRecords, new, r, w
    <2> QED BY <1>1, <2>1 DEF DataRecords
<1>10. Good(h, new)
    <2> HIDE DEF new, r, w
    <2> QED BY <1>1, <1>6, <1>8, <1>9 DEF Good, Kinds
<1> HIDE DEF new
<1>11. /\ "read" \in mask => new.read.on = "off"
       /\ "write" \in mask => new.write.on = "off"
       /\ "read" \notin mask => new.read = d.read
       /\ "write" \notin mask => new.write = d.write
    BY <1>4, <1>8, <1>9
<1> QED BY <1>9, <1>10, <1>11 DEF new

LEMMA RegisteredIsOn ==
    ASSUME now \in 0..Horizon, NEW h \in Handlers, NEW e \in EventType(h),
           NEW persist \in BOOLEAN, NEW delay \in Nat, now + delay <= Horizon
    PROVE  LET new == Registered(e, h, persist, delay)
           IN new \in EventType(h) /\ new.on = "on" /\ new.fd = h
<1> DEFINE until == IF delay # 0 THEN Deadline(delay) ELSE IF select THEN e.until ELSE Never
<1>1. until \in Times
    BY DeadlineIsATime, NeverIsATime DEF EventType
<1>2. Registered(e, h, persist, delay) = [on |-> "on", persist |-> persist, fd |-> h, until |-> until]
    BY DEF Registered
<1> HIDE DEF until
<1> QED BY <1>1, <1>2 DEF EventType

LEMMA FiredIsKnown ==
    ASSUME NEW h \in Handlers, NEW e \in EventType(h), e.on = "on" => e.fd = h
    PROVE  /\ Fired(e) \in EventType(h)
           /\ Fired(e).on = "on" => Fired(e).fd = h
           /\ ~select /\ e.on = "on" => Fired(e).on # "off"
<1>1. [e EXCEPT !.on = "off"] \in EventType(h) /\ [e EXCEPT !.on = "off"].on = "off"
    BY DEF EventType
<1>2. /\ [e EXCEPT !.on = "set", !.until = Never] \in EventType(h)
      /\ [e EXCEPT !.on = "set", !.until = Never].on = "set"
    BY NeverIsATime DEF EventType
<1> QED BY <1>1, <1>2 DEF Fired

-----------------------------------------------------------------------------
(* Lists of timers *)

Ids(timers) == {timers[i].id : i \in DOMAIN timers}

LEMMA ScheduledLast ==
    ASSUME NEW ts \in Seq(TimerRecords), Distinct(ts), NEW e \in TimerRecords, e.id \notin Ids(ts)
    PROVE  /\ Append(ts, e) \in Seq(TimerRecords) /\ Distinct(Append(ts, e))
           /\ Ids(Append(ts, e)) = Ids(ts) \union {e.id}
           /\ Append(ts, e) # <<>>
<1> DEFINE new == Append(ts, e)
           n == Len(ts)
<1>1. /\ n \in Nat /\ DOMAIN ts = 1..n /\ DOMAIN new = 1..n + 1
      /\ new \in Seq(TimerRecords) /\ new[n + 1] = e
      /\ \A i \in 1..n : new[i] = ts[i]
    BY AppendProperties, LenProperties
<1> HIDE DEF new
<1>2. \A i \in 1..n : new[i].id \in Ids(ts) /\ new[i].id # e.id
    BY <1>1 DEF Ids
<1>3. Distinct(new)
    BY <1>1, <1>2 DEF Distinct
<1>4. Ids(new) = Ids(ts) \union {e.id}
    <2>1. \A i \in 1..n + 1 : i \in 1..n \/ i = n + 1
        BY <1>1
    <2>2. n + 1 \in 1..n + 1 /\ \A i \in 1..n : i \in 1..n + 1
        BY <1>1
    <2> QED BY <1>1, <2>1, <2>2 DEF Ids
<1>5. new # <<>>
    BY <1>1
<1> QED BY <1>1, <1>3, <1>4, <1>5 DEF new

LEMMA TakenOut ==
    ASSUME NEW ts \in Seq(TimerRecords), Distinct(ts), NEW t
    PROVE  /\ Without(ts, t) \in Seq(TimerRecords) /\ Distinct(Without(ts, t))
           /\ Ids(Without(ts, t)) = Ids(ts) \ {t}
<1> DEFINE found == {i \in DOMAIN ts : ts[i].id = t}
           n == Len(ts)
<1>1. n \in Nat /\ DOMAIN ts = 1..n /\ \A i \in 1..n : ts[i] \in TimerRecords
    BY LenProperties, ElementOfSeq
<1>2. CASE found = {}
    <2>1. Without(ts, t) = ts
        BY <1>2 DEF Without
    <2>2. t \notin Ids(ts)
        BY <1>2 DEF Ids
    <2> QED BY <2>1, <2>2
<1>3. CASE found # {}
    <2>1. PICK k : k = CHOOSE i \in found : TRUE
        OBVIOUS
    <2>2. k \in 1..n /\ ts[k].id = t
        BY <1>1, <1>3, <2>1
    <2>3. Without(ts, t) = RemoveAt(ts, k)
        BY <1>3, <2>1 DEF Without
    <2>4. Without(ts, t) = SubSeq(ts, 1, k - 1) \o SubSeq(ts, k + 1, n)
        BY <2>3 DEF RemoveAt
    <2> DEFINE a == SubSeq(ts, 1, k - 1)
               b == SubSeq(ts, k + 1, n)
               new == a \o b
    <2>5. /\ a \in Seq(TimerRecords) /\ Len(a) = k - 1
          /\ \A i \in 1..k - 1 : a[i] = ts[i]
        BY <1>1, <2>2
    <2>6. /\ b \in Seq(TimerRecords) /\ Len(b) = n - k
          /\ \A i \in 1..n - k : b[i] = ts[k + i]
        BY <1>1, <2>2
    <2> HIDE DEF a, b
    <2>7. /\ new \in Seq(TimerRecords) /\ Len(new) = n - 1
          /\ \A i \in 1..n - 1 : new[i] = IF i < k THEN a[i] ELSE b[i - (k - 1)]
        <3>1. /\ new \in Seq(TimerRecords) /\ Len(new) = Len(a) + Len(b)
              /\ \A i \in 1..Len(a) + Len(b) :
                    new[i] = IF i <= Len(a) THEN a[i] ELSE b[i - Len(a)]
            BY <2>5, <2>6, ConcatProperties
        <3> HIDE DEF new
        <3>2. Len(a) + Len(b) = n - 1
            BY <1>1, <2>2, <2>5, <2>6
        <3>3. \A i \in 1..n - 1 : i <= k - 1 <=> i < k
            BY <1>1, <2>2
        <3> QED BY <2>5, <3>1, <3>2, <3>3
    <2>8. DOMAIN new = 1..n - 1
        BY <2>7
    <2> HIDE DEF new
    <2>9. \A i \in 1..n - 1 : new[i] = ts[IF i < k THEN i ELSE i + 1]
        <3> TAKE i \in 1..n - 1
        <3>1. CASE i < k
            <4>1. i \in 1..k - 1
                BY <1>1, <2>2, <3>1
            <4> QED BY <2>5, <2>7, <3>1, <4>1
        <3>2. CASE ~(i < k)
            <4>1. i - (k - 1) \in 1..n - k /\ k + (i - (k - 1)) = i + 1
                BY <1>1, <2>2, <3>2
            <4> QED BY <2>6, <2>7, <3>2, <4>1
        <3> QED BY <3>1, <3>2
    <2>10. \A i \in 1..n : ts[i].id = t => i = k
        BY <1>1, <2>2 DEF Distinct
    <2>11. Distinct(new)
        <3> SUFFICES ASSUME NEW i \in 1..n - 1, NEW j \in 1..n - 1, new[i].id = new[j].id
                     PROVE  i = j
            BY <2>8 DEF Distinct
        <3> DEFINE I == IF i < k THEN i ELSE i + 1
                   J == IF j < k THEN j ELSE j + 1
        <3>1. I \in 1..n /\ J \in 1..n
            BY <1>1, <2>2
        <3>2. ts[I].id = ts[J].id
            BY <2>9
        <3>3. I = J
            <4> HIDE DEF I, J
            <4> QED BY <1>1, <3>1, <3>2 DEF Distinct
        <3> QED BY <1>1, <2>2, <3>3
    <2>12. ASSUME NEW i \in 1..n - 1
           PROVE  new[i].id \in Ids(ts) \ {t}
        <3> DEFINE j == IF i < k THEN i ELSE i + 1
        <3>1. j \in 1..n /\ j # k /\ new[i] = ts[j]
            BY <1>1, <2>2, <2>9
        <3> HIDE DEF j
        <3> QED BY <1>1, <2>10, <3>1 DEF Ids
    <2>13. ASSUME NEW i \in 1..n, ts[i].id # t
           PROVE  ts[i].id \in Ids(new)
        <3>1. CASE i < k
            <4>1. i \in 1..n - 1 /\ new[i] = ts[i]
                BY <1>1, <2>2, <2>9, <3>1
            <4> QED BY <2>8, <4>1 DEF Ids
        <3>2. CASE ~(i < k)
            <4>1. i # k
                BY <2>2, <2>13
            <4>2. i - 1 \in 1..n - 1 /\ ~(i - 1 < k) /\ new[i - 1] = ts[i]
                BY <1>1, <2>2, <2>9, <3>2, <4>1
            <4> QED BY <2>8, <4>2 DEF Ids
        <3> QED BY <3>1, <3>2
    <2>14. Ids(new) = Ids(ts) \ {t}
        BY <1>1, <2>8, <2>12, <2>13 DEF Ids
    <2> QED BY <2>4, <2>7, <2>11, <2>14 DEF a, b, new
<1> QED BY <1>2, <1>3

-----------------------------------------------------------------------------
(* What a call does to its handler *)

\* Every call leaves its handler with some data d, or gives it up.
Becomes(h, d) ==
    \/ Keeps(h, d) /\ (~select => HasEvent(d))
    \/ Settles(h, d) /\ (HasEvent(d) => Attached(h))

LEMMA DataIsListed ==
    ASSUME ReactorInv, NEW h \in Handlers
    PROVE  /\ Good(h, Data(h)) /\ data[h] \in {{}, {Data(h)}}
           /\ ~Attached(h) => Data(h) = NoData
           /\ Listed(Data(h)) = Ids(Data(h).timers)
           /\ Ids(Data(h).timers) \subseteq Timers
           /\ Listed(Data(h)) # {} => Attached(h)
<1>1. Good(h, Data(h)) /\ data[h] \in {{}, {Data(h)}}
    BY DEF ReactorInv, DataOK
<1>2. ~Attached(h) => Data(h) = NoData
    BY DEF Data
<1>3. Listed(Data(h)) = Ids(Data(h).timers)
    BY DEF Listed, Ids
<1>4. Ids(Data(h).timers) \subseteq Timers
    <2>1. Data(h).timers \in Seq(TimerRecords)
        BY <1>1 DEF Good, DataRecords
    <2>2. \A i \in DOMAIN Data(h).timers : Data(h).timers[i] \in TimerRecords
        BY <2>1
    <2> QED BY <2>2 DEF Ids, TimerRecords
<1> QED BY <1>1, <1>2, <1>3, <1>4, NoDataIsGood

LEMMA HandlerBecomes ==
    ASSUME ReactorInv, NEW h \in Handlers, NEW d, Good(h, d), Becomes(h, d), select' = select,
           \A g \in Handlers \ {h} : Listed(d) \cap Listed(Data(g)) = {}
    PROVE  /\ handlers' \subseteq Handlers
           /\ DataOK' /\ TimersApart' /\ HandlersHaveData' /\ DetachedWhenIdle'
           /\ Listed(Data(h)') = Listed(d)
           /\ \/ Data(h)' = d
              \/ Data(h)' = NoData /\ data'[h] = {} /\ ~HasEvent(d)
           /\ \A g \in Handlers \ {h} : Data(g)' = Data(g) /\ data'[g] = data[g]
<1> USE DEF Attached
<1>1. PICK S : data' = [data EXCEPT ![h] = S] /\ S \in {{}, {d}}
    BY DEF Becomes, Keeps, Settles
<1>2. /\ data = [g \in Handlers |-> data[g]] /\ handlers \subseteq Handlers
      /\ \A g \in Handlers : data[g] \in {{}, {Data(g)}} /\ Good(g, Data(g))
    BY DEF ReactorInv, DataOK, Basics
<1>3. /\ data' = [g \in Handlers |-> data'[g]] /\ data'[h] = S
      /\ \A g \in Handlers \ {h} : data'[g] = data[g]
    BY <1>1, <1>2
<1>4. \A g \in Handlers \ {h} : Data(g)' = Data(g)
    <2> TAKE g \in Handlers \ {h}
    <2>1. data'[g] = data[g]
        BY <1>3
    <2> QED BY <2>1 DEF Data
<1>5. Data(h)' = IF S = {} THEN NoData ELSE d
    BY <1>1, <1>3 DEF Data
<1>6. S = {} => ~HasEvent(d)
    BY <1>1, <1>3 DEF Becomes, Keeps, Settles
<1>7. Listed(Data(h)') = Listed(d)
    <2>1. S = {} => Listed(d) = {}
        <3>1. S = {} => d.timers = <<>>
            BY <1>6 DEF HasEvent
        <3> QED BY <3>1 DEF Listed
    <2> QED BY <1>5, <2>1, NoDataIsGood
<1>8. DataOK'
    <2>1. \A g \in Handlers : data'[g] \in {{}, {Data(g)'}} /\ Good(g, Data(g)')
        <3> TAKE g \in Handlers
        <3>1. CASE g = h
            BY <1>1, <1>3, <1>5, <3>1, NoDataIsGood
        <3>2. CASE g # h
            BY <1>2, <1>3, <1>4, <3>2
        <3> QED BY <3>1, <3>2
    <2> QED BY <1>3, <2>1 DEF DataOK, Good, DataRecords, EventType, TimerRecords, Times, Moment
<1>9. TimersApart'
    <2>1. \A f, g \in Handlers : f # g => Listed(Data(f)') \cap Listed(Data(g)') = {}
        <3> TAKE f, g \in Handlers
        <3>1. f # h /\ g # h /\ f # g => Listed(Data(f)) \cap Listed(Data(g)) = {}
            BY DEF ReactorInv, TimersApart
        <3> QED BY <1>4, <1>7, <3>1
    <2> QED BY <2>1 DEF TimersApart, Listed
<1>10. handlers' \subseteq Handlers
    BY <1>2 DEF Becomes, Keeps, Settles
<1>11. HandlersHaveData'
    <2>1. SUFFICES ASSUME select
                   PROVE  handlers' = {g \in Handlers : data'[g] # {}}
        BY DEF HandlersHaveData
    <2>2. handlers = {g \in Handlers : data[g] # {}}
        BY <2>1 DEF ReactorInv, HandlersHaveData
    <2>3. data'[h] = IF Keeps(h, d) \/ HasEvent(d) THEN {d} ELSE {}
        BY <1>2 DEF Becomes, Keeps, Settles
    <2>4. \/ data'[h] = {d} /\ handlers' = handlers \union {h}
          \/ data'[h] = {} /\ handlers' = handlers \ {h}
        <3>1. CASE Keeps(h, d)
            BY <1>2, <2>1, <3>1 DEF Keeps
        <3>2. CASE Settles(h, d) /\ HasEvent(d) /\ Attached(h)
            BY <1>2, <2>2, <3>2 DEF Settles
        <3>3. CASE Settles(h, d) /\ ~HasEvent(d)
            BY <1>2, <3>3 DEF Settles
        <3> QED BY <3>1, <3>2, <3>3 DEF Becomes
    <2> QED BY <1>3, <2>2, <2>4
<1>12. DetachedWhenIdle'
    <2>1. SUFFICES ASSUME ~select, NEW g \in Handlers, data'[g] # {}
                   PROVE  HasEvent(Data(g)')
        BY DEF DetachedWhenIdle, HasEvent
    <2>2. CASE g = h
        <3>1. Data(h)' = d
            BY <1>3, <1>5, <2>1, <2>2
        <3>2. HasEvent(d)
            BY <1>2, <1>3, <2>1, <2>2 DEF Becomes, Settles
        <3> QED BY <2>2, <3>1, <3>2
    <2>3. CASE g # h
        BY <1>3, <1>4, <2>1, <2>3 DEF ReactorInv, DetachedWhenIdle
    <2> QED BY <2>2, <2>3
<1>13. Data(h)' = d \/ (Data(h)' = NoData /\ data'[h] = {} /\ ~HasEvent(d))
    <2>1. CASE S = {}
        BY <1>3, <1>5, <1>6, <2>1
    <2>2. S # {} => Data(h)' = d
        BY <1>5
    <2> QED BY <2>1, <2>2
<1> QED BY <1>3, <1>4, <1>7, <1>8, <1>9, <1>10, <1>11, <1>12, <1>13

\* A call for h that may be made: the timers in d are of no other handler.
Touches(h, d) ==
    /\ Good(h, d) /\ Becomes(h, d)
    /\ \A g \in Handlers \ {h} : Listed(d) \cap Listed(Data(g)) = {}

LEMMA TouchedKeepsInv ==
    ASSUME ReactorInv, NEW h \in Handlers, NEW d, Touches(h, d), UNCHANGED <<select, quiet>>,
           now' \in 0..Horizon, expiring' \subseteq expiring, aborted' \in BOOLEAN
    PROVE  ReactorInv'
<1>1. /\ handlers' \subseteq Handlers
      /\ DataOK' /\ TimersApart' /\ HandlersHaveData' /\ DetachedWhenIdle'
    BY HandlerBecomes DEF Touches
<1>2. Basics'
    BY <1>1 DEF ReactorInv, Basics
<1>3. ExpiringOK'
    BY DEF ReactorInv, ExpiringOK
<1> QED BY <1>1, <1>2, <1>3 DEF ReactorInv

-----------------------------------------------------------------------------
(* The calls *)

LEMMA RegisterTouches ==
    ASSUME ReactorInv, NEW h \in Handlers, RegisterHandler(h)
    PROVE  \E d : Touches(h, d) /\ Listed(d) = Listed(Data(h))
<1>1. PICK r \in Registrations(h) :
         /\ now + r.delay <= Horizon
         /\ Keeps(h, [Data(h) EXCEPT ![r.kind] = Registered(@, h, r.persist, r.delay)])
    BY DEF RegisterHandler
<1>2. r.kind \in Kinds /\ r.persist \in BOOLEAN /\ r.delay \in Nat
    <2>1. CASE h \in Listeners
        <3>1. r.kind = "read" /\ r.persist \in {TRUE} /\ r.delay = 0
            BY <1>1, <2>1 DEF Registrations
        <3>2. {TRUE} \subseteq BOOLEAN
            OBVIOUS
        <3>3. r.persist \in BOOLEAN
            BY <3>1, <3>2
        <3> QED BY <3>1, <3>3 DEF Kinds
    <2>2. CASE h \notin Listeners
        BY <1>1, <2>2, ReactorsAssumption DEF Registrations
    <2> QED BY <2>1, <2>2
<1>3. Good(h, Data(h)) /\ now \in 0..Horizon
    BY DataIsListed DEF ReactorInv, Basics
<1>4. Data(h)[r.kind] \in EventType(h)
    BY <1>2, <1>3 DEF Good, DataRecords, Kinds
<1>5. PICK e : e = Registered(Data(h)[r.kind], h, r.persist, r.delay)
    OBVIOUS
<1>6. e \in EventType(h) /\ e.on = "on" /\ e.fd = h
    BY <1>1, <1>2, <1>3, <1>4, <1>5, RegisteredIsOn
<1>7. PICK d : d = [Data(h) EXCEPT ![r.kind] = e]
    OBVIOUS
<1>8. Good(h, d) /\ d.timers = Data(h).timers /\ d[r.kind] = e
    <2>1. d = Replaced(Data(h), r.kind, e)
        BY <1>7 DEF Replaced
    <2> QED BY <1>2, <1>3, <1>6, <2>1, EventReplaced
<1>9. HasEvent(d)
    BY <1>2, <1>6, <1>8 DEF HasEvent, Kinds
<1>10. Listed(d) = Listed(Data(h))
    BY <1>8 DEF Listed
<1>11. Becomes(h, d)
    BY <1>1, <1>5, <1>7, <1>9 DEF Becomes
<1> QED BY <1>8, <1>10, <1>11 DEF Touches, ReactorInv, TimersApart

LEMMA RemoveTouches ==
    ASSUME ReactorInv, NEW h \in Handlers, NEW mask \in SUBSET Kinds,
           Settles(h, AfterRemove(Data(h), mask)), Attached(h) \/ mask = Kinds
    PROVE  \E d : /\ Touches(h, d) /\ Listed(d) = Listed(Data(h))
                  /\ d = AfterRemove(Data(h), mask) /\ Settles(h, d)
<1>1. Good(h, Data(h))
    BY DataIsListed
<1>2. PICK d : d = AfterRemove(Data(h), mask)
    OBVIOUS
<1>3. /\ Good(h, d) /\ d.timers = Data(h).timers
      /\ mask = Kinds => d.read.on = "off" /\ d.write.on = "off"
    BY <1>1, <1>2, EventsRemoved DEF Kinds
<1>4. Listed(d) = Listed(Data(h))
    BY <1>3 DEF Listed
<1>5. HasEvent(d) => Attached(h)
    BY <1>3, DataIsListed, NoDataIsGood DEF HasEvent
<1>6. Becomes(h, d)
    BY <1>2, <1>5 DEF Becomes
<1> QED BY <1>2, <1>3, <1>4, <1>6 DEF Touches, ReactorInv, TimersApart

LEMMA ScheduleTouches ==
    ASSUME ReactorInv, NEW h \in Handlers, NEW t \in Timers, ScheduleTimer(h, t)
    PROVE  \E d : Touches(h, d) /\ Listed(d) = Listed(Data(h)) \union {t}
<1>1. /\ Good(h, Data(h)) /\ now \in 0..Horizon
      /\ Listed(Data(h)) = Ids(Data(h).timers)
    BY DataIsListed DEF ReactorInv, Basics
<1>2. PICK delay \in Delays :
         /\ now + delay <= Horizon
         /\ Keeps(h, [Data(h) EXCEPT !.timers =
                         Append(@, [id |-> t, until |-> Deadline(delay)])])
    BY DEF ScheduleTimer
<1>3. Deadline(delay) \in Times
    BY <1>1, <1>2, DeadlineIsATime, ReactorsAssumption
<1>4. PICK e : e = [id |-> t, until |-> Deadline(delay)]
    OBVIOUS
<1>5. e \in TimerRecords /\ e.id = t
    BY <1>3, <1>4 DEF TimerRecords
<1>6. \A g \in Handlers : t \notin Listed(Data(g))
    BY DEF ScheduleTimer
<1>7. Data(h).timers \in Seq(TimerRecords) /\ Distinct(Data(h).timers)
    BY <1>1 DEF Good, DataRecords
<1>8. PICK ts : ts = Append(Data(h).timers, e)
    OBVIOUS
<1>9. /\ ts \in Seq(TimerRecords) /\ Distinct(ts) /\ ts # <<>>
      /\ Ids(ts) = Listed(Data(h)) \union {t}
    BY <1>1, <1>5, <1>6, <1>7, <1>8, ScheduledLast
<1>10. PICK d : d = [Data(h) EXCEPT !.timers = ts]
    OBVIOUS
<1>11. Good(h, d) /\ d.timers = ts
    BY <1>1, <1>9, <1>10, TimersReplaced
<1>12. Listed(d) = Listed(Data(h)) \union {t}
    BY <1>9, <1>11 DEF Listed, Ids
<1>13. Becomes(h, d)
    BY <1>2, <1>4, <1>8, <1>9, <1>10, <1>11 DEF Becomes, HasEvent
<1> QED BY <1>6, <1>11, <1>12, <1>13 DEF Touches, ReactorInv, TimersApart

\* Cancelling one of the timers, or all of them.
LEMMA CancelTouches ==
    ASSUME ReactorInv, NEW h \in Handlers, NEW ts \in Seq(TimerRecords), Distinct(ts),
           Ids(ts) \subseteq Listed(Data(h)), Attached(h),
           \/ Settles(h, [Data(h) EXCEPT !.timers = ts])
           \/ Keeps(h, [Data(h) EXCEPT !.timers = ts]) /\ select
    PROVE  \E d : Touches(h, d) /\ Listed(d) = Ids(ts)
<1>1. Good(h, Data(h))
    BY DataIsListed
<1>2. PICK d : d = [Data(h) EXCEPT !.timers = ts]
    OBVIOUS
<1>3. Good(h, d) /\ d.timers = ts
    BY <1>1, <1>2, TimersReplaced
<1>4. Listed(d) = Ids(ts)
    BY <1>3 DEF Listed, Ids
<1>5. Becomes(h, d)
    BY <1>2 DEF Becomes
<1> QED BY <1>3, <1>4, <1>5 DEF Touches, ReactorInv, TimersApart

LEMMA ReadyTouches ==
    ASSUME ReactorInv, NEW h \in Handlers, NEW kind \in Kinds, Ready(h, kind)
    PROVE  \E d : Touches(h, d) /\ Listed(d) = Listed(Data(h))
<1>1. Good(h, Data(h)) /\ Attached(h) /\ Data(h)[kind].on = "on"
    BY DataIsListed DEF Ready, Called
<1>2. PICK e : e = Fired(Data(h)[kind])
    OBVIOUS
<1>3. /\ Data(h)[kind] \in EventType(h)
      /\ Data(h)[kind].on = "on" => Data(h)[kind].fd = h
    BY <1>1 DEF Good, DataRecords, Kinds
<1>4. /\ e \in EventType(h) /\ (e.on = "on" => e.fd = h)
      /\ ~select => e.on # "off"
    BY <1>1, <1>2, <1>3, FiredIsKnown
<1>5. PICK d : d = [Data(h) EXCEPT ![kind] = e]
    OBVIOUS
<1>6. Good(h, d) /\ d.timers = Data(h).timers /\ d[kind] = e
    <2>1. d = Replaced(Data(h), kind, e)
        BY <1>5 DEF Replaced
    <2> QED BY <1>1, <1>4, <2>1, EventReplaced
<1>7. ~select => HasEvent(d)
    BY <1>4, <1>6 DEF HasEvent, Kinds
<1>8. Keeps(h, d)
    <2>1. data' = [data EXCEPT ![h] = {d}] /\ UNCHANGED handlers
        BY <1>2, <1>5 DEF Ready
    <2>2. select => handlers \union {h} = handlers
        BY <1>1 DEF ReactorInv, HandlersHaveData
    <2> QED BY <2>1, <2>2 DEF Keeps
<1>9. Listed(d) = Listed(Data(h))
    BY <1>6 DEF Listed
<1>10. Becomes(h, d)
    BY <1>7, <1>8 DEF Becomes
<1> QED BY <1>6, <1>9, <1>10 DEF Touches, ReactorInv, TimersApart

LEMMA TimersCutDown ==
    ASSUME ReactorInv, NEW h \in Handlers, NEW t
    PROVE  LET ts == Without(Data(h).timers, t)
           IN /\ ts \in Seq(TimerRecords) /\ Distinct(ts)
              /\ Ids(ts) = Listed(Data(h)) \ {t}
<1>1. /\ Data(h).timers \in Seq(TimerRecords) /\ Distinct(Data(h).timers)
      /\ Listed(Data(h)) = Ids(Data(h).timers)
    BY DataIsListed DEF Good, DataRecords
<1> QED BY <1>1, TakenOut

\* A call touches its handler only, and a timer goes when it is cancelled.
LEMMA CallTouches ==
    ASSUME ReactorInv, NEW h \in Handlers, Calls(h)
    PROVE  /\ UNCHANGED <<select, now, quiet, expiring, aborted>>
           /\ \E d : /\ Touches(h, d)
                     /\ \A t \in Listed(Data(h)) \ Listed(d) :
                           CancelTimer(h, t) \/ CancelTimers(h)
<1>1. CASE RegisterHandler(h)
    <2>1. UNCHANGED <<select, now, quiet, expiring, aborted>>
        BY <1>1 DEF RegisterHandler
    <2> QED BY <1>1, <2>1, RegisterTouches
<1>2. CASE RemoveHandler(h)
    <2>1. PICK mask \in SUBSET Kinds \ {{}} : Settles(h, AfterRemove(Data(h), mask))
        BY <1>2 DEF RemoveHandler
    <2>2. Attached(h) /\ UNCHANGED <<select, now, quiet, expiring, aborted>>
        BY <1>2 DEF RemoveHandler
    <2> QED BY <2>1, <2>2, RemoveTouches
<1>3. ASSUME NEW t \in Timers, ScheduleTimer(h, t)
      PROVE  /\ UNCHANGED <<select, now, quiet, expiring, aborted>>
             /\ \E d : Touches(h, d) /\ Listed(Data(h)) \subseteq Listed(d)
    <2>1. UNCHANGED <<select, now, quiet, expiring, aborted>>
        BY <1>3 DEF ScheduleTimer
    <2> QED BY <1>3, <2>1, ScheduleTouches
<1>4. ASSUME NEW t \in Timers, CancelTimer(h, t)
      PROVE  /\ UNCHANGED <<select, now, quiet, expiring, aborted>>
             /\ \E d : Touches(h, d) /\ Listed(d) = Listed(Data(h)) \ {t}
    <2>1. /\ UNCHANGED <<select, now, quiet, expiring, aborted>>
          /\ t \in Listed(Data(h))
          /\ Settles(h, [Data(h) EXCEPT !.timers = Without(@, t)])
        BY <1>4 DEF CancelTimer
    <2>2. Attached(h)
        BY <2>1, DataIsListed
    <2>3. PICK ts : ts = Without(Data(h).timers, t)
        OBVIOUS
    <2>4. ts \in Seq(TimerRecords) /\ Distinct(ts) /\ Ids(ts) = Listed(Data(h)) \ {t}
        BY <2>3, TimersCutDown
    <2>5. \E d : Touches(h, d) /\ Listed(d) = Ids(ts)
        BY <2>1, <2>2, <2>3, <2>4, CancelTouches
    <2> QED BY <2>1, <2>4, <2>5
<1>5. CASE CancelTimers(h)
    <2>1. /\ UNCHANGED <<select, now, quiet, expiring, aborted>> /\ Attached(h)
          /\ Settles(h, [Data(h) EXCEPT !.timers = <<>>])
        BY <1>5 DEF CancelTimers
    <2>2. <<>> \in Seq(TimerRecords) /\ Distinct(<<>>) /\ Ids(<<>>) = {}
        BY DEF Distinct, Ids
    <2>3. \E d : Touches(h, d) /\ Listed(d) = {}
        BY <2>1, <2>2, CancelTouches
    <2> QED BY <1>5, <2>1, <2>3
<1>6. ASSUME NEW kind \in Kinds, Ready(h, kind)
      PROVE  /\ UNCHANGED <<select, now, quiet, expiring, aborted>>
             /\ \E d : Touches(h, d) /\ Listed(d) = Listed(Data(h))
    <2>1. UNCHANGED <<select, now, quiet, expiring, aborted>>
        BY <1>6 DEF Ready
    <2> QED BY <1>6, <2>1, ReadyTouches
<1>7. \/ RegisterHandler(h) \/ RemoveHandler(h) \/ CancelTimers(h)
      \/ \E t \in Timers : ScheduleTimer(h, t)
      \/ \E t \in Timers : CancelTimer(h, t)
      \/ \E kind \in Kinds : Ready(h, kind)
    BY DEF Calls
<1>8. CASE \E t \in Timers : ScheduleTimer(h, t)
    BY <1>3, <1>8
<1>9. CASE \E t \in Timers : CancelTimer(h, t)
    <2>1. PICK t \in Timers : CancelTimer(h, t)
        BY <1>9
    <2>2. PICK d : Touches(h, d) /\ Listed(d) = Listed(Data(h)) \ {t}
        BY <1>4, <2>1
    <2>3. \A s \in Listed(Data(h)) \ Listed(d) : s = t
        BY <2>2
    <2> QED BY <1>4, <2>1, <2>2, <2>3
<1>10. CASE \E kind \in Kinds : Ready(h, kind)
    BY <1>6, <1>10
<1> QED BY <1>1, <1>2, <1>5, <1>7, <1>8, <1>9, <1>10

LEMMA CallKeepsInv ==
    ASSUME ReactorInv, NEW h \in Handlers, Calls(h)
    PROVE  ReactorInv'
<1>1. PICK d : Touches(h, d)
    BY CallTouches
<1>2. /\ UNCHANGED <<select, now, quiet, expiring, aborted>>
      /\ now' \in 0..Horizon /\ expiring' \subseteq expiring /\ aborted' \in BOOLEAN
    BY CallTouches DEF ReactorInv, Basics
<1> QED BY <1>1, <1>2, TouchedKeepsInv

-----------------------------------------------------------------------------
(* The reactor's own steps *)

\* Time may pass and a timer may begin to run out without touching a handler.
LEMMA UntouchedKeepsInv ==
    ASSUME ReactorInv, UNCHANGED <<select, data, handlers>>, quiet' \in BOOLEAN,
           now' \in 0..Horizon, aborted' \in BOOLEAN,
           expiring' \subseteq [handler : Handlers, timer : Timers]
    PROVE  ReactorInv'
<1>1. \A h \in Handlers : Data(h)' = Data(h) /\ data'[h] = data[h]
    BY DEF Data, Attached
<1>2. Basics'
    BY DEF ReactorInv, Basics
<1>3. DataOK'
    <2>1. \A h \in Handlers : data'[h] \in {{}, {Data(h)'}} /\ Good(h, Data(h)')
        BY <1>1 DEF ReactorInv, DataOK
    <2>2. data' = [h \in Handlers |-> data'[h]]
        BY DEF ReactorInv, DataOK
    <2> QED BY <2>1, <2>2
            DEF DataOK, Good, DataRecords, EventType, TimerRecords, Times, Moment
<1>4. TimersApart'
    <2>1. \A g, h \in Handlers : g # h => Listed(Data(g)') \cap Listed(Data(h)') = {}
        BY <1>1 DEF ReactorInv, TimersApart
    <2> QED BY <2>1 DEF TimersApart, Listed
<1>5. ExpiringOK'
    BY DEF ExpiringOK
<1>6. HandlersHaveData'
    BY <1>1 DEF ReactorInv, HandlersHaveData, Attached
<1>7. DetachedWhenIdle'
    BY <1>1 DEF ReactorInv, DetachedWhenIdle, Attached, HasEvent
<1> QED BY <1>2, <1>3, <1>4, <1>5, <1>6, <1>7 DEF ReactorInv

\* An event's timeout takes both events of its handler and none of its timers.
TimesOut(h, d) ==
    /\ Touches(h, d) /\ Settles(h, d)
    /\ d.read.on = "off" /\ d.write.on = "off" /\ d.timers = Data(h).timers

LEMMA EventTimesOutTouches ==
    ASSUME ReactorInv, NEW h \in Handlers, EventTimesOut(h)
    PROVE  \E d : TimesOut(h, d)
<1>1. PICK d : Touches(h, d) /\ d = AfterRemove(Data(h), Kinds) /\ Settles(h, d)
    BY RemoveTouches DEF EventTimesOut
<1>2. Good(h, Data(h)) /\ "read" \in Kinds /\ "write" \in Kinds
    BY DataIsListed DEF Kinds
<1>3. d.timers = Data(h).timers /\ d.read.on = "off" /\ d.write.on = "off"
    BY <1>1, <1>2, EventsRemoved
<1> QED BY <1>1, <1>3 DEF TimesOut

\* A timer that ran out is taken from its handler, which had it.
RunsOut(x, d) ==
    /\ x.handler \in Handlers /\ Touches(x.handler, d)
    /\ x.timer \in Listed(Data(x.handler))
    /\ Listed(d) = Listed(Data(x.handler)) \ {x.timer}

LEMMA TimerReturns ==
    ASSUME ReactorInv, SelectTimerReturns \/ LibEventTimerReturns
    PROVE  /\ UNCHANGED <<select, now, quiet>> /\ expiring' = {} /\ aborted' \in BOOLEAN
           /\ \/ UNCHANGED <<data, handlers>>
              \/ \E x \in expiring : \E d : RunsOut(x, d)
<1>1. UNCHANGED <<select, now, quiet>> /\ expiring' = {} /\ aborted' \in BOOLEAN
    <2>1. aborted \in BOOLEAN
        BY DEF ReactorInv, Basics
    <2>2. aborted' = aborted \/ aborted' = TRUE
        BY DEF SelectTimerReturns, LibEventTimerReturns
    <2>3. aborted' \in BOOLEAN
        BY <2>1, <2>2, Zenon
    <2> QED BY <2>3 DEF SelectTimerReturns, LibEventTimerReturns
<1>2. SUFFICES ASSUME ~UNCHANGED <<data, handlers>>
               PROVE  \E x \in expiring : \E d : RunsOut(x, d)
    BY <1>1
<1>3. PICK x, ts :
         /\ x \in expiring /\ ts = Without(Data(x.handler).timers, x.timer)
         /\ x.timer \in Listed(Data(x.handler))
         /\ \/ Settles(x.handler, [Data(x.handler) EXCEPT !.timers = ts])
            \/ Keeps(x.handler, [Data(x.handler) EXCEPT !.timers = ts]) /\ select
    <2>1. CASE SelectTimerReturns
        <3>1. PICK x \in expiring :
                 /\ x.timer \in Listed(Data(x.handler))
                 /\ Keeps(x.handler, [Data(x.handler) EXCEPT !.timers = Without(@, x.timer)])
            BY <1>2, <2>1 DEF SelectTimerReturns
        <3> QED BY <2>1, <3>1 DEF SelectTimerReturns
    <2>2. CASE LibEventTimerReturns
        <3>1. PICK x \in expiring :
                 IF x.timer \in Listed(Data(x.handler))
                 THEN Settles(x.handler, [Data(x.handler) EXCEPT !.timers = Without(@, x.timer)])
                 ELSE UNCHANGED <<data, handlers>>
            BY <2>2 DEF LibEventTimerReturns
        <3> QED BY <1>2, <3>1
    <2> QED BY <2>1, <2>2
<1>4. x.handler \in Handlers
    BY <1>3 DEF ReactorInv, ExpiringOK
<1>5. PICK h, t : h = x.handler /\ t = x.timer
    OBVIOUS
<1>6. /\ ts \in Seq(TimerRecords) /\ Distinct(ts)
      /\ Ids(ts) = Listed(Data(h)) \ {t} /\ Attached(h)
    BY <1>3, <1>4, <1>5, TimersCutDown, DataIsListed
<1>7. PICK d : Touches(h, d) /\ Listed(d) = Ids(ts)
    BY <1>3, <1>4, <1>5, <1>6, CancelTouches
<1>8. RunsOut(x, d)
    BY <1>3, <1>4, <1>5, <1>6, <1>7 DEF RunsOut
<1> QED BY <1>3, <1>8

\* What a step of the reactor does: it touches no handler, or times an event
\* out, or takes out a timer that ran out.
LEMMA TimeoutDoes ==
    ASSUME ReactorInv, Timeout
    PROVE  /\ ReactorInv'
           /\ \/ UNCHANGED <<data, handlers>>
              \/ \E h \in Handlers : \E d : TimesOut(h, d)
              \/ /\ SelectTimerReturns \/ LibEventTimerReturns
                 /\ \E x \in expiring : \E d : RunsOut(x, d)
<1>0. now \in 0..Horizon /\ \A h \in Handlers : Good(h, Data(h))
    BY DEF ReactorInv, Basics, DataOK
<1>1. CASE SelectTimesOut
    <2>1. PICK least \in Least :
             /\ now' = now + Moment(Wait(least.until))
             /\ IF least.timer = NoTimer
                THEN EventTimesOut(least.handler) /\ UNCHANGED expiring
                ELSE /\ Begins(least.handler, least.timer)
                     /\ UNCHANGED <<data, handlers>>
        BY <1>1 DEF SelectTimesOut
    <2>2. /\ select /\ expiring = {} /\ UNCHANGED <<select, quiet>> /\ quiet \in BOOLEAN
          /\ aborted' \in BOOLEAN
        BY <1>1 DEF SelectTimesOut, ReactorInv, Basics
    <2>3. PICK h, t, until : h = least.handler /\ t = least.timer /\ until = least.until
        OBVIOUS
    <2>4. /\ h \in Handlers /\ t \in Timers \union {NoTimer} /\ until \in Times
          /\ t = NoTimer \/ t \in Listed(Data(h))
        BY <1>0, <2>3, LeastIsAWait DEF Waits
    <2>5. now' \in 0..Horizon
        BY <1>0, <2>1, <2>3, <2>4, WaitingStaysInRange
    <2>6. CASE t = NoTimer
        <3>1. EventTimesOut(h) /\ expiring' = {}
            BY <2>1, <2>2, <2>3, <2>6
        <3>2. PICK d : TimesOut(h, d)
            BY <2>4, <3>1, EventTimesOutTouches
        <3>3. ReactorInv'
            BY <2>2, <2>4, <2>5, <3>1, <3>2, TouchedKeepsInv DEF TimesOut
        <3> QED BY <2>4, <3>2, <3>3
    <2>7. CASE t # NoTimer
        <3>1. /\ UNCHANGED <<data, handlers>>
              /\ expiring' = {[handler |-> h, timer |-> t]}
            BY <2>1, <2>3, <2>7 DEF Begins
        <3>2. t \in Timers
            BY <2>4, <2>7
        <3>3. ReactorInv'
            BY <2>2, <2>4, <2>5, <3>1, <3>2, UntouchedKeepsInv
        <3> QED BY <3>1, <3>3
    <2> QED BY <2>6, <2>7
<1>2. CASE SelectTimerReturns \/ LibEventTimerReturns
    <2>1. /\ UNCHANGED <<select, now, quiet>> /\ expiring' = {} /\ quiet \in BOOLEAN
          /\ aborted' \in BOOLEAN
        BY <1>2, TimerReturns DEF ReactorInv, Basics
    <2>2. CASE UNCHANGED <<data, handlers>>
        <3>1. ReactorInv'
            BY <1>0, <2>1, <2>2, UntouchedKeepsInv
        <3> QED BY <2>2, <3>1
    <2>3. CASE \E x \in expiring : \E d : RunsOut(x, d)
        <3>1. PICK x \in expiring : \E d : RunsOut(x, d)
            BY <2>3
        <3>2. PICK d : RunsOut(x, d)
            BY <3>1
        <3>3. PICK h : h = x.handler
            OBVIOUS
        <3>4. h \in Handlers /\ Touches(h, d)
            BY <3>2, <3>3 DEF RunsOut
        <3>5. now' \in 0..Horizon /\ expiring' \subseteq expiring
            BY <1>0, <2>1
        <3>6. ReactorInv'
            BY <2>1, <3>4, <3>5, TouchedKeepsInv
        <3> QED BY <1>2, <3>2, <3>6
    <2> QED BY <1>2, <2>2, <2>3, TimerReturns
<1>3. CASE LibEventTimesOut
    <2>1. PICK h \in Handlers : EventTimesOut(h)
        BY <1>3 DEF LibEventTimesOut
    <2>2. /\ UNCHANGED <<select, now, quiet, expiring>> /\ expiring = {}
          /\ aborted' \in BOOLEAN
        BY <1>3 DEF LibEventTimesOut, ReactorInv, Basics
    <2>3. PICK d : TimesOut(h, d)
        BY <2>1, EventTimesOutTouches
    <2>4. now' \in 0..Horizon /\ expiring' = {}
        BY <1>0, <2>2
    <2>5. ReactorInv'
        BY <2>2, <2>3, <2>4, TouchedKeepsInv DEF TimesOut
    <2> QED BY <2>3, <2>5
<1>4. CASE LibEventTimer
    <2>1. /\ UNCHANGED <<select, now, quiet, data, handlers>>
          /\ quiet \in BOOLEAN /\ aborted' \in BOOLEAN
        BY <1>4 DEF LibEventTimer, ReactorInv, Basics
    <2>2. PICK h \in Handlers : \E i \in DOMAIN Data(h).timers : Begins(h, Data(h).timers[i].id)
        BY <1>4 DEF LibEventTimer
    <2>3. PICK i \in DOMAIN Data(h).timers : Begins(h, Data(h).timers[i].id)
        BY <2>2
    <2>4. Data(h).timers[i] \in TimerRecords
        <3>1. Data(h).timers \in Seq(TimerRecords)
            BY <1>0 DEF Good, DataRecords
        <3> QED BY <3>1
    <2>5. expiring' \subseteq [handler : Handlers, timer : Timers]
        BY <2>3, <2>4 DEF Begins, TimerRecords
    <2>9. ReactorInv'
        BY <1>0, <2>1, <2>5, UntouchedKeepsInv
    <2> QED BY <2>1, <2>9
<1> QED BY <1>1, <1>2, <1>3, <1>4 DEF Timeout

LEMMA TimePasses ==
    ASSUME ReactorInv, Tick \/ Quieten \/ UNCHANGED vars
    PROVE  ReactorInv' /\ UNCHANGED <<data, handlers>>
<1>1. /\ UNCHANGED <<select, data, handlers, expiring, aborted>>
      /\ quiet' \in BOOLEAN /\ aborted' \in BOOLEAN
    BY DEF Tick, Quieten, vars, ReactorInv, Basics
<1>2. now' \in 0..Horizon /\ expiring' \subseteq [handler : Handlers, timer : Timers]
    BY ReactorsAssumption DEF Tick, Quieten, vars, ReactorInv, Basics, ExpiringOK
<1>3. ReactorInv'
    BY <1>1, <1>2, UntouchedKeepsInv
<1> QED BY <1>1, <1>3

LEMMA InitHasInv == Init => ReactorInv
<1> SUFFICES ASSUME Init
             PROVE  ReactorInv
    OBVIOUS
<1> USE DEF Init
<1>1. \A h \in Handlers : data[h] = {} /\ ~Attached(h) /\ Data(h) = NoData
    BY DEF Attached, Data
<1>2. Basics
    <2>1. quiet \in BOOLEAN /\ aborted \in BOOLEAN
        BY Zenon
    <2>2. now \in 0..Horizon /\ handlers \subseteq Handlers /\ select \in BOOLEAN
        BY ReactorsAssumption
    <2> QED BY <2>1, <2>2 DEF Basics
<1>3. DataOK
    BY <1>1, NoDataIsGood DEF DataOK
<1>4. TimersApart
    BY <1>1, NoDataIsGood DEF TimersApart
<1>5. ExpiringOK
    BY DEF ExpiringOK
<1>6. HandlersHaveData /\ DetachedWhenIdle
    BY <1>1 DEF HandlersHaveData, DetachedWhenIdle
<1> QED BY <1>2, <1>3, <1>4, <1>5, <1>6 DEF ReactorInv

LEMMA NextKeepsInv == ReactorInv /\ [Next]_vars => ReactorInv'
<1> SUFFICES ASSUME ReactorInv, [Next]_vars
             PROVE  ReactorInv'
    OBVIOUS
<1>1. ASSUME NEW h \in Handlers, Calls(h)
      PROVE  ReactorInv'
    BY <1>1, CallKeepsInv
<1>2. CASE Timeout
    BY <1>2, TimeoutDoes
<1>3. CASE Tick \/ Quieten \/ UNCHANGED vars
    BY <1>3, TimePasses
<1> QED BY <1>1, <1>2, <1>3 DEF Next, Steps, Ended

-----------------------------------------------------------------------------
(* The connectors *)

\* A connector has no timer, and its descriptor is open while it is waited for.
ConnectorsOK ==
    /\ connectors \subseteq Handlers \ Listeners
    /\ timeout \in [connectors -> Delays \union {0}]
    /\ connfd \subseteq connectors
    /\ \A c \in connectors : Data(c).timers = <<>>
    /\ SocketsOwned

ConnectorInv == ReactorInv /\ ConnectorsOK

LEMMA ConnectorInitHasInv == ConnectorInit => ConnectorInv
<1> SUFFICES ASSUME ConnectorInit
             PROVE  ConnectorInv
    OBVIOUS
<1>1. ReactorInv
    BY InitHasInv DEF ConnectorInit
<1>2. \A c \in Handlers : Data(c) = NoData
    BY DEF ConnectorInit, Init, Data, Attached
<1>3. NoData.timers = <<>> /\ NoData.write.on # "on"
    BY DEF NoData, NoEvent
<1>4. connectors \subseteq Handlers \ Listeners
    BY DEF ConnectorInit
<1>5. ConnectorsOK
    BY <1>2, <1>3, <1>4 DEF ConnectorInit, ConnectorsOK, SocketsOwned
<1> QED BY <1>1, <1>5 DEF ConnectorInv

\* Nothing is detached in a step that leaves the connectors alone.
LEMMA OthersLeaveConnectors ==
    ASSUME ConnectorInv, ReactorInv', UNCHANGED <<connectors, timeout>>, HandleClose(Detached),
           \A c \in connectors : Data(c)' = Data(c) /\ data'[c] = data[c]
    PROVE  ConnectorInv'
<1>1. Detached = {}
    BY DEF Detached, Attached
<1>2. UNCHANGED sockets
    BY <1>1 DEF HandleClose, sockets
<1> QED BY <1>2 DEF ConnectorInv, ConnectorsOK, SocketsOwned, sockets

\* A connector's event timeout: there is nothing left, and its socket is closed.
LEMMA ConnectorTimesOut ==
    ASSUME ConnectorInv, ReactorInv', UNCHANGED <<connectors, timeout>>,
           HandleClose(Detached), UNCHANGED select,
           NEW c \in connectors, NEW d, TimesOut(c, d)
    PROVE  ConnectorInv'
<1>1. c \in Handlers /\ Data(c).timers = <<>> /\ ReactorInv /\ connectors \subseteq Handlers
    BY DEF ConnectorInv, ConnectorsOK
<1>2. ~HasEvent(d) /\ Settles(c, d)
    BY <1>1 DEF TimesOut, HasEvent
<1>3. data' = [data EXCEPT ![c] = {}]
    BY <1>2 DEF Settles
<1>4. data'[c] = {} /\ \A b \in Handlers \ {c} : data'[b] = data[b]
    BY <1>1, <1>3 DEF ReactorInv, DataOK
<1>5. Data(c)' = NoData /\ \A b \in Handlers \ {c} : Data(b)' = Data(b)
    <2>1. ASSUME NEW b \in Handlers \ {c}
          PROVE  Data(b)' = Data(b)
        <3>1. data'[b] = data[b]
            BY <1>4, <2>1
        <3> QED BY <3>1 DEF Data, Attached
    <2>2. Data(c)' = NoData
        BY <1>4 DEF Data, Attached
    <2> QED BY <2>1, <2>2
<1>6. NoData.timers = <<>> /\ NoData.write.on # "on"
    BY DEF NoData, NoEvent
<1>7. Detached = IF Attached(c) THEN {c} ELSE {}
    BY <1>1, <1>4 DEF Detached, Attached
<1>8. ~Attached(c) => c \notin connfd
    BY <1>6, DataIsListed, <1>1 DEF ConnectorInv, ConnectorsOK, SocketsOwned
<1>9. connfd' = connfd \ {c} /\ open' = open \ ({c} \intersect connfd) /\ handed' = handed
    BY <1>7, <1>8 DEF HandleClose
<1> QED BY <1>1, <1>5, <1>6, <1>9 DEF ConnectorInv, ConnectorsOK, SocketsOwned

\* What a call of a connector leaves in its reactor data: no timer, as before.
LEMMA ConnectorTouched ==
    ASSUME ConnectorInv, UNCHANGED <<connectors, timeout>>, NEW c \in connectors,
           NEW d, Touches(c, d), d.timers = <<>>,
           UNCHANGED <<select, now, quiet, expiring, aborted>>
    PROVE  /\ ReactorInv'
           /\ \A b \in connectors : Data(b)'.timers = <<>>
           /\ \A b \in connectors \ {c} : Data(b)' = Data(b)
           /\ Data(c)'.write.on = "on" <=> d.write.on = "on"
<1>1. c \in Handlers /\ ReactorInv /\ connectors \subseteq Handlers /\ Data(c).timers = <<>>
    BY DEF ConnectorInv, ConnectorsOK
<1>2. /\ \A g \in Handlers \ {c} : Data(g)' = Data(g)
      /\ \/ Data(c)' = d
         \/ Data(c)' = NoData /\ data'[c] = {} /\ ~HasEvent(d)
    BY <1>1, HandlerBecomes DEF Touches
<1>3. NoData.timers = <<>> /\ NoData.write.on = "off"
    BY DEF NoData, NoEvent
<1>4. Data(c)'.timers = <<>> /\ (Data(c)'.write.on = "on" <=> d.write.on = "on")
    <2>1. CASE Data(c)' = d
        BY <2>1
    <2>2. CASE Data(c)' = NoData /\ data'[c] = {} /\ ~HasEvent(d)
        BY <1>3, <2>2 DEF HasEvent
    <2> QED BY <1>2, <2>1, <2>2
<1>5. \A b \in connectors \ {c} : Data(b)' = Data(b) /\ Data(b).timers = <<>>
    BY <1>1, <1>2 DEF ConnectorInv, ConnectorsOK
<1>7. now' \in 0..Horizon /\ expiring' \subseteq expiring /\ aborted' \in BOOLEAN
    BY <1>1 DEF ReactorInv, Basics
<1>8. ReactorInv'
    BY <1>1, <1>7, TouchedKeepsInv
<1>9. \A b \in connectors : Data(b)'.timers = <<>>
    <2> TAKE b \in connectors
    <2>1. CASE b = c
        BY <1>4, <2>1
    <2>2. CASE b # c
        BY <1>5, <2>2
    <2> QED BY <2>1, <2>2
<1> QED BY <1>4, <1>5, <1>8, <1>9

LEMMA WriteReplaced ==
    ASSUME ConnectorInv, NEW c \in connectors,
           NEW e \in EventType(c), e.on = "on" => e.fd = c, e.on # "off",
           Keeps(c, [Data(c) EXCEPT !.write = e])
    PROVE  \E d : Touches(c, d) /\ d.timers = <<>> /\ d.write = e
<1>1. c \in Handlers /\ ReactorInv /\ Data(c).timers = <<>>
    BY DEF ConnectorInv, ConnectorsOK
<1>2. Good(c, Data(c)) /\ "write" \in Kinds
    BY <1>1, DataIsListed DEF Kinds
<1>3. PICK d : d = Replaced(Data(c), "write", e)
    OBVIOUS
<1>4. Good(c, d) /\ d.timers = <<>> /\ d["write"] = e
    BY <1>1, <1>2, <1>3, EventReplaced
<1>5. d.write = e
    BY <1>4
<1>6. Keeps(c, d)
    BY <1>3 DEF Replaced
<1>7. Becomes(c, d)
    BY <1>5, <1>6 DEF Becomes, HasEvent
<1>8. Listed(d) = {}
    BY <1>4 DEF Listed
<1> QED BY <1>4, <1>5, <1>7, <1>8 DEF Touches

LEMMA WriteRemoved ==
    ASSUME ConnectorInv, NEW c \in connectors, Attached(c),
           Settles(c, AfterRemove(Data(c), {"write"}))
    PROVE  \E d : Touches(c, d) /\ d.timers = <<>> /\ d.write.on = "off"
<1>1. c \in Handlers /\ ReactorInv /\ Data(c).timers = <<>>
    BY DEF ConnectorInv, ConnectorsOK
<1>2. Good(c, Data(c)) /\ {"write"} \in SUBSET Kinds
    BY <1>1, DataIsListed DEF Kinds
<1>3. PICK d : Touches(c, d) /\ d = AfterRemove(Data(c), {"write"})
    BY <1>1, <1>2, RemoveTouches
<1>4. d.timers = <<>> /\ d.write.on = "off"
    BY <1>1, <1>2, <1>3, EventsRemoved
<1> QED BY <1>3, <1>4

LEMMA ConnectorCallKeepsInv ==
    ASSUME ConnectorInv, UNCHANGED <<connectors, timeout>>, NEW c \in connectors,
           ConnectorCalls(c)
    PROVE  ConnectorInv'
<1>1. /\ c \in Handlers /\ ReactorInv /\ connfd \subseteq connectors
      /\ connectors \subseteq Handlers \ Listeners
      /\ timeout \in [connectors -> Delays \union {0}]
    BY DEF ConnectorInv, ConnectorsOK
<1>2. /\ connfd \union handed = open /\ connfd \intersect handed = {}
      /\ \A b \in connectors : b \in connfd <=> Data(b).write.on = "on"
      /\ \A b \in connectors : Data(b).timers = <<>>
    BY DEF ConnectorInv, ConnectorsOK, SocketsOwned
<1>3. now \in 0..Horizon /\ Good(c, Data(c)) /\ Data(c).write \in EventType(c)
    BY <1>1, DataIsListed DEF ReactorInv, Basics, Good, DataRecords
<1> DEFINE Owned == /\ connfd' \subseteq connectors
                    /\ connfd' \union handed' = open' /\ connfd' \intersect handed' = {}
<1>4. ASSUME NEW d, Touches(c, d), d.timers = <<>>, Owned,
             UNCHANGED <<select, now, quiet, expiring, aborted>>,
             c \in connfd' <=> d.write.on = "on",
             \A b \in connectors \ {c} : b \in connfd' <=> b \in connfd
      PROVE  ConnectorInv'
    <2>1. /\ ReactorInv'
          /\ \A b \in connectors : Data(b)'.timers = <<>>
          /\ \A b \in connectors \ {c} : Data(b)' = Data(b)
          /\ Data(c)'.write.on = "on" <=> d.write.on = "on"
        BY <1>4, ConnectorTouched
    <2>2. \A b \in connectors : b \in connfd' <=> Data(b)'.write.on = "on"
        BY <1>2, <1>4, <2>1
    <2>3. SocketsOwned'
        BY <1>4, <2>2 DEF SocketsOwned
    <2> QED BY <1>1, <1>4, <2>1, <2>3 DEF ConnectorInv, ConnectorsOK
<1>5. CASE Open(c)
    <2>1. timeout[c] \in Nat /\ now + timeout[c] <= Horizon
        BY <1>1, <1>5, ReactorsAssumption DEF Open
    <2>2. PICK e : e = Registered(Data(c).write, c, FALSE, timeout[c])
        OBVIOUS
    <2>3. e \in EventType(c) /\ e.on = "on" /\ e.fd = c
        <3>1. PICK w, persist, delay :
                 w = Data(c).write /\ persist = FALSE /\ delay = timeout[c]
            OBVIOUS
        <3>2. w \in EventType(c) /\ delay \in Nat /\ now + delay <= Horizon
            BY <1>3, <2>1, <3>1
        <3>3. persist \in BOOLEAN
            BY <3>1, Zenon
        <3>4. e = Registered(w, c, persist, delay)
            BY <2>2, <3>1
        <3> QED BY <1>1, <1>3, <3>2, <3>3, <3>4, RegisteredIsOn
    <2>4. Keeps(c, [Data(c) EXCEPT !.write = e])
        BY <1>5, <2>2 DEF Open
    <2>5. PICK d : Touches(c, d) /\ d.timers = <<>> /\ d.write = e
        BY <2>3, <2>4, WriteReplaced
    <2>6. c \notin open /\ connfd' = connfd \union {c} /\ open' = open \union {c}
          /\ UNCHANGED <<select, now, quiet, expiring, aborted, handed>>
        BY <1>5 DEF Open
    <2> QED BY <1>1, <1>2, <1>4, <2>3, <2>5, <2>6
<1>6. CASE OpenFails(c)
    <2>1. PICK e : e = [NoEvent EXCEPT !.on = "set", !.fd = c]
        OBVIOUS
    <2>2. e \in EventType(c) /\ e.on = "set"
        BY <2>1, NeverIsATime DEF NoEvent, EventType
    <2>3. Keeps(c, [Data(c) EXCEPT !.write = e])
        BY <1>6, <2>1 DEF OpenFails
    <2>4. PICK d : Touches(c, d) /\ d.timers = <<>> /\ d.write = e
        BY <2>2, <2>3, WriteReplaced
    <2>5. c \notin open /\ UNCHANGED <<select, now, quiet, expiring, aborted, connfd, open, handed>>
        BY <1>6 DEF OpenFails, sockets
    <2> QED BY <1>1, <1>2, <1>4, <2>2, <2>4, <2>5
<1>7. CASE Close(c)
    <2>1. /\ UNCHANGED <<select, now, quiet, expiring, aborted, handed>>
          /\ connfd' = connfd \ {c} /\ open' = open \ ({c} \intersect connfd)
        BY <1>7 DEF Close, HandleClose
    <2>2. Owned /\ c \notin connfd'
        BY <1>1, <1>2, <2>1
    <2>3. CASE Attached(c)
        <3>1. PICK d : Touches(c, d) /\ d.timers = <<>> /\ d.write.on = "off"
            BY <1>7, <2>3, WriteRemoved DEF Close
        <3> QED BY <1>4, <2>1, <2>2, <3>1
    <2>4. CASE ~Attached(c)
        <3>1. UNCHANGED <<data, handlers>>
            BY <1>7, <2>4 DEF Close
        <3>2. c \notin connfd
            BY <1>1, <1>2, <2>4, DataIsListed DEF NoData, NoEvent
        <3>3. UNCHANGED sockets
            BY <1>2, <2>1, <3>2 DEF sockets
        <3>4. ReactorInv'
            BY <1>1, <2>1, <3>1, TimePasses DEF vars
        <3> QED BY <3>1, <3>3, <3>4
                DEF ConnectorInv, ConnectorsOK, SocketsOwned, sockets, Data, Attached
    <2> QED BY <2>3, <2>4
<1>8. CASE HandleOutput(c)
    <2>1. /\ UNCHANGED <<select, now, quiet, expiring, aborted>>
          /\ HandsOver(c) \/ HandleClose({c})
          /\ Attached(c) /\ Data(c)["write"].on = "on"
          /\ Settles(c, AfterRemove(Data(c), {"write"}))
        BY <1>8 DEF HandleOutput, Called
    <2>2. c \in connfd
        BY <1>2, <2>1
    <2>3. Owned /\ connfd' = connfd \ {c}
        BY <1>1, <1>2, <2>1, <2>2 DEF HandsOver, HandleClose
    <2>4. PICK d : Touches(c, d) /\ d.timers = <<>> /\ d.write.on = "off"
        BY <2>1, WriteRemoved
    <2> QED BY <1>4, <2>1, <2>3, <2>4
<1>9. CASE OwnerCloses(c)
    <2>1. UNCHANGED <<vars, connfd>> /\ handed' = handed \ {c} /\ open' = open \ {c} /\ c \in handed
        BY <1>9 DEF OwnerCloses
    <2>2. Owned
        BY <1>1, <1>2, <2>1
    <2>3. ReactorInv' /\ UNCHANGED data
        BY <1>1, <2>1, TimePasses DEF vars
    <2> QED BY <2>1, <2>2, <2>3 DEF ConnectorInv, ConnectorsOK, SocketsOwned, Data, Attached
<1> QED BY <1>5, <1>6, <1>7, <1>8, <1>9 DEF ConnectorCalls

LEMMA ConnectorNextKeepsInv == ConnectorInv /\ [ConnectorNext]_allvars => ConnectorInv'
<1> SUFFICES ASSUME ConnectorInv, [ConnectorNext]_allvars
             PROVE  ConnectorInv'
    OBVIOUS
<1>0. ReactorInv /\ connectors \subseteq Handlers
    BY DEF ConnectorInv, ConnectorsOK
<1>1. CASE UNCHANGED allvars \/ (Ended /\ UNCHANGED <<sockets, connectors, timeout>>)
    <2>1. ReactorInv' /\ UNCHANGED <<data, sockets, connectors, timeout>>
        BY <1>0, <1>1, TimePasses DEF allvars, Ended
    <2> QED BY <1>1, <2>1
            DEF ConnectorInv, ConnectorsOK, SocketsOwned, Data, Attached, allvars, sockets
<1>2. CASE Others /\ HandleClose(Detached) /\ UNCHANGED <<connectors, timeout>>
    <2>1. ASSUME NEW h \in Handlers \ connectors, Calls(h)
          PROVE  ConnectorInv'
        <3>1. PICK d : Touches(h, d)
            BY <1>0, <2>1, CallTouches
        <3>2. UNCHANGED <<select, now, quiet, expiring, aborted>>
            BY <1>0, <2>1, CallTouches
        <3>3. \A g \in Handlers \ {h} : Data(g)' = Data(g) /\ data'[g] = data[g]
            BY <1>0, <3>1, <3>2, HandlerBecomes DEF Touches
        <3>4. ReactorInv'
            BY <1>0, <2>1, CallKeepsInv
        <3> QED BY <1>0, <1>2, <3>3, <3>4, OthersLeaveConnectors
    <2>2. CASE Tick \/ Quieten
        <3>1. ReactorInv' /\ UNCHANGED data
            BY <1>0, <2>2, TimePasses
        <3>2. \A c \in connectors : Data(c)' = Data(c)
            BY <3>1 DEF Data, Attached
        <3> QED BY <1>2, <3>1, <3>2, OthersLeaveConnectors
    <2>3. CASE Timeout
        <3>1. ReactorInv' /\ UNCHANGED select
            BY <1>0, <2>3, TimeoutDoes
               DEF Timeout, SelectTimesOut, SelectTimerReturns, LibEventTimesOut,
                   LibEventTimer, LibEventTimerReturns
        <3>2. CASE UNCHANGED <<data, handlers>>
            <4>1. \A c \in connectors : Data(c)' = Data(c)
                BY <3>2 DEF Data, Attached
            <4> QED BY <1>2, <3>1, <3>2, <4>1, OthersLeaveConnectors
        <3>3. ASSUME NEW h \in Handlers, NEW d, TimesOut(h, d)
              PROVE  ConnectorInv'
            <4>1. CASE h \in connectors
                BY <1>2, <3>1, <3>3, <4>1, ConnectorTimesOut
            <4>2. CASE h \notin connectors
                <5>1. \A g \in Handlers \ {h} : Data(g)' = Data(g) /\ data'[g] = data[g]
                    BY <1>0, <3>1, <3>3, HandlerBecomes DEF TimesOut, Touches
                <5> QED BY <1>0, <1>2, <3>1, <4>2, <5>1, OthersLeaveConnectors
            <4> QED BY <4>1, <4>2
        <3>4. ASSUME NEW x \in expiring, NEW d, RunsOut(x, d)
              PROVE  ConnectorInv'
            <4>1. PICK h : h = x.handler
                OBVIOUS
            <4>2. h \in Handlers /\ Touches(h, d) /\ Listed(Data(h)) # {}
                BY <3>4, <4>1 DEF RunsOut
            <4>3. h \notin connectors
                BY <4>2 DEF ConnectorInv, ConnectorsOK, Listed
            <4>4. \A g \in Handlers \ {h} : Data(g)' = Data(g) /\ data'[g] = data[g]
                BY <1>0, <3>1, <4>2, HandlerBecomes DEF Touches
            <4> QED BY <1>0, <1>2, <3>1, <4>3, <4>4, OthersLeaveConnectors
        <3> QED BY <1>0, <2>3, <3>2, <3>3, <3>4, TimeoutDoes
    <2> QED BY <1>2, <2>1, <2>2, <2>3 DEF Others
<1>3. ASSUME UNCHANGED <<connectors, timeout>>, NEW c \in connectors, ConnectorCalls(c)
      PROVE  ConnectorInv'
    BY <1>3, ConnectorCallKeepsInv
<1> QED BY <1>1, <1>2, <1>3 DEF ConnectorNext

-----------------------------------------------------------------------------
(* How a timer ends *)

TimersEndProperly ==
    \A h \in Handlers : \A t \in Listed(Data(h)) \ Listed(Data(h)') :
       \/ /\ SelectTimerReturns \/ LibEventTimerReturns
          /\ \E x \in expiring : x.handler = h /\ x.timer = t
       \/ CancelTimer(h, t)
       \/ CancelTimers(h)

LEMMA StepEndsTimers ==
    ASSUME ReactorInv, Steps
    PROVE  TimersEndProperly
<1>1. ASSUME UNCHANGED data
      PROVE  TimersEndProperly
    BY <1>1 DEF TimersEndProperly, Data, Attached
<1>2. ASSUME NEW h \in Handlers, NEW d, Touches(h, d), UNCHANGED select,
             \A t \in Listed(Data(h)) \ Listed(d) :
                \/ /\ SelectTimerReturns \/ LibEventTimerReturns
                   /\ \E x \in expiring : x.handler = h /\ x.timer = t
                \/ CancelTimer(h, t)
                \/ CancelTimers(h)
      PROVE  TimersEndProperly
    <2>1. /\ Listed(Data(h)') = Listed(d)
          /\ \A g \in Handlers \ {h} : Data(g)' = Data(g)
        BY <1>2, HandlerBecomes DEF Touches
    <2>2. ASSUME NEW g \in Handlers, NEW t \in Listed(Data(g)) \ Listed(Data(g)')
          PROVE  g = h
        BY <2>1, <2>2
    <2> QED BY <1>2, <2>1, <2>2 DEF TimersEndProperly
<1>3. CASE \E h \in Handlers : Calls(h)
    BY <1>2, <1>3, CallTouches
<1>4. CASE Timeout
    <2>1. UNCHANGED select
        BY <1>4 DEF Timeout, SelectTimesOut, SelectTimerReturns, LibEventTimesOut,
                    LibEventTimer, LibEventTimerReturns
    <2>2. ASSUME NEW h \in Handlers, NEW d, TimesOut(h, d)
          PROVE  TimersEndProperly
        <3>1. Listed(d) = Listed(Data(h)) /\ Touches(h, d)
            BY <2>2 DEF TimesOut, Listed
        <3> QED BY <1>2, <2>1, <3>1
    <2>3. ASSUME NEW x \in expiring, NEW d, RunsOut(x, d),
                 SelectTimerReturns \/ LibEventTimerReturns
          PROVE  TimersEndProperly
        <3>1. PICK h : h = x.handler
            OBVIOUS
        <3>2. h \in Handlers /\ Touches(h, d) /\ Listed(d) = Listed(Data(h)) \ {x.timer}
            BY <2>3, <3>1 DEF RunsOut
        <3>3. \A t \in Listed(Data(h)) \ Listed(d) : x.handler = h /\ x.timer = t
            BY <3>1, <3>2
        <3>4. \A t \in Listed(Data(h)) \ Listed(d) :
                 /\ SelectTimerReturns \/ LibEventTimerReturns
                 /\ \E y \in expiring : y.handler = h /\ y.timer = t
            BY <2>3, <3>3
        <3> HIDE DEF TimersEndProperly
        <3> QED BY <1>2, <2>1, <3>2, <3>4
    <2> QED BY <1>1, <1>4, <2>2, <2>3, TimeoutDoes
<1>5. CASE Quieten \/ Tick
    BY <1>1, <1>5 DEF Quieten, Tick
<1> QED BY <1>3, <1>4, <1>5 DEF Steps

LEMMA ConnectorStepEndsTimers ==
    ASSUME ConnectorInv, ConnectorNext
    PROVE  [TimersEndProperly]_vars
<1>0. ReactorInv /\ connectors \subseteq Handlers
    BY DEF ConnectorInv, ConnectorsOK
<1>1. CASE Others
    <2>1. ASSUME NEW h \in Handlers \ connectors, Calls(h)
          PROVE  Steps
        BY <2>1 DEF Steps
    <2>2. Steps
        BY <1>1, <2>1 DEF Others, Steps
    <2> QED BY <1>0, <2>2, StepEndsTimers
<1>2. ASSUME NEW c \in connectors, ConnectorCalls(c)
      PROVE  [TimersEndProperly]_vars
    <2>1. SUFFICES ASSUME ~UNCHANGED vars
                   PROVE  TimersEndProperly
        OBVIOUS
    <2>2. Listed(Data(c)) = {} /\ c \in Handlers
        BY <1>0 DEF ConnectorInv, ConnectorsOK, Listed
    <2>3. \A g \in Handlers \ {c} : data'[g] = data[g]
        <3>1. \/ UNCHANGED data
              \/ \E d : Keeps(c, d) \/ Settles(c, d)
            BY <1>2, <2>1 DEF ConnectorCalls, Open, OpenFails, Close, HandleOutput, OwnerCloses
        <3>2. ASSUME NEW d, Keeps(c, d) \/ Settles(c, d)
              PROVE  \E S : data' = [data EXCEPT ![c] = S]
            BY <3>2 DEF Keeps, Settles
        <3> QED BY <1>0, <3>1, <3>2 DEF ReactorInv, DataOK
    <2>4. ASSUME NEW g \in Handlers, NEW t \in Listed(Data(g)) \ Listed(Data(g)')
          PROVE  FALSE
        <3>1. g # c
            BY <2>2, <2>4
        <3>2. data'[g] = data[g]
            BY <2>3, <3>1
        <3>3. Data(g)' = Data(g)
            BY <3>2 DEF Data, Attached
        <3> QED BY <2>4, <3>3
    <2> QED BY <2>4 DEF TimersEndProperly
<1> QED BY <1>1, <1>2 DEF ConnectorNext, Ended

-----------------------------------------------------------------------------
(* The theorems, of the reactors with any handlers and with Connectors *)

LEMMA ReactorInvHolds == Spec \/ ConnectorSpec => []ReactorInv
<1>1. Spec => []ReactorInv
    BY InitHasInv, NextKeepsInv, PTL DEF Spec
<1>2. ConnectorSpec => []ConnectorInv
    BY ConnectorInitHasInv, ConnectorNextKeepsInv, PTL DEF ConnectorSpec
<1>3. ConnectorInv => ReactorInv
    BY DEF ConnectorInv
<1> QED BY <1>1, <1>2, <1>3, PTL

LEMMA InvGivesTypes == ReactorInv => TypeOK
<1> SUFFICES ASSUME ReactorInv
             PROVE  TypeOK
    OBVIOUS
<1>1. ASSUME NEW h \in Handlers, NEW d \in data[h]
      PROVE  /\ {d.read, d.write} \subseteq EventType(h)
             /\ \A kind \in Kinds : d[kind].on = "on" => d[kind].fd = h
             /\ Distinct(d.timers)
    <2>1. d = Data(h) /\ Good(h, Data(h))
        BY <1>1 DEF ReactorInv, DataOK
    <2> QED BY <2>1 DEF Good, DataRecords
<1>2. expiring \subseteq [handler : Handlers, timer : Timers]
    BY DEF ReactorInv, ExpiringOK
<1> QED BY <1>1, <1>2 DEF TypeOK, ReactorInv, Basics, TimersApart, Distinct

\* Everything in its range: a pending event has its handler's descriptor, and an
\* address is one timer of one handler, whatever calls come (RegisterHandler and
\* ScheduleTimer of both reactors).
THEOREM ReactorsTypeCorrect == Spec \/ ConnectorSpec => []TypeOK
<1> QED BY ReactorInvHolds, InvGivesTypes, PTL

\* SelectReactor's set and its handlers' own pointers agree, so that RunOnce
\* never meets a handler without reactor data (selectreactor.cpp:254).
THEOREM SetAndDataAgree == Spec \/ ConnectorSpec => []HandlersHaveData
<1>1. ReactorInv => HandlersHaveData
    BY DEF ReactorInv
<1> QED BY <1>1, ReactorInvHolds, PTL

\* The timeval that RunOnce computes (selectreactor.cpp:327-344) is one that
\* select accepts and lasts until the deadline the scan found and no longer,
\* whatever deadlines there are, carried or not, and whatever the time.
THEOREM SelectWaitsUntilDeadline == Spec \/ ConnectorSpec => []WaitsUntilDeadline
<1>1. ReactorInv => WaitsUntilDeadline
    <2> SUFFICES ASSUME ReactorInv, NEW least \in Least
                 PROVE  /\ Wait(least.until) \in Nat \X (0..PerSec - 1)
                        /\ Moment(Wait(least.until))
                              = IF Passed(least.until) THEN 0 ELSE Moment(least.until) - now
        BY DEF WaitsUntilDeadline
    <2>1. least \in Waits
        BY LeastIsAWait DEF ReactorInv, DataOK
    <2>2. PICK until : until = least.until
        OBVIOUS
    <2>3. until \in Times /\ now \in 0..Horizon
        BY <2>1, <2>2 DEF Waits, ReactorInv, Basics
    <2> QED BY <2>2, <2>3, WaitIsExact
<1> QED BY <1>1, ReactorInvHolds, PTL

\* Under LibEventReactor a handler with nothing left has been given up.
THEOREM IdleHandlersAreDetached == Spec \/ ConnectorSpec => []DetachedWhenIdle
<1>1. ReactorInv => DetachedWhenIdle
    BY DEF ReactorInv
<1> QED BY <1>1, ReactorInvHolds, PTL

\* A timer leaves its handler's list when its HandleTimeout returns or when it is
\* cancelled and in no other way: not with its handler's events (RemoveHandler of
\* both reactors), nor with another timer or handler.
THEOREM TimersEndInTwoWays == Spec \/ ConnectorSpec => TimersKept
<1>1. ReactorInv /\ [Next]_vars => [TimersEndProperly]_vars
    BY StepEndsTimers DEF Next, Ended
<1>2. ConnectorInv /\ [ConnectorNext]_allvars => [TimersEndProperly]_vars
    BY ConnectorStepEndsTimers DEF allvars
<1>3. Spec => [][TimersEndProperly]_vars
    BY <1>1, InitHasInv, NextKeepsInv, PTL DEF Spec
<1>4. ConnectorSpec => [][TimersEndProperly]_vars
    BY <1>2, ConnectorInitHasInv, ConnectorNextKeepsInv, PTL DEF ConnectorSpec
<1> QED BY <1>3, <1>4, PTL DEF TimersKept, TimersEndProperly

\* A connector's descriptor has one owner: none leaks on an error path and none
\* is closed after it was handed over (connector.cpp:48, 89-96, 107, 139-155).
THEOREM SocketsHaveOneOwner == ConnectorSpec => []SocketsOwned
<1>1. ConnectorInv => SocketsOwned
    BY DEF ConnectorInv, ConnectorsOK
<1> QED BY <1>1, ConnectorInitHasInv, ConnectorNextKeepsInv, PTL DEF ConnectorSpec
=============================================================================
