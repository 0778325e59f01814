------------------------------ MODULE Reactors ------------------------------
(***************************************************************************)
(* The two reactors, nets/selectreactor.cpp and nets/libeventreactor.cpp,  *)
(* and what they promise of timeouts and timers.  A handler is attached    *)
(* while it has reactor data.  Handlers call the reactor at any time, also *)
(* while it is in one of their HandleTimeout callbacks; only a callback    *)
(* for a timer has anything left to do when it returns, and is two steps.  *)
(* SelectReactor asserts then that the timer is still listed.  The build   *)
(* keeps its assertions: a handler that has cancelled it ends the process. *)
(*                                                                         *)
(* A unit of time is a microsecond; nanoseconds below it are left out.  A  *)
(* timespec is <<sec, nsec>>, and adding to one does not carry.            *)
(***************************************************************************)
EXTENDS Integers, Sequences, FiniteSetsExt, SequencesExt

CONSTANTS NumHandlers,
          Listeners,        \* the handlers that wait for input for ever
          Timers,           \* addresses a timer may be allocated at
          NoTimer,          \* NULL: a timeout of an event, not of a timer
          PerSec,           \* units of time in a second
          Delays,           \* timeouts that are asked for
          Horizon           \* bound: the last moment there is

ASSUME ReactorsAssumption ==
    /\ NumHandlers \in Nat /\ Listeners \subseteq 1..NumHandlers
    /\ NoTimer \notin Timers
    /\ PerSec \in Nat \ {0} /\ Horizon \in Nat \ {0}
    /\ Delays \subseteq Nat \ {0}

VARIABLES
    select,                 \* TRUE: a SelectReactor, FALSE: a LibEventReactor
    now,                    \* CLOCK_MONOTONIC
    quiet,                  \* TRUE: no descriptor gets ready any more
    data,                   \* the handlers' reactor data, {} or one record
    handlers,               \* SelectReactor::handlers
    expiring,               \* {} or the timer whose HandleTimeout runs
    aborted                 \* TRUE: the process has ended

vars == <<select, now, quiet, data, handlers, expiring, aborted>>

Handlers == 1..NumHandlers     \* a number is an address and a descriptor

Never == <<0, 0>>
Deadline(delay) ==
    <<(now \div PerSec) + (delay \div PerSec), (now % PerSec) + (delay % PerSec)>>
Moment(time) == time[1] * PerSec + time[2]
Passed(time) == Moment(time) <= now

\* A libevent event that fired, if it is not persistent, stays "set": its
\* ev_events is kept until it is removed.  fd is that of the last registration.
NoEvent == [on |-> "off", persist |-> FALSE, until |-> Never, fd |-> 0]
NoData == [read |-> NoEvent, write |-> NoEvent, timers |-> <<>>]

Kinds == {"read", "write"}

\* Mutant: HasEvent does not look at the timers.
HasEventOnly(d) == d.read.on # "off" \/ d.write.on # "off"

HasEvent(d) == d.read.on # "off" \/ d.write.on # "off" \/ d.timers # <<>>
Attached(h) == data[h] # {}
Data(h) == IF Attached(h) THEN CHOOSE d \in data[h] : TRUE ELSE NoData
Listed(d) == {d.timers[i].id : i \in DOMAIN d.timers}
Without(timers, t) ==           \* list::erase where the timer is found
    LET found == {i \in DOMAIN timers : timers[i].id = t}
    IN IF found = {} THEN timers ELSE RemoveAt(timers, CHOOSE i \in found : TRUE)

Init ==
    /\ select \in BOOLEAN
    /\ now = 1
    /\ quiet = FALSE
    /\ data = [h \in Handlers |-> {}]
    /\ handlers = {}
    /\ expiring = {}
    /\ aborted = FALSE

-----------------------------------------------------------------------------
(* What the program calls. *)

\* Afterwards h is attached with d, whatever is left in d.
Keeps(h, d) ==
    /\ data' = [data EXCEPT ![h] = {d}]
    /\ handlers' = IF select THEN handlers \union {h} ELSE handlers

\* Mutant: UninitEventHander leaves the handler in the set.
SettlesInSet(h, d) ==
    /\ data' = [data EXCEPT ![h] = IF HasEvent(d) THEN {d} ELSE {}]
    /\ UNCHANGED handlers

\* UninitEventHander, once nothing is left; the handler gets HandleClose.
Settles(h, d) ==
    IF HasEvent(d)
    THEN /\ data' = [data EXCEPT ![h] = {d}]
         /\ UNCHANGED handlers
    ELSE /\ data' = [data EXCEPT ![h] = {}]
         /\ handlers' = handlers \ {h}

\* Mutant: a second registration keeps the first one's descriptor.
RegisteredOnce(event, h, persist, delay) ==
    [on |-> "on", persist |-> persist, fd |-> event.fd,
     until |-> IF delay # 0 THEN Deadline(delay)
               ELSE IF select THEN event.until ELSE Never]

\* SelectReactor keeps the old timeout where none is given.
Registered(event, h, persist, delay) ==
    [on |-> "on", persist |-> persist, fd |-> h,
     until |-> IF delay # 0 THEN Deadline(delay)
               ELSE IF select THEN event.until ELSE Never]

\* Acceptor, UdpListener and SocketPairHandler listen with no timeout, and
\* ConnectEventHandler and Connector give one each time.
Registrations(h) ==
    IF h \in Listeners
    THEN [kind : {"read"}, persist : {TRUE}, delay : {0}]
    ELSE [kind : Kinds, persist : {FALSE}, delay : Delays]

RegisterHandler(h) ==
    /\ \E r \in Registrations(h) :
          /\ now + r.delay <= Horizon
          /\ Keeps(h, [Data(h) EXCEPT ![r.kind] =
                          Registered(@, h, r.persist, r.delay)])
    /\ UNCHANGED <<select, now, quiet, expiring, aborted>>

Removed(event) == IF select THEN [event EXCEPT !.on = "off"] ELSE NoEvent

AfterRemove(d, mask) ==
    [d EXCEPT !.read = IF "read" \in mask THEN Removed(@) ELSE @,
              !.write = IF "write" \in mask THEN Removed(@) ELSE @]

\* Without reactor data HandleClose is all that happens.
RemoveHandler(h) ==
    /\ Attached(h)
    /\ \E mask \in SUBSET Kinds \ {{}} : Settles(h, AfterRemove(Data(h), mask))
    /\ UNCHANGED <<select, now, quiet, expiring, aborted>>

\* new returns an address that no timer of any handler has.
ScheduleTimer(h, t) ==
    /\ \A g \in Handlers : t \notin Listed(Data(g))
    /\ \E delay \in Delays :
          /\ now + delay <= Horizon
          /\ Keeps(h, [Data(h) EXCEPT !.timers =
                          Append(@, [id |-> t, until |-> Deadline(delay)])])
    /\ UNCHANGED <<select, now, quiet, expiring, aborted>>

CancelTimer(h, t) ==
    /\ t \in Listed(Data(h))
    /\ Settles(h, [Data(h) EXCEPT !.timers = Without(@, t)])
    /\ UNCHANGED <<select, now, quiet, expiring, aborted>>

CancelTimers(h) ==
    /\ Attached(h)
    /\ Settles(h, [Data(h) EXCEPT !.timers = <<>>])
    /\ UNCHANGED <<select, now, quiet, expiring, aborted>>

-----------------------------------------------------------------------------
(* SelectReactor::RunOnce: what it waits for, and until when. *)

Earlier(a, b) == a[1] < b[1] \/ (a[1] = b[1] /\ a[2] < b[2])

\* Line 304 compares the seconds of a timer with the nanoseconds of the least.
TimerEarlier(a, b) == a[1] < b[1] \/ (a[1] = b[2] /\ a[2] < b[2])

Timeouts(h) ==              \* in the order in which they are looked at
    LET d == Data(h)
        Of(kind) == IF d[kind].on = "on" /\ d[kind].until # Never
                    THEN <<[handler |-> h, timer |-> NoTimer, until |-> d[kind].until]>>
                    ELSE <<>>
    IN Of("read") \o Of("write") \o
       [i \in DOMAIN d.timers |->
           [handler |-> h, timer |-> d.timers[i].id, until |-> d.timers[i].until]]

Sooner(c, m) == IF c.timer = NoTimer THEN Earlier(c.until, m.until)
                                     ELSE TimerEarlier(c.until, m.until)
Pick(least, c) == IF \A m \in least : Sooner(c, m) THEN {c} ELSE least

\* The scan for the least deadline: {} or what min, currentTimer and timer are
\* after a handler's timeouts, or after handlers 1..h.
Picks(least, timeouts) ==
    LET after[i \in 0..Len(timeouts)] ==
            IF i = 0 THEN least ELSE Pick(after[i - 1], timeouts[i])
    IN after[Len(timeouts)]

Scan[h \in 0..NumHandlers] ==
    IF h = 0 THEN {} ELSE Picks(Scan[h - 1], IF h \in handlers THEN Timeouts(h) ELSE <<>>)

Least == Scan[NumHandlers]

Since(time) == <<time[1] - (now \div PerSec), time[2] - (now % PerSec)>>
Borrowed(time) == IF time[2] < 0 THEN <<time[1] - 1, time[2] + PerSec>> ELSE time
Carried(time) == IF time[2] >= PerSec THEN <<time[1] + 1, time[2] - PerSec>> ELSE time
Clamped(time) == IF time[1] < 0 \/ time[2] < 0 THEN <<0, 0>> ELSE time

\* Mutant: a deadline with fewer nanoseconds than the clock is not borrowed for.
WaitUnborrowed(time) == Clamped(Carried(Since(time)))

\* The timeval given to select: the fields are subtracted and put in range.  A
\* loop goes round once at most, as a deadline has less than two seconds of nsec.
Wait(time) == Clamped(Carried(Borrowed(Since(time))))

\* maxfd takes the descriptor of the read event for the write event as well.
MaxFd == Max({0} \union
    {Data(h).read.fd :
        h \in {g \in handlers : "on" \in {Data(g).read.on, Data(g).write.on}}})

\* HandleTimeout(NULL): Connector and ConnectEventHandler close.
EventTimesOut(h) == Settles(h, AfterRemove(Data(h), Kinds))

\* HandleTimeout(timer) begins.
Begins(h, t) == expiring' = {[handler |-> h, timer |-> t]}

\* select finds nothing ready for as long as it waits.
SelectTimesOut ==
    /\ select /\ expiring = {}
    /\ \E least \in Least :
          /\ now' = now + Moment(Wait(least.until))
          /\ IF least.timer = NoTimer
             THEN EventTimesOut(least.handler) /\ UNCHANGED expiring
             ELSE Begins(least.handler, least.timer) /\ UNCHANGED <<data, handlers>>
    /\ UNCHANGED <<select, quiet, aborted>>

\* Mutant: the timer is deleted by its owner only.
SelectTimerStays ==
    /\ select
    /\ expiring # {}
    /\ expiring' = {}
    /\ UNCHANGED <<select, now, quiet, data, handlers, aborted>>

\* Afterwards the timer is taken out and deleted (372-383), and the handler stays
\* attached, with nothing left or not.  If its handler has cancelled it, there is
\* no reactor data to look at or the assertion (376) fails; if another timer has
\* got its address since, that one is deleted.
SelectTimerReturns ==
    /\ select
    /\ \E x \in expiring :
          LET d == Data(x.handler)
          IN \/ /\ x.timer \in Listed(d)
                /\ Keeps(x.handler, [d EXCEPT !.timers = Without(@, x.timer)])
                /\ UNCHANGED aborted
             \/ /\ x.timer \notin Listed(d)
                /\ aborted' = TRUE
                /\ UNCHANGED <<data, handlers>>
    /\ expiring' = {}
    /\ UNCHANGED <<select, now, quiet>>

-----------------------------------------------------------------------------
(* libevent calls back what is due, and LibEventReactor's callbacks. *)

LibEventTimesOut ==
    /\ ~select /\ expiring = {}
    /\ \E h \in Handlers, kind \in Kinds :
          /\ Attached(h)
          /\ Data(h)[kind].on = "on" /\ Data(h)[kind].until # Never
          /\ Passed(Data(h)[kind].until)
          /\ EventTimesOut(h)
    /\ UNCHANGED <<select, now, quiet, expiring, aborted>>

LibEventTimer ==
    /\ ~select /\ expiring = {}
    /\ \E h \in Handlers : \E i \in DOMAIN Data(h).timers :
          LET e == Data(h).timers[i]
          IN Passed(e.until) /\ Begins(h, e.id)
    /\ UNCHANGED <<select, now, quiet, data, handlers, aborted>>

\* Mutant: the timer is taken out without CancelTimer.
LibEventTimerDropped ==
    /\ ~select
    /\ \E x \in expiring :
          data' = [data EXCEPT ![x.handler] =
                      {[d EXCEPT !.timers = Without(@, x.timer)] : d \in @}]
    /\ expiring' = {}
    /\ UNCHANGED <<select, now, quiet, handlers, aborted>>

\* __EventCb4Timer cancels the timer by its address, so if its handler has done
\* it, the one that has got its address since, if any.  Else CancelTimer gives -1
\* or, without reactor data, calls HandleClose once more (240-243), which changes
\* nothing of the reactor's; handlers with a state of their own have no timers.
LibEventTimerReturns ==
    /\ ~select
    /\ \E x \in expiring :
          LET d == Data(x.handler)
          IN IF x.timer \in Listed(d)
             THEN Settles(x.handler, [d EXCEPT !.timers = Without(@, x.timer)])
             ELSE UNCHANGED <<data, handlers>>
    /\ expiring' = {}
    /\ UNCHANGED <<select, now, quiet, aborted>>

-----------------------------------------------------------------------------
(* Descriptors, time and the end of input. *)

\* A libevent event forgets its timeout when it fires; select's is kept.
Fired(event) ==
    IF event.persist THEN event
    ELSE IF select THEN [event EXCEPT !.on = "off"]
    ELSE [event EXCEPT !.on = "set", !.until = Never]

\* The descriptor is ready and its handler is called back for it.
Called(h, kind) ==
    /\ ~quiet /\ expiring = {}
    /\ Attached(h)
    /\ Data(h)[kind].on = "on"
    /\ select => Data(h)[kind].fd <= MaxFd

\* HandleInput or HandleOutput is called; what it calls are steps of their own.
Ready(h, kind) ==
    /\ Called(h, kind)
    /\ data' = [data EXCEPT ![h] = {[Data(h) EXCEPT ![kind] = Fired(@)]}]
    /\ UNCHANGED <<select, now, quiet, handlers, expiring, aborted>>

Quieten == ~quiet /\ quiet' = TRUE /\ UNCHANGED <<select, now, data, handlers, expiring, aborted>>

Tick ==
    /\ now < Horizon
    /\ now' = now + 1
    /\ UNCHANGED <<select, quiet, data, handlers, expiring, aborted>>

\* What is called for a handler, and by it.
Calls(h) ==
    \/ RegisterHandler(h)
    \/ RemoveHandler(h)
    \/ \E t \in Timers : ScheduleTimer(h, t) \/ CancelTimer(h, t)
    \/ CancelTimers(h)
    \/ \E kind \in Kinds : Ready(h, kind)

Timeout ==
    \/ SelectTimesOut
    \/ SelectTimerReturns
    \/ LibEventTimesOut
    \/ LibEventTimer
    \/ LibEventTimerReturns

Steps == (\E h \in Handlers : Calls(h)) \/ Timeout \/ Quieten \/ Tick

\* There is no step after the end of the process.
Ended == aborted /\ UNCHANGED vars

Next == (~aborted /\ Steps) \/ Ended

Spec == Init /\ [][Next]_vars

\* A callback returns and time passes.  select gives a timeout only while no
\* descriptor is ready, which is fair to ask once none gets ready any more.
Fairness ==
    /\ WF_vars(~aborted /\ Quieten) /\ WF_vars(~aborted /\ Tick)
    /\ WF_vars(~aborted /\ quiet /\ SelectTimesOut) /\ WF_vars(SelectTimerReturns)
    /\ WF_vars(LibEventTimesOut)
    /\ WF_vars(LibEventTimer) /\ WF_vars(LibEventTimerReturns)

FairSpec == Spec /\ Fairness

-----------------------------------------------------------------------------
Times == {time \in (0..Horizon) \X (0..2 * PerSec - 1) : Moment(time) <= Horizon}
EventType(h) ==
    [on : {"off", "set", "on"}, persist : BOOLEAN, until : Times, fd : {0, h}]

\* Everything in its range: a pending event has its handler's descriptor, and
\* an address is one timer of one handler (RegisterHandler, ScheduleTimer).
TypeOK ==
    /\ select \in BOOLEAN /\ quiet \in BOOLEAN
    /\ now \in 0..Horizon
    /\ handlers \subseteq Handlers
    /\ \A h \in Handlers : \A d \in data[h] :
          /\ {d.read, d.write} \subseteq EventType(h)
          /\ \A kind \in Kinds : d[kind].on = "on" => d[kind].fd = h
          /\ \A i, j \in DOMAIN d.timers :
                d.timers[i].id = d.timers[j].id => i = j
    /\ \A g, h \in Handlers : g # h => Listed(Data(g)) \cap Listed(Data(h)) = {}
    /\ expiring \subseteq [handler : Handlers, timer : Timers]
    /\ aborted \in BOOLEAN

\* SelectReactor's set and the handlers' own pointers agree, so RunOnce never
\* meets a handler without reactor data (its assertion at 254), and forgets none.
HandlersHaveData == select => handlers = {h \in Handlers : Attached(h)}

\* The timeval that select gets is a valid one (select gives EINVAL for another,
\* and Run ends: 353-362) and lasts exactly until the deadline that the scan
\* found, an event's or a timer's, carried or not, or not at all once it has passed.
WaitsUntilDeadline ==
    select => \A least \in Least :
        LET wait == Wait(least.until)
        IN /\ wait \in Nat \X (0..PerSec - 1)
           /\ Moment(wait) = IF Passed(least.until) THEN 0 ELSE Moment(least.until) - now

\* Under LibEventReactor a handler with no event and no timer left has been
\* given up with a HandleClose, however its last one ended.
DetachedWhenIdle ==
    ~select => \A h \in Handlers : Attached(h) => HasEvent(Data(h))

\* A timer leaves its handler's list when its HandleTimeout returns or when it is
\* cancelled: never with its handler's events, nor for another timer's or
\* handler's sake.  So one that runs stays listed (SelectReactor asserts it, 376)
\* as long as its own handler does not cancel it.
TimersKept ==
    [][\A h \in Handlers : \A t \in Listed(Data(h)) \ Listed(Data(h)') :
          \/ /\ SelectTimerReturns \/ LibEventTimerReturns
             /\ \E x \in expiring : x.handler = h /\ x.timer = t
          \/ CancelTimer(h, t)
          \/ CancelTimers(h)]_vars

\* Once descriptors are quiet, every timer runs out or is cancelled, although
\* SelectReactor serves one deadline at a time, and not always the least, unless
\* the process has ended.  (While some descriptor is always ready, SelectReactor
\* serves no timer at all: the WF on Quieten leaves that out.)
TimersEnd ==
    \A t \in Timers : (\E h \in Handlers : t \in Listed(Data(h)))
                         ~> \/ aborted
                            \/ \A h \in Handlers : t \notin Listed(Data(h))
=============================================================================
