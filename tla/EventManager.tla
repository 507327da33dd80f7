---------------------------- MODULE EventManager ----------------------------
(***************************************************************************)
(* The EventManager of lib/crack/eventmgr.crk: a schedule of callbacks     *)
(* keyed by time, and run(), the loop that waits in the poller until the   *)
(* next of them is due.  One thread runs it; what may happen in between is *)
(* that time passes and that the callbacks it runs (the handlers that      *)
(* waitAndProcess() asks for their masks, the handlers of poller events    *)
(* and the scheduled callbacks) schedule further callbacks, terminate the  *)
(* manager or empty the poller.                                            *)
(***************************************************************************)
EXTENDS Integers, Sequences, FiniteSets

CONSTANTS MaxTime,     \* bound: the last instant of the clock
          MaxEvents,   \* bound: calls of scheduleEvent()
          Width,       \* 2^64, the modulus of the uint64 arithmetic
          LateStart,   \* TRUE if run() may be called when an event is past due
          MaskSchedules \* TRUE if handlers schedule when asked for their mask

ASSUME EventManagerAssumption ==
  /\ MaxTime \in Nat \ {0}
  /\ MaxEvents \in Nat
  /\ Width \in Nat /\ Width > 3 * MaxTime
  /\ LateStart \in BOOLEAN
  /\ MaskSchedules \in BOOLEAN

VARIABLES clock,      \* the time of day
          schedule,   \* __schedule: schedule[t], the callbacks of key t; the
                      \* key is absent if there are none
          done,       \* __done
          filled,     \* the poller has pollables
          stage,      \* where run() is
          now,        \* its local `now'
          nextTime,   \* its local `nextTime', 0 for none
          until,      \* when the poll's timeout ends, 0 for never
          pos,        \* the iterator over the array of due callbacks
          count,      \* calls of scheduleEvent() so far; callbacks are numbered
          ran         \* history: the callbacks that were called, in order

managerVars == <<clock, schedule, done, filled, stage, now, nextTime, until, pos, count, ran>>

Time == 1..MaxTime
Event == 1..MaxEvents
PC == {"idle", "loop", "masks", "poll", "handlers", "due", "events", "returned"}

ManagerTypeOK ==
  /\ clock \in Time
  /\ schedule \in [Time -> Seq(Event)]
  /\ done \in BOOLEAN
  /\ filled \in BOOLEAN
  /\ stage \in PC
  /\ now \in 0..MaxTime
  /\ nextTime \in 0..MaxTime
  /\ until \in 0..(MaxTime + Width)
  /\ pos \in 1..(MaxEvents + 1)
  /\ count \in 0..MaxEvents
  /\ ran \in Seq(Event)

ManagerInit ==
  /\ clock = 1
  /\ schedule = [t \in Time |-> <<>>]
  /\ done = FALSE
  /\ filled = TRUE
  /\ stage = "idle"
  /\ now = 0
  /\ nextTime = 0
  /\ until = 0
  /\ pos = 1
  /\ count = 0
  /\ ran = <<>>

Keys == {t \in Time : schedule[t] # <<>>}

\* The key of __schedule.iter().elem(), 0 if the map is empty.
FirstKey(keys) ==
  IF keys = {} THEN 0 ELSE CHOOSE t \in keys : \A u \in keys : t <= u

-----------------------------------------------------------------------------
\* What user code does: before run(), in a handler or in a scheduled callback.

CalledCode == stage \in {"idle", "masks", "handlers", "events"}

\* Mutant: the time is stored where the callback belongs.
ScheduleEvent_StoresTime(t) ==
  /\ CalledCode
  /\ stage = "masks" => MaskSchedules
  /\ count < MaxEvents
  /\ count' = count + 1
  /\ schedule' = [schedule EXCEPT ![t] = Append(@, t)]
  /\ UNCHANGED <<clock, done, filled, stage, now, nextTime, until, pos, ran>>

\* scheduleEvent(): join the array of the time's key, or make one.
ScheduleEvent(t) ==
  /\ CalledCode
  /\ stage = "masks" => MaskSchedules
  /\ count < MaxEvents
  /\ count' = count + 1
  /\ schedule' = [schedule EXCEPT ![t] = Append(@, count + 1)]
  /\ UNCHANGED <<clock, done, filled, stage, now, nextTime, until, pos, ran>>

Terminate ==
  /\ CalledCode
  /\ ~done
  /\ done' = TRUE
  /\ UNCHANGED <<clock, schedule, filled, stage, now, nextTime, until, pos, count, ran>>

\* The last pollable is removed from the poller.
EmptyPoller ==
  /\ CalledCode
  /\ filled
  /\ filled' = FALSE
  /\ UNCHANGED <<clock, schedule, done, stage, now, nextTime, until, pos, count, ran>>

Tick ==
  /\ clock < MaxTime
  /\ clock' = clock + 1
  /\ UNCHANGED <<schedule, done, filled, stage, now, nextTime, until, pos, count, ran>>

-----------------------------------------------------------------------------
\* run()

Run ==
  /\ stage = "idle"
  /\ LateStart \/ \A t \in Keys : t >= clock
  /\ stage' = "loop"
  /\ now' = clock
  /\ nextTime' = FirstKey(Keys)
  /\ UNCHANGED <<clock, schedule, done, filled, until, pos, count, ran>>

Leave ==
  /\ stage = "loop"
  /\ done
  /\ stage' = "returned"
  /\ UNCHANGED <<clock, schedule, done, filled, now, nextTime, until, pos, count, ran>>

\* waitAndProcess(nextTime ? td(nextTime - now) : null): first the handlers are
\* asked for their masks ...
Loop ==
  /\ stage = "loop"
  /\ ~done
  /\ stage' = "masks"
  /\ UNCHANGED <<clock, schedule, done, filled, now, nextTime, until, pos, count, ran>>

\* Mutant: the poll has no timeout.
StartPoll_NoTimeout ==
  /\ stage = "masks"
  /\ until' = 0
  /\ stage' = "poll"
  /\ UNCHANGED <<clock, schedule, done, filled, now, nextTime, pos, count, ran>>

\* ... then ppoll() is entered with the timeout.  The difference is a uint64:
\* it wraps if nextTime is past.
StartPoll ==
  /\ stage = "masks"
  /\ until' = IF nextTime = 0 THEN 0 ELSE clock + ((nextTime - now) % Width)
  /\ stage' = "poll"
  /\ UNCHANGED <<clock, schedule, done, filled, now, nextTime, pos, count, ran>>

\* A pollable has an event, or a signal interrupts ppoll().
PollWakes ==
  /\ stage = "poll"
  /\ filled
  /\ stage' = "handlers"
  /\ UNCHANGED <<clock, schedule, done, filled, now, nextTime, until, pos, count, ran>>

\* The clock of the model stops at MaxTime: a timeout that ends after it counts
\* as over there, unless it has wrapped.
PollTimesOut ==
  /\ stage = "poll"
  /\ until # 0
  /\ \/ clock >= until
     \/ clock = MaxTime /\ until <= 2 * MaxTime
  /\ stage' = "handlers"
  /\ UNCHANGED <<clock, schedule, done, filled, now, nextTime, until, pos, count, ran>>

\* nowTime.setToNow(null), when all handlers have returned.
HandlersDone ==
  /\ stage = "handlers"
  /\ stage' = "due"
  /\ now' = clock
  /\ until' = 0
  /\ UNCHANGED <<clock, schedule, done, filled, nextTime, pos, count, ran>>

\* while (__schedule) ... if (nextTime <= now)
TakeDue ==
  /\ stage = "due"
  /\ Keys # {}
  /\ nextTime' = FirstKey(Keys)
  /\ IF nextTime' <= now THEN stage' = "events" ELSE stage' = "loop"
  /\ pos' = 1
  /\ UNCHANGED <<clock, schedule, done, filled, now, until, count, ran>>

NothingDue ==
  /\ stage = "due"
  /\ Keys = {}
  /\ stage' = "loop"
  /\ UNCHANGED <<clock, schedule, done, filled, now, nextTime, until, pos, count, ran>>

\* for (callback :in nextEvent.val) callback();  The array may grow meanwhile.
RunCallback ==
  /\ stage = "events"
  /\ pos <= Len(schedule[nextTime])
  /\ ran' = Append(ran, schedule[nextTime][pos])
  /\ pos' = pos + 1
  /\ UNCHANGED <<clock, schedule, done, filled, stage, now, nextTime, until, count>>

\* Mutant: the first key is deleted, not the one that was run.
DeleteKey_First ==
  /\ stage = "events"
  /\ pos > Len(schedule[nextTime])
  /\ schedule' = [schedule EXCEPT ![FirstKey(Keys)] = <<>>]
  /\ nextTime' = FirstKey(Keys \ {FirstKey(Keys)})
  /\ pos' = 1
  /\ stage' = "due"
  /\ UNCHANGED <<clock, done, filled, now, until, count, ran>>

\* Mutant: nextTime is not set to the next key, so that it stays at the past
\* one when nothing is left.
DeleteKey_KeepsNext ==
  /\ stage = "events"
  /\ pos > Len(schedule[nextTime])
  /\ schedule' = [schedule EXCEPT ![nextTime] = <<>>]
  /\ pos' = 1
  /\ stage' = "due"
  /\ UNCHANGED <<clock, done, filled, now, nextTime, until, count, ran>>

\* __schedule.delete(nextTime), and nextTime is the next key or null.
DeleteKey ==
  /\ stage = "events"
  /\ pos > Len(schedule[nextTime])
  /\ schedule' = [schedule EXCEPT ![nextTime] = <<>>]
  /\ nextTime' = FirstKey(Keys \ {nextTime})
  /\ pos' = 1
  /\ stage' = "due"
  /\ UNCHANGED <<clock, done, filled, now, until, count, ran>>

-----------------------------------------------------------------------------
\* The steps of run() that need no event from outside.
RunStep ==
  \/ Leave \/ Loop \/ StartPoll \/ PollTimesOut \/ HandlersDone
  \/ TakeDue \/ NothingDue \/ RunCallback \/ DeleteKey

ManagerNext ==
  \/ \E t \in Time : ScheduleEvent(t)
  \/ Terminate \/ EmptyPoller \/ Tick
  \/ Run \/ PollWakes \/ RunStep

ManagerSpec == ManagerInit /\ [][ManagerNext]_managerVars

\* The thread is scheduled and time passes; no pollable need ever have an event.
FairManagerSpec == ManagerSpec /\ WF_managerVars(RunStep) /\ WF_managerVars(Tick)

-----------------------------------------------------------------------------
(***************************************************************************)
(* Properties.                                                             *)
(***************************************************************************)

Members(s) == {s[i] : i \in DOMAIN s}

\* The callbacks of key t still to be called: if its array is the one that is
\* being run, those that the iterator has not passed.
Uncalled(t) == {i \in DOMAIN schedule[t] : stage = "events" /\ t = nextTime => i >= pos}

Pending == UNION {{schedule[t][i] : i \in Uncalled(t)} : t \in Time}

\* Every callback ever scheduled is either still to be called or has been called,
\* exactly once: none is lost or run twice by the deletion of its key while
\* callbacks keep adding to the map.
EachOnce ==
  /\ Pending \cup Members(ran) = 1..count
  /\ Pending \cap Members(ran) = {}
  /\ \A i, j \in DOMAIN ran : ran[i] = ran[j] => i = j

\* run() computes the timeout from a nextTime that is not past and that is the
\* first key: the unsigned difference does not wrap and no event is overslept.
TimeoutIsNext ==
  stage = "loop" => nextTime = FirstKey(Keys) /\ (nextTime # 0 => nextTime >= now)

\* Every scheduled callback is called unless the manager is terminated
\* ("Schedule an event to be executed at the given time.  If the time is in the
\* past, it will be executed on the next iteration").
EveryEventRuns ==
  \A e \in Event :
    (stage # "idle" /\ e \in Pending) ~> (done \/ e \in Members(ran))
==============================================================================
