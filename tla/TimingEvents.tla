---------------------------- MODULE TimingEvents ----------------------------
(***************************************************************************)
(* The event queue that drives every device: core/timing_event.cpp, and    *)
(* the CPU loop that spends the ticks (core/cpu_core.cpp, ExecuteImpl).    *)
(*                                                                         *)
(* The CPU executes until its pending ticks reach its downcount, which is  *)
(* taken from the head of the list of active events.  RunEvents then takes *)
(* the pending ticks off every active event and calls back those that are  *)
(* due.  Instructions and callbacks alike schedule, delay, activate,       *)
(* deactivate and invoke events, so the list changes under RunEvents and   *)
(* callbacks nest.                                                         *)
(*                                                                         *)
(* s_current_event is derived (Current).  s_global_tick_counter is left    *)
(* out; owed, the ticks an event has not been told of, is what an observer *)
(* of the elapsed ticks would count, and no step depends on its value      *)
(* except the bounds.                                                      *)
(***************************************************************************)
EXTENDS Integers, Sequences, FiniteSetsExt, SequencesExt

CONSTANTS
  Events,
  Permanent,         \* an event that is never deactivated (the SPU's samples)
  FirstInterval,     \* the interval and period an event is created with
  Uses,              \* the calls made on each event
  Durations,         \* tick counts events are scheduled and delayed by
  Bursts,            \* ticks the CPU executes before it looks at its downcount
  OthersInCallbacks, \* a callback may change events other than its own
  MaxOwed,           \* bound: an event owed more, or less than that below
                     \* zero, is not put off any further
  MaxDowncount,      \* bound: an event this far off is not delayed or activated
  MaxLate,           \* bound: an event later than this is not activated, and callbacks
                     \* only change their own while there is one
  MaxPending,        \* bound: with more pending ticks, the CPU calls nothing and is
                     \* charged nothing
  MaxDepth           \* bound on callbacks within callbacks

ASSUME EventsAssumption ==
  /\ Permanent \in Events
  /\ FirstInterval \in [Events -> Nat \ {0}]
  /\ DOMAIN Uses = Events
  /\ Durations \subseteq Nat \ {0} /\ Bursts \subseteq Nat \ {0}
  /\ OthersInCallbacks \in BOOLEAN
  /\ {MaxOwed, MaxDowncount, MaxLate, MaxPending, MaxDepth} \subseteq Nat

VARIABLES
  active,        \* the events whose m_active is set
  queue,         \* the active events in the order of their list
  downcount, since, interval, period,  \* m_downcount, m_time_since_last_run, ...
  pending,       \* CPU::g_state.pending_ticks
  cpuDowncount,  \* CPU::g_state.downcount
  held,          \* an interrupt is pending or the frame is done: downcount stays
  phase,         \* the statement the CPU loop or RunEvents is at
  remaining,     \* RunEvents' own pending_ticks
  stack,         \* the callbacks in progress, with the ticks they were given
  owed           \* ticks of CPU time each event has not been told of

events == <<active, queue, downcount, since, interval, period>>
cpu == <<pending, cpuDowncount, held>>
control == <<phase, remaining, stack>>
vars == <<events, cpu, control, owed>>

InCallback == stack # <<>>
Running == Last(stack).event

\* s_current_event: the event RunEvents calls back, whatever is invoked within.
Current == IF phase = "events" /\ InCallback THEN {stack[1].event} ELSE {}

-----------------------------------------------------------------------------
(* The list, with the downcounts dc its order goes by.                     *)

\* Mutant of FirstNotBefore: the walk from the front takes one step.
OneStep(q, dc, d) == IF q # <<>> /\ dc[Head(q)] < d THEN 2 ELSE 1

\* Where the walk from the front finds the first event due no earlier than d.
FirstNotBefore(q, dc, d) == Min({i \in DOMAIN q : dc[q[i]] >= d} \union {Len(q) + 1})

AddActiveEvent(q, e, dc) == InsertAt(q, FirstNotBefore(q, dc, dc[e]), e)

Position(q, e) == CHOOSE i \in DOMAIN q : q[i] = e

RemoveActiveEvent(q, e) == RemoveAt(q, Position(q, e))

\* Where the walk back through the events before e stops: after the last one due
\* no later than e.
LastNotAfter(q, dc, d) == Max({i \in DOMAIN q : dc[q[i]] <= d} \union {0})

\* Mutant of SortEvent: linked where it belongs without being unlinked first.
SortEventTwice(q, e, dc) == AddActiveEvent(q, e, dc)

\* Mutant of SortEvent: the event stays where it is.
SortNothing(q, e, dc) == q

SortEvent(q, e, dc) ==
  IF e \notin ToSet(q) THEN q
  ELSE LET before == SubSeq(q, 1, Position(q, e) - 1)
           after == SubSeq(q, Position(q, e) + 1, Len(q))
       IN IF before # <<>> /\ dc[Last(before)] > dc[e]
          THEN InsertAt(before, LastNotAfter(before, dc, dc[e]) + 1, e) \o after
          ELSE before \o AddActiveEvent(after, e, dc)

UpdateCPUDowncount(q, dc) == IF held THEN cpuDowncount ELSE dc[Head(q)]

\* The list becomes q because e was put into it or moved within it; the CPU hears
\* of it only when that made e the head.
Relink(q, e, dc) ==
  /\ queue' = q
  /\ cpuDowncount' = IF Head(q) = e /\ (queue = <<>> \/ Head(queue) # e)
                     THEN UpdateCPUDowncount(q, dc) ELSE cpuDowncount

Unlink(e, dc) ==
  /\ queue' = RemoveActiveEvent(queue, e)
  /\ cpuDowncount' = IF Head(queue) = e THEN UpdateCPUDowncount(queue', dc) ELSE cpuDowncount

-----------------------------------------------------------------------------
(* What an instruction's access to a device, or a callback, does to events. *)

TooLate(e) == downcount[e] < -MaxLate
NoneTooLate == \A e \in active : ~TooLate(e)

\* An instruction has cost something before or after its access.
MayCall(call, e) ==
  /\ call \in Uses[e]
  /\ \/ phase = "execute" /\ ~InCallback /\ pending \in 1 .. MaxPending
     \/ InCallback /\ e = Running
     \/ InCallback /\ OthersInCallbacks /\ NoneTooLate /\ remaining <= MaxPending

CanPutOff(e) == owed[e] \in -MaxOwed .. MaxOwed

\* Schedule, once SetInterval and SetPeriod have stored i and p.
ScheduleWith(e, t, i, p) ==
  LET dc == [downcount EXCEPT ![e] = pending + t]
  IN /\ downcount' = dc
     /\ interval' = [interval EXCEPT ![e] = i]
     /\ period' = [period EXCEPT ![e] = p]
     /\ \/ /\ e \in active /\ CanPutOff(e)
           /\ IF e \in Current THEN UNCHANGED <<queue, cpuDowncount>>
                               ELSE Relink(SortEvent(queue, e, dc), e, dc)
           /\ UNCHANGED <<active, since, owed>>
        \/ /\ e \notin active
           /\ active' = active \union {e}
           /\ since' = [since EXCEPT ![e] = -pending]
           /\ owed' = [owed EXCEPT ![e] = remaining]
           /\ Relink(AddActiveEvent(queue, e, dc), e, dc)
     /\ UNCHANGED <<pending, held, control>>

Schedule(e, t) ==
  MayCall("Schedule", e) /\ ScheduleWith(e, t, interval[e], period[e])
SetIntervalAndSchedule(e, t) ==
  MayCall("SetIntervalAndSchedule", e) /\ ScheduleWith(e, t, t, period[e])
SetPeriodAndSchedule(e, t) ==
  MayCall("SetPeriodAndSchedule", e) /\ ScheduleWith(e, t, t, t)

SetInterval(e, t) ==
  /\ MayCall("SetInterval", e)
  /\ interval' = [interval EXCEPT ![e] = t]
  /\ UNCHANGED <<active, queue, downcount, since, period, cpu, control, owed>>

Delay(e, t) ==
  LET dc == [downcount EXCEPT ![e] = @ + t]
  IN /\ MayCall("Delay", e) /\ e \in active /\ CanPutOff(e)
     /\ downcount[e] <= MaxDowncount
     /\ downcount' = dc
     /\ Relink(SortEvent(queue, e, dc), e, dc)
     /\ UNCHANGED <<active, since, interval, period, pending, held, control, owed>>

TicksSinceLastExecution(e) == pending + since[e]

InvokeEarly(e, force) ==
  LET ticks == TicksSinceLastExecution(e)
  IN /\ MayCall("InvokeEarly", e) /\ e \in active /\ Len(stack) < MaxDepth
     /\ force \/ ticks >= period[e]
     /\ ticks > 0
     /\ downcount' = [downcount EXCEPT ![e] = pending + interval[e]]
     /\ since' = [since EXCEPT ![e] = @ - ticks]
     /\ owed' = [owed EXCEPT ![e] = @ - ticks]
     /\ stack' = Append(stack, [event |-> e, ticks |-> ticks])
     /\ UNCHANGED <<active, queue, interval, period, cpu, phase, remaining>>

ActivateWith(e, d, s) ==
  LET dc == [downcount EXCEPT ![e] = d]
  IN /\ MayCall("Activate", e) /\ e \notin active /\ CanPutOff(e) /\ ~TooLate(e)
     /\ downcount[e] <= MaxDowncount
     /\ downcount' = dc
     /\ since' = [since EXCEPT ![e] = s]
     /\ owed' = [owed EXCEPT ![e] = @ + remaining]
     /\ active' = active \union {e}
     /\ Relink(AddActiveEvent(queue, e, dc), e, dc)
     /\ UNCHANGED <<interval, period, pending, held, control>>

\* Mutant of Activate: ticks that passed before the activation are told as well.
ActivateKeepsTicks(e) == ActivateWith(e, downcount[e] + pending, since[e])

\* Mutant of Activate: the pending ticks are taken off a downcount from now.
ActivateKeepsDowncount(e) == ActivateWith(e, downcount[e], since[e] - pending)

\* The downcount is left intact: what was left of it counts from now on.
Activate(e) == ActivateWith(e, downcount[e] + pending, since[e] - pending)

Deactivate(e) ==
  LET dc == [downcount EXCEPT ![e] = @ - pending]
  IN /\ MayCall("Deactivate", e) /\ e \in active /\ e # Permanent
     /\ downcount' = dc
     /\ since' = [since EXCEPT ![e] = @ + pending]
     /\ owed' = [owed EXCEPT ![e] = @ - remaining]
     /\ active' = active \ {e}
     /\ Unlink(e, dc)
     /\ UNCHANGED <<interval, period, pending, held, control>>

\* Between frames a device is replaced (a memory card): its event is destroyed,
\* and created again.
Recreate(e) ==
  /\ phase = "loop" /\ "Recreate" \in Uses[e] /\ e # Permanent
  /\ downcount' = [downcount EXCEPT ![e] = FirstInterval[e]]
  /\ since' = [since EXCEPT ![e] = 0]
  /\ interval' = [interval EXCEPT ![e] = FirstInterval[e]]
  /\ period' = [period EXCEPT ![e] = FirstInterval[e]]
  /\ owed' = [owed EXCEPT ![e] = 0]
  /\ active' = active \ {e}
  /\ IF e \in active THEN Unlink(e, downcount) ELSE UNCHANGED <<queue, cpuDowncount>>
  /\ UNCHANGED <<pending, held, control>>

Spend(t) ==
  /\ pending' = pending + t
  /\ owed' = [e \in Events |-> owed[e] + IF e \in active THEN t ELSE 0]

MayExecute == phase = "execute" /\ ~InCallback /\ pending < cpuDowncount

\* DMA and MDEC charge the CPU for their transfers.
AddPendingTicks(t) ==
  /\ InCallback \/ (phase = "execute" /\ pending > 0)
  /\ pending + t <= MaxPending
  /\ Spend(t)
  /\ UNCHANGED <<events, cpuDowncount, held, control>>

\* SetExternalInterrupt and ForceDispatcherExit zero the downcount.
Interrupt ==
  /\ ~held
  /\ \/ InCallback /\ UNCHANGED <<pending, owed>>
     \/ MayExecute /\ \E t \in Bursts : Spend(t)
  /\ held' = TRUE
  /\ cpuDowncount' = 0
  /\ UNCHANGED <<events, control>>

\* An instruction acknowledges or masks the interrupt before it is dispatched.
InterruptGone ==
  /\ held /\ phase = "execute" /\ pending > 0
  /\ held' = FALSE
  /\ UNCHANGED <<events, pending, cpuDowncount, control, owed>>

-----------------------------------------------------------------------------
(* The CPU loop and RunEvents.                                             *)

\* A pending interrupt is dispatched, and the next frame clears frame_done.
Dispatch ==
  /\ phase = "loop"
  /\ held' = FALSE
  /\ cpuDowncount' = downcount[Head(queue)]
  /\ phase' = "execute"
  /\ UNCHANGED <<events, pending, remaining, stack, owed>>

Execute(t) ==
  /\ MayExecute
  /\ Spend(t)
  /\ UNCHANGED <<events, cpuDowncount, held, control>>

\* The recompiler's dispatcher leaves RunEvents out when the head is not due.
SkipEvents ==
  /\ phase = "execute" /\ ~InCallback /\ pending >= cpuDowncount
  /\ downcount[Head(queue)] > pending
  /\ phase' = "loop"
  /\ UNCHANGED <<events, cpu, remaining, stack, owed>>

RunEvents ==
  /\ phase = "execute" /\ ~InCallback /\ pending >= cpuDowncount
  /\ remaining' = pending
  /\ pending' = 0
  /\ phase' = "advance"
  /\ UNCHANGED <<events, cpuDowncount, held, stack, owed>>

Advance ==
  LET time == Min({remaining, downcount[Head(queue)]})
  IN /\ phase = "advance" /\ remaining > 0
     /\ remaining' = remaining - time
     /\ downcount' = [e \in Events |-> downcount[e] - IF e \in ToSet(queue) THEN time ELSE 0]
     /\ since' = [e \in Events |-> since[e] + IF e \in ToSet(queue) THEN time ELSE 0]
     /\ phase' = "events"
     /\ UNCHANGED <<active, queue, interval, period, cpu, stack, owed>>

\* Late time is factored into the time for the next invocation.
DowncountAfterRun(e) == downcount[e] + interval[e]

RunHead ==
  LET e == Head(queue)
  IN /\ phase = "events" /\ ~InCallback /\ downcount[e] <= 0
     /\ downcount' = [downcount EXCEPT ![e] = DowncountAfterRun(e)]
     /\ since' = [since EXCEPT ![e] = 0]
     /\ owed' = [owed EXCEPT ![e] = @ - since[e]]
     /\ stack' = <<[event |-> e, ticks |-> since[e]]>>
     /\ UNCHANGED <<active, queue, interval, period, cpu, phase, remaining>>

\* A callback returns, to RunEvents or to InvokeEarly: either sorts its event.
CallbackReturns ==
  /\ InCallback
  /\ Relink(SortEvent(queue, Running, downcount), Running, downcount)
  /\ stack' = Front(stack)
  /\ UNCHANGED <<active, downcount, since, interval, period, pending, held, phase, remaining, owed>>

HeadNotDue ==
  /\ phase = "events" /\ ~InCallback /\ downcount[Head(queue)] > 0
  /\ phase' = "advance"
  /\ UNCHANGED <<events, cpu, remaining, stack, owed>>

RunEventsReturns ==
  /\ phase = "advance" /\ remaining <= 0
  /\ cpuDowncount' = UpdateCPUDowncount(queue, downcount)
  /\ phase' = "loop"
  /\ UNCHANGED <<events, pending, held, remaining, stack, owed>>

-----------------------------------------------------------------------------
Init ==
  /\ active = {Permanent} /\ queue = <<Permanent>>
  /\ downcount = FirstInterval /\ interval = FirstInterval /\ period = FirstInterval
  /\ since = [e \in Events |-> 0] /\ owed = [e \in Events |-> 0]
  /\ pending = 0 /\ cpuDowncount = 0 /\ held = FALSE
  /\ phase = "loop" /\ remaining = 0 /\ stack = <<>>

\* The calls that change when or whether e runs.
Touch(e) ==
  \/ \E t \in Durations : Schedule(e, t) \/ SetIntervalAndSchedule(e, t)
                          \/ SetPeriodAndSchedule(e, t) \/ SetInterval(e, t) \/ Delay(e, t)
  \/ Activate(e) \/ Deactivate(e) \/ Recreate(e)

Loop == Dispatch \/ (\E t \in Bursts : Execute(t)) \/ SkipEvents \/ RunEvents
        \/ Advance \/ RunHead \/ HeadNotDue \/ RunEventsReturns

Next ==
  \/ \E e \in Events : Touch(e)
  \/ \E e \in Events, force \in BOOLEAN : InvokeEarly(e, force)
  \/ \E t \in Durations : AddPendingTicks(t)
  \/ Interrupt \/ InterruptGone
  \/ Loop \/ CallbackReturns

Spec == Init /\ [][Next]_vars

\* The emulation goes on, and every callback returns.
FairSpec == Spec /\ WF_vars(Loop) /\ WF_vars(CallbackReturns)

-----------------------------------------------------------------------------
(* Properties.                                                             *)

\* q lists the events of A, each of them once.
IsList(q, A) ==
  /\ q \in Seq(Events) /\ ToSet(q) = A
  /\ \A i, j \in DOMAIN q : q[i] = q[j] => i = j

\* Types, and the list holds exactly the events whose m_active is set, once each
\* (AddActiveEvent, RemoveActiveEvent, SortEvent).
TypeOK ==
  /\ active \subseteq Events /\ Permanent \in active
  /\ IsList(queue, active)
  /\ downcount \in [Events -> Int] /\ since \in [Events -> Int] /\ owed \in [Events -> Int]
  /\ interval \in [Events -> Nat \ {0}] /\ period \in [Events -> Nat \ {0}]
  /\ pending \in Nat /\ remaining \in Nat /\ cpuDowncount \in Int /\ held \in BOOLEAN
  /\ phase \in {"loop", "execute", "advance", "events"}
  /\ stack \in Seq([event : Events, ticks : Int])

\* However an event is scheduled, invoked early, deactivated and activated again,
\* from instructions or from nested callbacks, the ticks its callback was told of
\* and the ticks it is still to be told of are exactly the ticks it was active for.
TicksConserved ==
  \A e \in Events : since[e] = owed[e] - IF e \in active THEN pending + remaining ELSE 0

\* No callback is told of a negative number of ticks (Timers::AddSysClkTicks and
\* SPU::Execute convert it to unsigned).
TicksNotNegative == \A i \in DOMAIN stack : stack[i].ticks >= 0

\* When no callback is running the list is in the order of the downcounts: "move it
\* to the end, since that'll likely be its new position" (RunEvents), and a callback's
\* event is sorted when it returns.
EventsSorted ==
  ~InCallback =>
    \A i, j \in DOMAIN queue : i < j => downcount[queue[i]] <= downcount[queue[j]]

\* RunEvents returns, whatever its callbacks schedule, activate or invoke.
RunEventsEnds == phase = "advance" ~> phase = "loop"

\* An event that stays active and that nobody reschedules any more is called back
\* again and again.
NoStarvation ==
  \A e \in Events :
    (<>[](e \in active) /\ <>[][~Touch(e)]_vars)
      => []<>(\E i \in DOMAIN stack : stack[i].event = e)
=============================================================================
