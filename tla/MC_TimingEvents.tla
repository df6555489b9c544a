-------------------------- MODULE MC_TimingEvents ---------------------------
(* A small instance of TimingEvents.                                       *)
EXTENDS TimingEvents

CONSTANTS spu, cd, pad

MCEvents == {spu, cd, pad}
MCFirstInterval == [e \in MCEvents |-> IF e = spu THEN 2 ELSE 1]
\* The SPU's samples and the pad's serial transfer, with the calls their owners
\* make of them, and an event (cd) that stands for the others: the drive's, the
\* transfers' of DMA and GPU, a memory card's, which is made anew with its card.
\* Between them they use every call.
MCUses == [e \in MCEvents |->
  CASE e = spu -> {"InvokeEarly", "SetInterval"}
    [] e = cd -> {"SetIntervalAndSchedule", "Schedule", "Delay", "Activate", "Recreate"}
    [] e = pad -> {"SetPeriodAndSchedule", "Deactivate", "InvokeEarly"}]

\* Fewer calls, for callbacks that change any event.
MCFewUses == [e \in MCEvents |->
  CASE e = spu -> {"InvokeEarly"}
    [] e = cd -> {"SetIntervalAndSchedule", "Activate", "Deactivate"}
    [] e = pad -> {"Schedule"}]

\* Only one event is scheduled: by instructions, and by the SPU's callback.
MCOneUse == [e \in MCEvents |-> IF e = pad THEN {"Schedule"} ELSE {}]
=============================================================================
