-------------------------- MODULE CDROMAsyncReader --------------------------
(***************************************************************************)
(* The asynchronous CD-ROM sector reader: core/cdrom_async_reader.cpp.     *)
(*                                                                         *)
(* Two threads share a ring of sector buffers.  The emulation thread asks  *)
(* for a sector (QueueReadSector), later waits for it                      *)
(* (WaitForReadToComplete) and then reads the front buffer in place.  The  *)
(* read thread seeks, fills the front buffer and reads ahead.  Most of the *)
(* emulation thread's accesses are made without the mutex, so every atomic *)
(* access that the other thread can observe is a step of its own.  Code    *)
(* that runs with m_mutex held is one step when the other thread only      *)
(* reads or writes the touched state with the mutex held.                  *)
(*                                                                         *)
(* A condition variable is modelled by a "blocked" program counter that a  *)
(* notify, or a spurious wakeup, moves on to re-acquiring the mutex.       *)
(***************************************************************************)
EXTENDS Integers

CONSTANTS
  ReadaheadCount,   \* StartThread(readahead_count)
  LastLBA,          \* the last sector of the disc; LastLBA + 1 is its end
  RequestLBAs,      \* sectors the emulation thread may ask for
  CountModulus,     \* m_buffer_count is a uint32_t: 2^32 in the program
  Interrupts,       \* operations started while a request is still pending
  Reboot            \* a thread may be started again while there is no disc

ASSUME ReadaheadAssumption == ReadaheadCount \in Nat \ {0}
ASSUME DiscAssumption == LastLBA \in Nat /\ RequestLBAs \subseteq Nat
ASSUME ModulusAssumption == CountModulus \in Nat /\ CountModulus > ReadaheadCount + 1
ASSUME ClientAssumption == Interrupts \subseteq {"queue", "media", "thread"} /\ Reboot \in BOOLEAN

VARIABLES
  media,            \* m_media holds a disc image
  pos,              \* m_media->GetPositionOnDisc()
  mutex,            \* owner of m_mutex: "free" or "worker" (the emulation
                    \* thread's critical sections are single steps)
  nextSet, nextPos, \* m_next_position_set, m_next_position
  shutdown,         \* m_shutdown_flag
  isReading, canReadahead, seekError,
  threaded,         \* IsUsingThread()
  size,             \* m_buffers.size()
  buffers,          \* m_buffers: lba, content and result of each slot
  front, back, count,
  mpc, mlba, mfront, mop,        \* emulation thread: pc and locals
  wpc, wslot, wlba, wseek,       \* read thread: pc and locals
  requested,        \* the sector last asked for (CDROM::m_requested_lba)
  pending,          \* asked for (or waited for) and not yet handed over
  delivered         \* what the last wait handed over, while it may be used

discVars   == <<media, pos>>
flagVars   == <<nextSet, nextPos, shutdown, isReading, canReadahead, seekError>>
ringVars   == <<threaded, size, buffers, front, back, count>>
mainVars   == <<mpc, mlba, mfront, mop>>
workerVars == <<wpc, wslot, wlba, wseek>>
clientVars == <<requested, pending, delivered>>
vars == <<discVars, mutex, flagVars, ringVars, mainVars, workerVars, clientVars>>

(***************************************************************************)
(* The disc image (common/cd_image.cpp).  A seek succeeds inside the disc  *)
(* and otherwise leaves the position alone.  A successful raw read         *)
(* advances the position, which can thus reach LastLBA + 1; a failed one   *)
(* does not move it, and reading at the end of the disc always fails.      *)
(***************************************************************************)
NoLBA    == -1
DiscLBAs == 0 .. LastLBA
Seek(lba, p)          == IF lba \in DiscLBAs THEN lba ELSE p
ReadRawSectorOK(p)    == IF p \in DiscLBAs THEN BOOLEAN ELSE {FALSE}
AfterRawRead(p, ok)   == IF ok THEN p + 1 ELSE p

Slots      == 0 .. ReadaheadCount - 1
Positions  == 0 .. LastLBA + 1
LBAs       == Positions \cup RequestLBAs
SlotRecord == [lba : LBAs, data : LBAs \cup {NoLBA}, ok : BOOLEAN]
EmptySlot  == [lba |-> 0, data |-> NoLBA, ok |-> FALSE]
Nothing    == [lba |-> NoLBA, data |-> NoLBA, ok |-> FALSE]
SlotBuffers == [Slots -> SlotRecord]

\* Variant: the index of the next slot does not wrap around.
NextSlotNoWrap(i) == i + 1

NextSlot(i)   == IF i + 1 = size THEN 0 ELSE i + 1      \* (i + 1) % size
CountUp(c)    == IF c + 1 = CountModulus THEN 0 ELSE c + 1
CountDown(c)  == IF c = 0 THEN CountModulus - 1 ELSE c - 1

\* The state after the first CDROM::Initialize, with or without a readahead.
Init ==
  /\ media = FALSE /\ pos = 0
  /\ mutex = "free"
  /\ nextSet = FALSE /\ nextPos = 0
  /\ isReading = FALSE /\ canReadahead = FALSE /\ seekError = FALSE
  /\ threaded \in BOOLEAN
  /\ shutdown = ~threaded
  /\ size = IF threaded THEN ReadaheadCount ELSE 0
  /\ buffers = [i \in Slots |-> EmptySlot]
  /\ front = 0 /\ back = 0 /\ count = 0
  /\ mpc = "idle" /\ mlba = 0 /\ mfront = 0 /\ mop = "none"
  /\ wpc = IF threaded THEN "wake" ELSE "exited"
  /\ wslot = 0 /\ wlba = 0 /\ wseek = FALSE
  /\ requested = NoLBA /\ pending = FALSE /\ delivered = Nothing

-----------------------------------------------------------------------------
(* Condition variables.                                                    *)

\* m_do_read_cv.notify_one(): the read thread is the only waiter.
NotifyDoRead == wpc' = IF wpc = "blocked" THEN "wake" ELSE wpc

\* Variant: the notification is forgotten.
NotifyNobody == UNCHANGED mpc

\* m_notify_read_complete_cv.notify_all(): the emulation thread is the only
\* waiter.
NotifyReadComplete ==
  mpc' = CASE mpc = "wait_blocked"     -> "wait_lock"
           [] mpc = "uncached_blocked" -> "uncached_lock"
           [] mpc = "cancel_blocked"   -> "cancel_lock"
           [] OTHER                    -> mpc

\* A condition variable may also wake up without a notification.
SpuriousWakeup ==
  \/ /\ wpc = "blocked"
     /\ NotifyDoRead
     /\ UNCHANGED <<discVars, mutex, flagVars, ringVars, mainVars, wslot, wlba, wseek, clientVars>>
  \/ /\ mpc \in {"wait_blocked", "uncached_blocked", "cancel_blocked"}
     /\ NotifyReadComplete
     /\ UNCHANGED <<discVars, mutex, flagVars, ringVars, mlba, mfront, mop, workerVars, clientVars>>

\* Variant: m_buffer_count is not reset.
EmptyBuffersKeepCount == front' = 0 /\ back' = 0 /\ UNCHANGED count

EmptyBuffers == front' = 0 /\ back' = 0 /\ count' = 0

\* A step of one thread that changes nothing but its program counter.
MainGoto(pc) ==
  /\ mpc' = pc
  /\ UNCHANGED <<discVars, mutex, flagVars, ringVars, mlba, mfront, mop, workerVars, clientVars>>

WorkerGoto(pc) ==
  /\ wpc' = pc
  /\ UNCHANGED <<discVars, flagVars, ringVars, mainVars, wslot, wlba, wseek, clientVars>>

\* The client discipline: an operation is started while a request is
\* pending only if the configuration allows it.
MayStart(op) == mpc = "idle" /\ (pending => op \in Interrupts)

-----------------------------------------------------------------------------
(* QueueReadSector.                                                        *)

\* Without a read thread the sector is read on the spot.
QueueNonThreaded(lba) ==
  /\ MayStart("queue") /\ media /\ ~threaded
  /\ LET seekOK == pos = lba \/ lba \in DiscLBAs
         p      == Seek(lba, pos)
     IN /\ seekError' = ~seekOK
        /\ size' = 1 /\ front' = 0 /\ back' = 0
        /\ count' = IF seekOK THEN 1 ELSE 0
        /\ IF seekOK
             THEN \E ok \in ReadRawSectorOK(p) :
                    /\ buffers' = [buffers EXCEPT ![0] =
                         [lba |-> p, data |-> IF ok THEN p ELSE NoLBA, ok |-> ok]]
                    /\ pos' = AfterRawRead(p, ok)
             ELSE UNCHANGED <<buffers, pos>>
  /\ requested' = lba /\ pending' = TRUE /\ delivered' = Nothing
  /\ UNCHANGED <<media, mutex, nextSet, nextPos, shutdown, isReading, canReadahead,
                 threaded, mainVars, workerVars>>

\* m_buffer_count.load() decides whether the buffers are looked at at all.
QueueReadSector(lba) ==
  /\ MayStart("queue") /\ media /\ threaded
  /\ mlba' = lba
  /\ mpc' = IF count > 0 THEN "queue_front" ELSE "queue_lock"
  /\ requested' = lba /\ pending' = TRUE /\ delivered' = Nothing
  /\ UNCHANGED <<discVars, mutex, flagVars, ringVars, mfront, mop, workerVars>>

\* Don't re-read the same sector if it was the last one read.
QueueCompareFront ==
  /\ mpc = "queue_front"
  /\ mfront' = front
  /\ mpc' = IF buffers[front].lba = mlba THEN "idle" ELSE "queue_next"
  /\ UNCHANGED <<discVars, mutex, flagVars, ringVars, mlba, mop, workerVars, clientVars>>

\* Did the read thread read ahead to the requested sector?
QueueCompareNext ==
  /\ mpc = "queue_next"
  /\ MainGoto(IF count > 1 /\ buffers[NextSlot(mfront)].lba = mlba
              THEN "queue_advance" ELSE "queue_lock")

QueueAdvance ==
  /\ mpc = "queue_advance"
  /\ front' = NextSlot(mfront)
  /\ mpc' = "queue_sub"
  /\ UNCHANGED <<discVars, mutex, flagVars, threaded, size, buffers, back, count,
                 mlba, mfront, mop, workerVars, clientVars>>

QueueSub ==
  /\ mpc = "queue_sub"
  /\ count' = CountDown(count)
  /\ mpc' = "queue_kick"
  /\ UNCHANGED <<discVars, mutex, flagVars, threaded, size, buffers, front, back,
                 mlba, mfront, mop, workerVars, clientVars>>

\* m_can_readahead and the notification, both without the mutex.
QueueKick ==
  /\ mpc = "queue_kick"
  /\ canReadahead' = TRUE
  /\ NotifyDoRead
  /\ mpc' = "idle"
  /\ UNCHANGED <<discVars, mutex, nextSet, nextPos, shutdown, isReading, seekError,
                 ringVars, mlba, mfront, mop, wslot, wlba, wseek, clientVars>>

\* Toss away the readahead: ask the read thread for a new position.
QueueNewPosition ==
  /\ mpc = "queue_lock" /\ mutex = "free"
  /\ nextSet' = TRUE /\ nextPos' = mlba
  /\ NotifyDoRead
  /\ mpc' = "idle"
  /\ UNCHANGED <<discVars, mutex, shutdown, isReading, canReadahead, seekError,
                 ringVars, mlba, mfront, mop, wslot, wlba, wseek, clientVars>>

-----------------------------------------------------------------------------
(* WaitForReadToComplete.                                                  *)

\* Variant: the lock-free path does not look at m_next_position_set.
PositionNotChecked == FALSE

PositionRequested == nextSet

\* The lock-free path loads m_next_position_set first ...
WaitForReadToComplete ==
  /\ mpc = "idle" /\ (pending \/ delivered # Nothing)
  /\ mpc' = IF PositionRequested THEN "wait_lock" ELSE "wait_count"
  /\ delivered' = Nothing /\ pending' = TRUE
  /\ UNCHANGED <<discVars, mutex, flagVars, ringVars, mlba, mfront, mop, workerVars, requested>>

\* ... then m_buffer_count ...
WaitLoadCount ==
  /\ mpc = "wait_count"
  /\ MainGoto(IF count > 0 THEN "wait_front" ELSE "wait_lock")

\* ... and hands over the front buffer.
WaitFastReturn ==
  /\ mpc = "wait_front"
  /\ delivered' = buffers[front] /\ pending' = FALSE
  /\ mpc' = "idle"
  /\ UNCHANGED <<discVars, mutex, flagVars, ringVars, mlba, mfront, mop, workerVars, requested>>

\* The predicate of the condition variable, evaluated with the mutex held.
ReadCompleted == (count > 0 \/ seekError) /\ ~nextSet

WaitBlock ==
  /\ mpc = "wait_lock" /\ mutex = "free" /\ ~ReadCompleted
  /\ MainGoto("wait_blocked")

WaitReturn ==
  /\ mpc = "wait_lock" /\ mutex = "free" /\ ReadCompleted
  /\ seekError' = FALSE
  /\ delivered' = IF seekError THEN Nothing ELSE buffers[front]
  /\ pending' = FALSE
  /\ mpc' = "idle"
  /\ UNCHANGED <<discVars, mutex, nextSet, nextPos, shutdown, isReading, canReadahead,
                 ringVars, mlba, mfront, mop, workerVars, requested>>

-----------------------------------------------------------------------------
(* ReadSectorUncached: a read behind the readahead's back, which puts the  *)
(* position back afterwards.                                               *)

\* Variant: nobody waits for the read thread.
AssumedIdle == TRUE

\* What ReadSectorUncached and CancelReadahead wait for.
ReadThreadIdle == ~isReading

UncachedNonThreaded(lba) ==
  /\ mpc = "idle" /\ media /\ ~threaded
  /\ IF pos = lba \/ lba \in DiscLBAs
       THEN \E ok \in ReadRawSectorOK(Seek(lba, pos)) : pos' = AfterRawRead(Seek(lba, pos), ok)
       ELSE UNCHANGED pos
  /\ UNCHANGED <<media, mutex, flagVars, ringVars, mainVars, workerVars, clientVars>>

ReadSectorUncached(lba) ==
  /\ mpc = "idle" /\ media /\ threaded
  /\ mlba' = lba
  /\ mpc' = "uncached_lock"
  /\ UNCHANGED <<discVars, mutex, flagVars, ringVars, mfront, mop, workerVars, clientVars>>

UncachedBlock ==
  /\ mpc = "uncached_lock" /\ mutex = "free" /\ ~ReadThreadIdle
  /\ MainGoto("uncached_blocked")

\* Read and seek back with the mutex held; if the old position cannot be
\* sought (it was the end of the disc), stop the readahead.
UncachedRead ==
  /\ mpc = "uncached_lock" /\ mutex = "free" /\ ReadThreadIdle
  /\ \E p \in (IF pos = mlba \/ mlba \in DiscLBAs
                 THEN {AfterRawRead(Seek(mlba, pos), ok) : ok \in ReadRawSectorOK(Seek(mlba, pos))}
                 ELSE {pos}) :
       pos' = Seek(pos, p)
  /\ canReadahead' = (canReadahead /\ pos \in DiscLBAs)
  /\ mpc' = "idle"
  /\ UNCHANGED <<media, mutex, nextSet, nextPos, shutdown, isReading, seekError,
                 ringVars, mlba, mfront, mop, workerVars, clientVars>>

-----------------------------------------------------------------------------
(* SetMedia and RemoveMedia.  CDROM forgets its request on either.         *)

ForgetRequest == requested' = NoLBA /\ pending' = FALSE /\ delivered' = Nothing

ChangeMedia(op) ==
  /\ MayStart("media")
  /\ op \in {"insert", "remove"} /\ (op = "remove" => media)
  /\ mop' = op
  /\ mpc' = IF threaded THEN "cancel_lock" ELSE "move_media"
  /\ ForgetRequest
  /\ UNCHANGED <<discVars, mutex, flagVars, ringVars, mlba, mfront, workerVars>>

CancelBlock ==
  /\ mpc = "cancel_lock" /\ mutex = "free" /\ ~ReadThreadIdle
  /\ MainGoto("cancel_blocked")

\* Wait until the read thread is idle, then prevent it from doing any more.
CancelReadahead ==
  /\ mpc = "cancel_lock" /\ mutex = "free" /\ ReadThreadIdle
  /\ canReadahead' = FALSE
  /\ EmptyBuffers
  /\ mpc' = "move_media"
  /\ UNCHANGED <<discVars, mutex, nextSet, nextPos, shutdown, isReading, seekError,
                 threaded, size, buffers, mlba, mfront, mop, workerVars, clientVars>>

\* m_media is moved from or to without the mutex.
MoveMedia ==
  /\ mpc = "move_media"
  /\ media' = (mop = "insert") /\ pos' = 0
  /\ mpc' = "idle" /\ mop' = "none"
  /\ UNCHANGED <<mutex, flagVars, ringVars, mlba, mfront, workerVars, clientVars>>

-----------------------------------------------------------------------------
(* StartThread and StopThread.                                             *)

\* StartThread's own part: fresh buffers and a new read thread.
LaunchThread ==
  /\ size' = ReadaheadCount
  /\ buffers' = [i \in Slots |-> EmptySlot]
  /\ EmptyBuffers
  /\ shutdown' = FALSE
  /\ threaded' = TRUE
  /\ wpc' = "wake"

StartThread ==
  /\ MayStart("thread") /\ ~threaded
  /\ media \/ Reboot
  /\ LaunchThread
  /\ ForgetRequest
  /\ UNCHANGED <<discVars, mutex, nextSet, nextPos, isReading, canReadahead, seekError,
                 mainVars, wslot, wlba, wseek>>

\* StopThread, or StartThread while a thread is running ("restart").
StopThread(op) ==
  /\ MayStart("thread") /\ threaded
  /\ mop' = op
  /\ mpc' = "stop_lock"
  /\ ForgetRequest
  /\ UNCHANGED <<discVars, mutex, flagVars, ringVars, mlba, mfront, workerVars>>

StopSignal ==
  /\ mpc = "stop_lock" /\ mutex = "free"
  /\ shutdown' = TRUE
  /\ NotifyDoRead
  /\ mpc' = "stop_join"
  /\ UNCHANGED <<discVars, mutex, nextSet, nextPos, isReading, canReadahead, seekError,
                 ringVars, mlba, mfront, mop, wslot, wlba, wseek, clientVars>>

StopJoin ==
  /\ mpc = "stop_join" /\ wpc = "exited"
  /\ IF mop = "restart"
       THEN LaunchThread
       ELSE /\ threaded' = FALSE /\ size' = 0 /\ buffers' = [i \in Slots |-> EmptySlot]
            /\ EmptyBuffers
            /\ UNCHANGED <<shutdown, wpc>>
  /\ mpc' = "idle" /\ mop' = "none"
  /\ UNCHANGED <<discVars, mutex, nextSet, nextPos, isReading, canReadahead, seekError,
                 mlba, mfront, wslot, wlba, wseek, clientVars>>

-----------------------------------------------------------------------------
(* WorkerThreadEntryPoint.                                                 *)

\* Acquire the mutex: on entry, and again when the wait is woken.
WorkerLock ==
  /\ wpc = "wake" /\ mutex = "free"
  /\ mutex' = "worker"
  /\ WorkerGoto("check")

\* The wait's predicate and, when it holds, the head of the inner loop.
WorkerCheck ==
  /\ wpc = "check"
  /\ wpc' = CASE shutdown                          -> "exited"
              [] ~shutdown /\ nextSet              -> "empty_ring"
              [] ~shutdown /\ ~nextSet /\ canReadahead -> "fill"
              [] OTHER                             -> "sleep"
  /\ mutex' = IF shutdown THEN "free" ELSE "worker"
  /\ UNCHANGED <<discVars, flagVars, ringVars, mainVars, wslot, wlba, wseek, clientVars>>

\* Releasing the mutex and blocking; a notification sent by QueueKick
\* between WorkerCheck and this step is lost.
WorkerSleep ==
  /\ wpc = "sleep"
  /\ mutex' = "free"
  /\ WorkerGoto("blocked")

\* Discard the buffers for a new location: the stores of EmptyBuffers, seen
\* by the emulation thread one by one ...
WorkerEmptyRing ==
  /\ wpc = "empty_ring"
  /\ front' = 0 /\ back' = 0
  /\ wpc' = "empty_count"
  /\ UNCHANGED <<discVars, mutex, flagVars, threaded, size, buffers, count, mainVars,
                 wslot, wlba, wseek, clientVars>>

WorkerEmptyCount ==
  /\ wpc = "empty_count"
  /\ count' = 0
  /\ wpc' = "begin_seek"
  /\ UNCHANGED <<discVars, mutex, flagVars, threaded, size, buffers, front, back, mainVars,
                 wslot, wlba, wseek, clientVars>>

\* ... and only then m_next_position_set.
WorkerBeginSeek ==
  /\ wpc = "begin_seek"
  /\ wlba' = nextPos
  /\ nextSet' = FALSE /\ seekError' = FALSE /\ isReading' = TRUE
  /\ mutex' = "free" /\ wpc' = "seek"
  /\ UNCHANGED <<discVars, nextPos, shutdown, canReadahead, ringVars, mainVars,
                 wslot, wseek, clientVars>>

\* Seek without the mutex.  Without a disc image this dereferences a null
\* m_media: the guard stops the model there, as in WorkerBeginRead.
WorkerSeek ==
  /\ wpc = "seek" /\ media
  /\ wseek' = (pos = wlba \/ wlba \in DiscLBAs)
  /\ pos' = Seek(wlba, pos)
  /\ wpc' = "end_seek"
  /\ UNCHANGED <<media, mutex, flagVars, ringVars, mainVars, wslot, wlba, clientVars>>

AfterSeekError == "check"

WorkerEndSeek ==
  /\ wpc = "end_seek" /\ mutex = "free"
  /\ isReading' = FALSE
  /\ mutex' = "worker"
  /\ \/ /\ nextSet                          \* another request came in
        /\ wpc' = "empty_ring"
        /\ UNCHANGED <<seekError, canReadahead, mpc>>
     \/ /\ ~nextSet /\ ~wseek
        /\ seekError' = TRUE
        /\ NotifyReadComplete
        /\ wpc' = AfterSeekError
        /\ UNCHANGED canReadahead
     \/ /\ ~nextSet /\ wseek
        /\ canReadahead' = TRUE
        /\ wpc' = "fill"
        /\ UNCHANGED <<seekError, mpc>>
  /\ UNCHANGED <<discVars, nextSet, nextPos, shutdown, ringVars, mlba, mfront, mop,
                 wslot, wlba, wseek, clientVars>>

\* Variant: one sector too many.
HasSpaceForOneMore == count <= size

HasSpace == count < size

\* Read as many sectors as there is space for; ReadSectorIntoBuffer takes
\* the back slot and releases the mutex for the read.
WorkerBeginRead ==
  /\ wpc = "fill" /\ HasSpace /\ ~nextSet
  /\ media
  /\ wslot' = back
  /\ back' = NextSlot(back)
  /\ buffers' = [buffers EXCEPT ![back] = [lba |-> pos, data |-> NoLBA, ok |-> FALSE]]
  /\ isReading' = TRUE
  /\ mutex' = "free" /\ wpc' = "read"
  /\ UNCHANGED <<discVars, nextSet, nextPos, shutdown, canReadahead, seekError, threaded, size,
                 front, count, mainVars, wlba, wseek, clientVars>>

WorkerStopReadahead ==
  /\ wpc = "fill" /\ ~(HasSpace /\ ~nextSet)
  /\ wpc' = "end_readahead"
  /\ UNCHANGED <<discVars, mutex, flagVars, ringVars, mainVars, wslot, wlba, wseek, clientVars>>

WorkerRead ==
  /\ wpc = "read" /\ media
  /\ \E ok \in ReadRawSectorOK(pos) :
       /\ buffers' = [buffers EXCEPT ![wslot] =
            [lba |-> buffers[wslot].lba, data |-> IF ok THEN pos ELSE NoLBA, ok |-> ok]]
       /\ pos' = AfterRawRead(pos, ok)
  /\ wpc' = "end_read"
  /\ UNCHANGED <<media, mutex, flagVars, threaded, size, front, back, count, mainVars,
                 wslot, wlba, wseek, clientVars>>

\* Publish the sector; the result does not stop the readahead.
WorkerEndRead ==
  /\ wpc = "end_read" /\ mutex = "free"
  /\ isReading' = FALSE
  /\ count' = CountUp(count)
  /\ NotifyReadComplete
  /\ mutex' = "worker" /\ wpc' = "fill"
  /\ UNCHANGED <<discVars, nextSet, nextPos, shutdown, canReadahead, seekError, threaded, size,
                 buffers, front, back, mlba, mfront, mop, wslot, wlba, wseek, clientVars>>

WorkerEndReadahead ==
  /\ wpc = "end_readahead"
  /\ canReadahead' = FALSE
  /\ wpc' = "check"
  /\ UNCHANGED <<discVars, mutex, nextSet, nextPos, shutdown, isReading, seekError, ringVars,
                 mainVars, wslot, wlba, wseek, clientVars>>

-----------------------------------------------------------------------------
\* The steps with which a call of the emulation thread, once started, goes on.
MainStep ==
  \/ QueueCompareFront \/ QueueCompareNext \/ QueueAdvance \/ QueueSub
  \/ QueueKick \/ QueueNewPosition
  \/ WaitLoadCount \/ WaitFastReturn \/ WaitBlock \/ WaitReturn
  \/ UncachedBlock \/ UncachedRead
  \/ CancelBlock \/ CancelReadahead \/ MoveMedia
  \/ StopSignal \/ StopJoin

\* The calls the emulation thread may make.
MainCall ==
  \/ \E lba \in RequestLBAs :
       \/ QueueNonThreaded(lba) \/ QueueReadSector(lba)
       \/ UncachedNonThreaded(lba) \/ ReadSectorUncached(lba)
  \/ WaitForReadToComplete
  \/ \E op \in {"insert", "remove"} : ChangeMedia(op)
  \/ StartThread
  \/ \E op \in {"stop", "restart"} : StopThread(op)

WorkerStep ==
  \/ WorkerLock \/ WorkerCheck \/ WorkerSleep
  \/ WorkerEmptyRing \/ WorkerEmptyCount \/ WorkerBeginSeek
  \/ WorkerSeek \/ WorkerEndSeek
  \/ WorkerBeginRead \/ WorkerStopReadahead \/ WorkerRead \/ WorkerEndRead
  \/ WorkerEndReadahead

Next == MainCall \/ MainStep \/ WorkerStep \/ SpuriousWakeup

Spec == Init /\ [][Next]_vars

\* Both threads keep running.  Nothing obliges the emulation thread to make
\* another call; spurious wakeups are not relied upon, and do not go on for
\* ever (a read thread that wakes up again and again for nothing could keep
\* an unfair mutex from the other thread).
FairSpec ==
  /\ Spec
  /\ WF_vars(MainStep) /\ WF_vars(WorkerStep)
  /\ <>[][~SpuriousWakeup]_vars

-----------------------------------------------------------------------------
(* Properties.                                                             *)

MainPCs == {"idle", "queue_front", "queue_next", "queue_advance", "queue_sub", "queue_kick",
            "queue_lock", "wait_count", "wait_front", "wait_lock", "wait_blocked",
            "uncached_lock", "uncached_blocked", "cancel_lock", "cancel_blocked", "move_media",
            "stop_lock", "stop_join"}
WorkerPCs == {"exited", "wake", "check", "sleep", "blocked", "empty_ring", "empty_count",
              "begin_seek", "seek", "end_seek", "fill", "read", "end_read", "end_readahead"}

FlagsTypeOK ==
  /\ media \in BOOLEAN /\ threaded \in BOOLEAN /\ shutdown \in BOOLEAN
  /\ nextSet \in BOOLEAN /\ isReading \in BOOLEAN /\ canReadahead \in BOOLEAN
  /\ seekError \in BOOLEAN /\ wseek \in BOOLEAN /\ pending \in BOOLEAN

PCsTypeOK ==
  /\ mutex \in {"free", "worker"} /\ mpc \in MainPCs /\ wpc \in WorkerPCs
  /\ mop \in {"none", "insert", "remove", "stop", "restart"}

DataTypeOK ==
  /\ pos \in Positions
  /\ {nextPos, mlba, wlba} \subseteq LBAs
  /\ size \in 0 .. ReadaheadCount /\ count \in 0 .. CountModulus - 1
  /\ {front, back, mfront, wslot} \subseteq Slots
  /\ requested \in LBAs \cup {NoLBA}

BufferTypeOK == buffers \in SlotBuffers /\ delivered \in SlotRecord \cup {Nothing}

TypeOK == FlagsTypeOK /\ PCsTypeOK /\ DataTypeOK /\ BufferTypeOK

(***************************************************************************)
(* A sector that WaitForReadToComplete hands over is the one last asked    *)
(* for, and its content is that sector's when the read is reported good.   *)
(* The lock-free path ("Safe without locking with memory_order_seq_cst")   *)
(* never returns a sector of the readahead that is about to be discarded.  *)
(***************************************************************************)
SectorIsRequested ==
  delivered # Nothing => /\ delivered.lba = requested
                         /\ delivered.ok => delivered.data = requested

(***************************************************************************)
(* While CDROM works on the sector it was handed (GetSectorBuffer and      *)
(* GetSectorSubQ return references into the ring), the read thread does    *)
(* not write to that slot: neither the front nor its content changes.      *)
(***************************************************************************)
HeldSectorStable ==
  delivered # Nothing => /\ buffers[front] = delivered
                         /\ wpc \in {"read", "end_read"} => wslot # front

(***************************************************************************)
(* The lba that QueueReadSector compares without the mutex, of the front   *)
(* or of the next buffer, is never one the read thread is writing.         *)
(***************************************************************************)
NoSlotRace ==
  wpc \in {"read", "end_read"} =>
    /\ mpc = "queue_front" => wslot # front
    /\ mpc = "queue_next" /\ count > 1 => wslot # NextSlot(mfront)
    /\ mpc = "wait_front" => wslot # front

(***************************************************************************)
(* The number of buffered sectors never exceeds the ring and never goes    *)
(* below zero, although fetch_sub and fetch_add run on different threads   *)
(* and only one of them holds the mutex.                                   *)
(***************************************************************************)
CountInBounds == count <= size

(***************************************************************************)
(* CancelReadahead keeps the read thread away from the disc image while    *)
(* it is moved and while there is none ("prevent it from doing any more    *)
(* when it re-acquires the lock").                                         *)
(***************************************************************************)
UsingMedia == wpc \in {"seek", "read"} \/ (wpc = "fill" /\ HasSpace /\ ~nextSet)
MediaNotMovedInUse == UsingMedia => media /\ mpc # "move_media"

(***************************************************************************)
(* Every call of the emulation thread returns: no wakeup a caller relies   *)
(* on is lost, and joining the read thread succeeds.                       *)
(***************************************************************************)
CallsReturn == mpc # "idle" ~> mpc = "idle"

(***************************************************************************)
(* With the readahead set to "Disabled (Synchronous)" there is no read     *)
(* thread, so WaitForReadToComplete must never wait for one.               *)
(***************************************************************************)
SynchronousWaitReturns == (mpc = "wait_lock" /\ ~threaded) ~> mpc = "idle"

(***************************************************************************)
(* "add the error result, and don't try to read ahead": while a failed     *)
(* seek is still to be reported, the read thread reads nothing (what it    *)
(* read would be handed over instead of the error).                        *)
(***************************************************************************)
SeekErrorStopsReadahead == seekError => wpc \notin {"read", "end_read"}

(***************************************************************************)
(* "stop reading if we hit the end or get an error": the buffer behind one *)
(* whose read failed is not filled by the same readahead.                  *)
(***************************************************************************)
ReadaheadStopsAtError ==
  [][WorkerBeginRead /\ count > 0 =>
       \A i \in Slots : NextSlot(i) = back => buffers[i].ok]_vars

=============================================================================
