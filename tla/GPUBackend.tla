----------------------------- MODULE GPUBackend -----------------------------
(***************************************************************************)
(* The command queue of the GPU back end: core/gpu_backend.cpp.            *)
(*                                                                         *)
(* The emulation thread writes commands of different sizes into a ring of  *)
(* bytes, and publishes each by advancing m_command_fifo_write_ptr; the    *)
(* GPU thread takes what is there as a batch, executes it, and then        *)
(* advances m_command_fifo_read_ptr.  A command is never split: a dummy    *)
(* Wraparound command fills the ring up to its end.  The GPU thread sleeps *)
(* on a condition variable when it finds nothing to do.                    *)
(*                                                                         *)
(* Each thread owns one of the two pointers, so a step contains at most    *)
(* one access to state the other thread changes.  Code that runs with      *)
(* m_sync_mutex held on the emulation thread is a single step.             *)
(***************************************************************************)
EXTENDS Integers, Sequences, FiniteSets

CONSTANTS
  QueueSize,      \* COMMAND_QUEUE_SIZE
  WakeThreshold,  \* THRESHOLD_TO_WAKE_GPU
  Sizes,          \* sizes of the drawing commands, already aligned
  Ids,            \* what tells drawing commands of one size apart
  SyncSize,       \* sizeof(GPUBackendSyncCommand), aligned
  SyncBudget,     \* bytes a caller that does synchronise pushes between Syncs
  Synchronises    \* the caller keeps to SyncBudget

Aligned == {4 * k : k \in 1 .. QueueSize \div 4}

ASSUME QueueAssumption ==
  /\ QueueSize \in Nat \ {0} /\ QueueSize % 4 = 0
  /\ WakeThreshold \in Nat \ {0}
  /\ Sizes \subseteq Aligned /\ SyncSize \in Aligned
  /\ SyncBudget \in Nat /\ Synchronises \in BOOLEAN

VARIABLES
  fifo,               \* m_command_fifo_data: the command at each offset
  readPtr, writePtr,
  sleeping,           \* m_gpu_thread_sleeping
  done,               \* m_gpu_loop_done
  useThread,          \* m_use_gpu_thread
  signaled,           \* m_sync_event
  mutex,              \* owner of m_sync_mutex: "free" or "gpu"
  executed,           \* the drawing command executed last
  mpc, mcmd, mop,     \* emulation thread: pc, command, why it synchronises
  sinceSync,          \* bytes pushed since the last Sync returned
  gpc, gread, gwrite  \* GPU thread: pc and the bounds of its batch

ringVars == <<fifo, readPtr, writePtr>>
syncVars == <<sleeping, done, useThread, signaled, mutex>>
mainVars == <<mpc, mcmd, mop, sinceSync>>
gpuVars  == <<gpc, gread, gwrite>>
vars == <<ringVars, syncVars, executed, mainVars, gpuVars>>

HeaderSize == 8       \* sizeof(GPUBackendCommand)
TypeSize   == 1       \* sizeof(GPUBackendCommandType)

Offsets  == {4 * k : k \in 0 .. QueueSize \div 4 - 1}
Drawing  == [type : {"draw"}, size : Sizes, id : Ids]
SyncCommand == [type |-> "sync", size |-> SyncSize, id |-> 0]
Wraparound(n) == [type |-> "wraparound", size |-> n, id |-> 0]
NoCommand == [type |-> "none", size |-> 0, id |-> 0]
Commands == Drawing \cup {SyncCommand} \cup {Wraparound(n) : n \in Aligned}

\* A command in the ring destroys whatever its bytes held before.
Write(cmd) ==
  fifo' = [o \in Offsets |->
             CASE o = writePtr -> cmd
               [] o > writePtr /\ o < writePtr + cmd.size -> NoCommand
               [] OTHER -> fifo[o]]

\* GetPendingCommandSize
Pending == IF writePtr >= readPtr THEN writePtr - readPtr
           ELSE QueueSize - readPtr + writePtr

Init ==
  /\ fifo = [o \in Offsets |-> NoCommand] /\ readPtr = 0 /\ writePtr = 0
  /\ sleeping = FALSE /\ done = FALSE /\ signaled = FALSE /\ mutex = "free"
  /\ useThread \in BOOLEAN
  /\ executed = NoCommand
  /\ mpc = "idle" /\ mcmd = NoCommand /\ mop = "none" /\ sinceSync = 0
  /\ gpc = IF useThread THEN "load" ELSE "exited"
  /\ gread = 0 /\ gwrite = 0

MainGoto(pc) ==
  /\ mpc' = pc
  /\ UNCHANGED <<ringVars, syncVars, executed, mcmd, mop, sinceSync, gpuVars>>

-----------------------------------------------------------------------------
(* Calls of the emulation thread.                                          *)

\* One of the New...Command functions; PushCommand or nothing follows.
NewCommand(cmd) ==
  /\ mpc = "idle"
  /\ Synchronises => sinceSync + cmd.size <= SyncBudget
  /\ mcmd' = cmd
  /\ mpc' = "alloc"
  /\ UNCHANGED <<ringVars, syncVars, executed, mop, sinceSync, gpuVars>>

\* Sync, Reset, or UpdateSettings.  Without a GPU thread Sync does nothing.
Sync(op) ==
  /\ mpc = "idle" /\ useThread
  /\ mcmd' = SyncCommand /\ mop' = op
  /\ mpc' = "alloc"
  /\ UNCHANGED <<ringVars, syncVars, executed, sinceSync, gpuVars>>

\* UpdateSettings when the GPU thread was enabled.
StartGPUThread ==
  /\ mpc = "idle" /\ ~useThread
  /\ done' = FALSE /\ useThread' = TRUE
  /\ gpc' = "load"
  /\ UNCHANGED <<ringVars, sleeping, signaled, mutex, executed, mainVars, gread, gwrite>>

\* Shutdown: StopGPUThread without a Sync.
Shutdown ==
  /\ mpc = "idle"
  /\ mop' = "shutdown"
  /\ mpc' = IF useThread THEN "stop" ELSE "gone"
  /\ UNCHANGED <<ringVars, syncVars, executed, mcmd, sinceSync, gpuVars>>

\* The back end is destroyed and another one is made.
Recreate ==
  /\ mpc = "gone"
  /\ fifo' = [o \in Offsets |-> NoCommand] /\ readPtr' = 0 /\ writePtr' = 0
  /\ sleeping' = FALSE /\ done' = FALSE /\ signaled' = FALSE /\ mutex' = "free"
  /\ useThread' \in BOOLEAN
  /\ executed' = NoCommand
  /\ mpc' = "idle" /\ mcmd' = NoCommand /\ mop' = "none" /\ sinceSync' = 0
  /\ gpc' = IF useThread' THEN "load" ELSE "exited"
  /\ gread' = 0 /\ gwrite' = 0

-----------------------------------------------------------------------------
(* AllocateCommand.                                                        *)

\* Variant: no room is kept for the header of a dummy command.
NeedsWraparoundTight == QueueSize - writePtr < mcmd.size

NeedsWraparound == QueueSize - writePtr < mcmd.size + HeaderSize

Fits(available) == available >= mcmd.size + TypeSize

WriteCommand ==
  /\ Write(mcmd)
  /\ mpc' = "push"
  /\ UNCHANGED <<readPtr, writePtr, syncVars, executed, mcmd, mop, sinceSync, gpuVars>>

AllocateCommand ==
  /\ mpc = "alloc"
  /\ IF readPtr > writePtr THEN Fits(readPtr - writePtr) ELSE ~NeedsWraparound
  /\ WriteCommand

AllocateFull ==
  /\ mpc = "alloc" /\ readPtr > writePtr /\ ~Fits(readPtr - writePtr)
  /\ MainGoto("full")

\* "allocate a dummy command to wrap the buffer around", and start over.
AllocateDummy ==
  /\ mpc = "alloc" /\ readPtr <= writePtr /\ NeedsWraparound
  /\ Write(Wraparound(QueueSize - writePtr))
  /\ writePtr' = 0
  /\ UNCHANGED <<readPtr, syncVars, executed, mainVars, gpuVars>>

\* Variant: nobody is notified.
WakeNobody == UNCHANGED gpc

\* WakeGPUThread, with m_sync_mutex held throughout.
WakeGPUThread == gpc' = IF sleeping /\ gpc = "asleep" THEN "relock" ELSE gpc

Wake(pc, next) ==
  /\ mpc = pc /\ mutex = "free"
  /\ WakeGPUThread
  /\ mpc' = next
  /\ UNCHANGED <<ringVars, syncVars, executed, mcmd, mop, sinceSync, gread, gwrite>>

\* The loop around a queue that is too full: wake the GPU thread, look again.
FullWake == Wake("full", "reload")

AvailableAfterReload ==
  IF readPtr > writePtr THEN readPtr - writePtr ELSE QueueSize - writePtr

FullReload ==
  /\ mpc = "reload" /\ ~Fits(AvailableAfterReload)
  /\ MainGoto("full")

FullAllocate ==
  /\ mpc = "reload" /\ Fits(AvailableAfterReload)
  /\ WriteCommand

-----------------------------------------------------------------------------
(* PushCommand and Sync.                                                   *)

AfterPush == IF mcmd.type = "sync" THEN "sync_wake" ELSE "idle"

\* What was executed or abandoned is never looked at again: the model
\* forgets it.
Forget(o) == fifo' = [fifo EXCEPT ![o] = NoCommand]

\* A primitive that turns out to be culled is not pushed at all.
AbandonCommand ==
  /\ mpc = "push" /\ mcmd.type = "draw"
  /\ Forget(writePtr)
  /\ mpc' = "idle"
  /\ UNCHANGED <<readPtr, writePtr, syncVars, executed, mcmd, mop, sinceSync, gpuVars>>

\* HandleCommand, on the emulation thread.
PushNonThreaded ==
  /\ mpc = "push" /\ ~useThread
  /\ executed' = mcmd
  /\ Forget(writePtr)
  /\ mpc' = "idle"
  /\ UNCHANGED <<readPtr, writePtr, syncVars, mcmd, mop, sinceSync, gpuVars>>

PushCommand ==
  /\ mpc = "push" /\ useThread
  /\ writePtr' = writePtr + mcmd.size
  /\ sinceSync' = IF Synchronises /\ mcmd.type = "draw" THEN sinceSync + mcmd.size ELSE sinceSync
  /\ mpc' = "pushed"
  /\ UNCHANGED <<fifo, readPtr, syncVars, executed, mcmd, mop, gpuVars>>

\* Variant: the threshold itself is not enough.
BeyondThreshold == Pending > WakeThreshold

ReachesThreshold == Pending >= WakeThreshold

PushCheckPending ==
  /\ mpc = "pushed"
  /\ MainGoto(IF ReachesThreshold THEN "wake" ELSE AfterPush)

PushWake == Wake("wake", AfterPush)

SyncWake == Wake("sync_wake", "sync_wait")

\* m_sync_event.Wait(): an event, so nothing is lost if it came first.
SyncWait ==
  /\ mpc = "sync_wait" /\ signaled
  /\ MainGoto("sync_reset")

\* Variant: the event is left signalled.
ResetNothing == UNCHANGED signaled

ResetEvent == signaled' = FALSE

SyncReset ==
  /\ mpc = "sync_reset"
  /\ ResetEvent
  /\ sinceSync' = 0
  /\ mpc' = IF mop = "disable" THEN "stop" ELSE "idle"
  /\ mcmd' = NoCommand
  /\ UNCHANGED <<ringVars, sleeping, done, useThread, mutex, executed, mop, gpuVars>>

-----------------------------------------------------------------------------
(* StopGPUThread.                                                          *)

StopSetDone ==
  /\ mpc = "stop"
  /\ done' = TRUE
  /\ mpc' = "stop_wake"
  /\ UNCHANGED <<ringVars, sleeping, useThread, signaled, mutex, executed, mcmd, mop,
                 sinceSync, gpuVars>>

StopWake == Wake("stop_wake", "stop_join")

StopJoin ==
  /\ mpc = "stop_join" /\ gpc = "exited"
  /\ useThread' = FALSE
  /\ mpc' = IF mop = "shutdown" THEN "gone" ELSE "idle"
  /\ UNCHANGED <<ringVars, sleeping, done, signaled, mutex, executed, mcmd, mop,
                 sinceSync, gpuVars>>

-----------------------------------------------------------------------------
(* RunGPULoop.                                                             *)

GPUGoto(pc) ==
  /\ gpc' = pc
  /\ UNCHANGED <<ringVars, done, useThread, signaled, executed, mainVars, gread, gwrite>>

\* Variant: the batch always extends to the end of the ring.
BatchToTheEnd == QueueSize

\* Everything up to the write pointer, or up to the dummy command that ends
\* the ring.
BatchEnd == IF writePtr < readPtr THEN QueueSize ELSE writePtr

BeginBatch ==
  /\ gpc = "load" /\ readPtr # writePtr
  /\ gread' = readPtr
  /\ gwrite' = BatchEnd
  /\ gpc' = "batch"
  /\ UNCHANGED <<ringVars, syncVars, executed, mainVars>>

\* Nothing to do, for longer than SPIN_TIME_NS or after Sync(true).
StopSpinning ==
  /\ gpc = "load" /\ readPtr = writePtr
  /\ GPUGoto("lock")
  /\ UNCHANGED <<sleeping, mutex>>

LockToSleep ==
  /\ gpc = "lock" /\ mutex = "free"
  /\ mutex' = "gpu" /\ sleeping' = TRUE
  /\ GPUGoto("test")

\* The wait's predicate; releasing the mutex and blocking are one step.
MayWake == done \/ Pending > 0

FallAsleep ==
  /\ gpc = "test" /\ ~MayWake
  /\ mutex' = "free"
  /\ GPUGoto("asleep")
  /\ UNCHANGED sleeping

StayAwake ==
  /\ gpc = "test" /\ MayWake
  /\ sleeping' = FALSE
  /\ GPUGoto("awake")
  /\ UNCHANGED mutex

\* Notified, or woken up for nothing: reacquire the mutex and test again.
Relock ==
  /\ gpc = "relock" /\ mutex = "free"
  /\ mutex' = "gpu"
  /\ GPUGoto("test")
  /\ UNCHANGED sleeping

LoopOrExit ==
  /\ gpc = "awake"
  /\ mutex' = "free"
  /\ GPUGoto(IF done THEN "exited" ELSE "load")
  /\ UNCHANGED sleeping

SpuriousWakeup ==
  /\ gpc = "asleep"
  /\ GPUGoto("relock")
  /\ UNCHANGED <<sleeping, mutex>>

\* The command at the head of the batch.  An offset that holds no command
\* would be undefined behaviour: the batch stops there.
Current == fifo[gread]
InBatch(type) == gpc = "batch" /\ gread < gwrite /\ Current.type = type

WrapBatch ==
  /\ InBatch("wraparound")
  /\ Forget(gread)
  /\ gread' = 0 /\ gwrite' = writePtr
  /\ UNCHANGED <<readPtr, writePtr, syncVars, executed, mainVars, gpc>>

SignalSync ==
  /\ InBatch("sync")
  /\ signaled' = TRUE
  /\ Forget(gread) /\ gread' = gread + Current.size
  /\ UNCHANGED <<readPtr, writePtr, sleeping, done, useThread, mutex, executed, mainVars, gpc,
                 gwrite>>

HandleCommand ==
  /\ InBatch("draw")
  /\ executed' = Current
  /\ Forget(gread) /\ gread' = gread + Current.size
  /\ UNCHANGED <<readPtr, writePtr, syncVars, mainVars, gpc, gwrite>>

\* Only now may the emulation thread reuse the bytes of the batch.
EndBatch ==
  /\ gpc = "batch" /\ gread >= gwrite
  /\ readPtr' = gread
  /\ gpc' = "load" /\ gread' = 0 /\ gwrite' = 0
  /\ UNCHANGED <<fifo, writePtr, syncVars, executed, mainVars>>

-----------------------------------------------------------------------------
MainCall ==
  \/ \E cmd \in Drawing : NewCommand(cmd)
  \/ \E op \in {"none", "disable"} : Sync(op)
  \/ StartGPUThread \/ Shutdown

MainStep ==
  \/ AllocateCommand \/ AllocateFull \/ AllocateDummy
  \/ FullWake \/ FullReload \/ FullAllocate
  \/ AbandonCommand \/ PushNonThreaded \/ PushCommand \/ PushCheckPending \/ PushWake
  \/ SyncWake \/ SyncWait \/ SyncReset
  \/ StopSetDone \/ StopWake \/ StopJoin \/ Recreate

GPUStep ==
  \/ BeginBatch \/ StopSpinning \/ LockToSleep \/ FallAsleep \/ StayAwake \/ Relock
  \/ LoopOrExit \/ WrapBatch \/ SignalSync \/ HandleCommand \/ EndBatch

Next == MainCall \/ MainStep \/ GPUStep \/ SpuriousWakeup

Spec == Init /\ [][Next]_vars

\* Both threads keep running, and the GPU thread leaves its spin loop (it
\* looks at the clock).  The emulation thread need not make another call.
FairSpec ==
  /\ Spec
  /\ WF_vars(MainStep) /\ WF_vars(GPUStep)
  /\ <>[][~SpuriousWakeup]_vars

-----------------------------------------------------------------------------
(* Properties.                                                             *)

\* Where the GPU thread is, and how far ahead of that an offset is.
Position == IF gpc = "batch" THEN gread ELSE readPtr
Distance(o) == IF o >= Position THEN o - Position ELSE QueueSize - Position + o

\* A command that the GPU thread has yet to take starts at o, and where the
\* next one starts.
Waits(o) == o \in Offsets /\ fifo[o] # NoCommand /\ Distance(o) < Distance(writePtr)
Following(o) == IF fifo[o].type = "wraparound" THEN 0 ELSE o + fifo[o].size

\* The commands follow one another without a gap up to the write pointer, and
\* none starts within another: the GPU thread will find each of them.
Chained ==
  /\ Position = writePtr \/ Waits(Position)
  /\ \A o \in Offsets : Waits(o) =>
       /\ Following(o) = writePtr \/ Waits(Following(o))
       /\ Distance(Following(o)) = Distance(o) + fifo[o].size
       /\ \A p \in Offsets : o < p /\ p < o + fifo[o].size => fifo[p] = NoCommand

\* The drawing commands among them, in the order in which it will.
Draws == {o \in Offsets : fifo[o].type = "draw" /\ Waits(o)}
Before(o) == {p \in Draws : Distance(p) < Distance(o)}

\* "lost" marks a ring in which the GPU thread would not find its way.
Lost == <<[type |-> "lost", size |-> 0, id |-> 0]>>

Unexecuted ==
  IF Chained
  THEN [i \in 1 .. Cardinality(Draws) |->
          fifo[CHOOSE o \in Draws : Cardinality(Before(o)) = i - 1]]
  ELSE Lost

Phase ==
  CASE mop = "shutdown" -> "closing"
    [] mop # "shutdown" /\ mcmd.type = "sync" /\ mpc # "sync_reset" -> "syncing"
    [] OTHER -> "open"

(***************************************************************************)
(* The ring implements the stream of commands that callers rely on: every  *)
(* drawing command takes effect once and in order, and Sync waits for all  *)
(* of them, wherever the ring wraps around and however late the GPU thread *)
(* publishes its read pointer.                                             *)
(***************************************************************************)
Stream == INSTANCE GPUCommandStream WITH
            Commands <- Drawing, queue <- Unexecuted, phase <- Phase
ImplementsStream == Stream!StreamSpec

TypeOK ==
  /\ fifo \in [Offsets -> Commands \cup {NoCommand}]
  /\ readPtr \in Offsets /\ writePtr \in Offsets
  /\ {sleeping, done, useThread, signaled} \subseteq BOOLEAN /\ mutex \in {"free", "gpu"}
  /\ executed \in Drawing \cup {NoCommand}
  /\ mpc \in {"idle", "alloc", "full", "reload", "push", "pushed", "wake", "sync_wake",
              "sync_wait", "sync_reset", "stop", "stop_wake", "stop_join", "gone"}
  /\ mcmd \in Drawing \cup {SyncCommand, NoCommand}
  /\ mop \in {"none", "disable", "shutdown"}
  /\ sinceSync \in 0 .. SyncBudget
  /\ gpc \in {"exited", "load", "batch", "lock", "test", "asleep", "relock", "awake"}
  /\ gread \in Offsets \cup {QueueSize} /\ gwrite \in Offsets \cup {QueueSize}

(***************************************************************************)
(* m_sync_event is signalled only for the Sync that is waiting for it: a   *)
(* signal left over would let the next Sync return at once.                *)
(***************************************************************************)
SignalIsForThisSync ==
  signaled => /\ mcmd = SyncCommand
              /\ mpc \in {"pushed", "wake", "sync_wake", "sync_wait", "sync_reset"}

(***************************************************************************)
(* THRESHOLD_TO_WAKE_GPU: PushCommand does not leave the GPU thread asleep *)
(* over a backlog.  The size of it is computed without the mutex, after    *)
(* the write pointer was advanced and while the GPU thread may be on its   *)
(* way to sleep.                                                           *)
(***************************************************************************)
NoSleepOverThreshold ==
  [][(mpc = "pushed" \/ mpc = "wake") /\ mpc' = "idle"
       => gpc' # "asleep" \/ Pending' < WakeThreshold]_vars

(***************************************************************************)
(* The header of a dummy command fits into what is left of the ring        *)
(* (HeapArray: "assert(index < SIZE)").                                    *)
(***************************************************************************)
DummyInBounds ==
  mpc = "alloc" /\ readPtr <= writePtr /\ NeedsWraparound
    => QueueSize - writePtr >= HeaderSize

(***************************************************************************)
(* Every call returns: no wakeup is lost, and a full queue is drained.     *)
(***************************************************************************)
CallsReturn == mpc # "idle" ~> mpc = "idle"

(***************************************************************************)
(* A command that does not fit yet is allocated once the GPU thread has    *)
(* caught up ("allocate a dummy command to wrap the buffer around").       *)
(***************************************************************************)
AllocationReturns == mpc = "full" ~> mpc = "push"

=============================================================================
