-------------------------- MODULE GPUBackendProof ---------------------------
(***************************************************************************)
(* The command queue of the GPU back end, proved for a ring, a threshold   *)
(* and commands of any size.                                               *)
(*                                                                         *)
(* What the ring and the sleep of the GPU thread need holds for every      *)
(* caller (Typed).  That no command is written over, so that a Sync is     *)
(* signalled by its own command, holds for a caller that synchronises      *)
(* before it has filled half of the ring (Ring, under RoomForTwo): a lap   *)
(* of the GPU thread and a lap of the caller fit without touching.  For    *)
(* such a caller the commands in the ring form a chain from the GPU        *)
(* thread's position to the write pointer (Linked), and the ring           *)
(* implements GPUCommandStream: a drawing command that is pushed becomes   *)
(* the last of the chain, one that is executed was the first.              *)
(***************************************************************************)
EXTENDS GPUBackend, Remainders, FiniteSetTheorems, SequenceTheorems

-----------------------------------------------------------------------------
(* The invariants.                                                         *)

Allocating == {"alloc", "full", "reload", "push"}

\* The dummy command ends at the end of the ring, every other one before it.
Within(o, cmd) ==
  cmd # NoCommand => IF cmd.type = "wraparound" THEN o + cmd.size = QueueSize
                                                ELSE o + cmd.size < QueueSize

Placed == \A o \in Offsets : Within(o, fifo[o])

\* The command that the emulation thread makes room for and fills in.
Holding ==
  /\ mpc \in Allocating =>
       /\ mcmd \in Drawing \cup {SyncCommand}
       /\ mcmd = SyncCommand => useThread
       /\ Synchronises /\ mcmd.type = "draw" => sinceSync + mcmd.size <= SyncBudget
  /\ mpc = "push" => writePtr + mcmd.size < QueueSize

\* The GPU thread waits on its condition variable only under m_gpu_thread_sleeping.
SleepsAsTold == gpc \in {"test", "asleep", "relock"} => sleeping

\* Without m_use_gpu_thread there is no thread.
ThreadInUse == ~useThread => gpc = "exited"

Typed == TypeOK /\ gread \in Offsets /\ Placed /\ Holding /\ SleepsAsTold /\ ThreadInUse

\* A lap of the GPU thread, a lap of the emulation thread and the header of a dummy command.
RoomForTwo == Synchronises /\ QueueSize >= 2 * (SyncBudget + SyncSize) + HeaderSize

Pushed == {"pushed", "wake", "sync_wake", "sync_wait"}

\* The bytes pushed since the last Sync, the command of a Sync under way included.
Since == sinceSync + (IF mcmd = SyncCommand /\ mpc \in Pushed \cup {"sync_reset"}
                      THEN SyncSize ELSE 0)

\* The bytes the emulation thread has found room for but not pushed.
Held == IF mpc \in {"full", "reload", "push"} THEN mcmd.size ELSE 0

\* The command of a Sync is in the ring from when it is written until it signals.
SyncInRing ==
  \A o \in Offsets : fifo[o].type = "sync" =>
    /\ mcmd = SyncCommand
    /\ \/ mpc = "push" /\ o = writePtr
       \/ mpc \in Pushed /\ o + SyncSize = writePtr /\ ~signaled

\* The command being filled in is at the write pointer, and the ring is clear behind it.
Reserved ==
  mpc = "push" =>
    /\ fifo[writePtr] \in {mcmd, NoCommand}
    /\ \A o \in Offsets : writePtr < o /\ o < writePtr + mcmd.size => fifo[o] = NoCommand
    /\ writePtr < readPtr => writePtr + mcmd.size < readPtr

\* No command lies across p.
Boundary(p) == \A o \in Offsets : fifo[o] # NoCommand => ~(o < p /\ p < o + fifo[o].size)

Boundaries == Boundary(writePtr) /\ (gpc = "batch" => Boundary(gwrite))

\* The batch: up to the end of the ring, in one piece, or gone round to the start.
ToEnd    == gwrite = QueueSize /\ writePtr < readPtr /\ readPtr <= gread
Straight == /\ readPtr <= gread /\ gread <= gwrite /\ gwrite < QueueSize
            /\ readPtr <= writePtr => gwrite <= writePtr
Around   == gread <= gwrite /\ gwrite <= writePtr /\ writePtr < readPtr

\* How far the write pointer is ahead: never more than what was pushed since the last Sync,
\* counted from the read pointer, from the start of the ring or from the end of a batch
\* which itself is no longer than what is pushed between two Syncs.
Ahead(p) == writePtr - p <= Since

Idle == IF readPtr <= writePtr THEN Ahead(readPtr) ELSE Ahead(0)

Lap ==
  IF gpc # "batch" THEN Idle
  ELSE \/ ToEnd /\ Ahead(0)
       \/ /\ Straight /\ gwrite - readPtr <= SyncBudget + SyncSize
          /\ IF readPtr <= writePtr THEN Ahead(readPtr) \/ Ahead(gwrite) ELSE Ahead(0)
       \/ Around /\ gwrite <= SyncBudget + SyncSize /\ (Ahead(0) \/ Ahead(gwrite))

\* The header of a dummy command fits behind the write pointer.
Room == readPtr <= writePtr => writePtr + Held + HeaderSize <= QueueSize

\* Once its Sync is signalled the GPU thread has nothing left to do.
Drained ==
  signaled \/ mpc = "sync_reset" =>
    IF gpc = "batch" THEN gread = writePtr /\ gwrite = writePtr ELSE readPtr = writePtr

Ring ==
  /\ SyncInRing /\ SignalIsForThisSync /\ Reserved /\ Boundaries
  /\ Lap /\ Room /\ Drained

Invariant == Typed /\ (RoomForTwo => Ring)

-----------------------------------------------------------------------------
(* Offsets and sizes.                                                      *)

LEMMA RingOfWords == /\ QueueSize \div 4 \in Nat \ {0}
                     /\ QueueSize = 4 * (QueueSize \div 4)
BY QueueAssumption

LEMMA OffsetIsByte == \A o \in Offsets : o \in Nat /\ o < QueueSize
BY RingOfWords DEF Offsets

LEMMA AlignedIsPositive == \A n \in Aligned : n \in Nat \ {0} /\ n <= QueueSize
BY RingOfWords DEF Aligned

LEMMA StartIsOffset == 0 \in Offsets
<1>1. 0 \in 0 .. QueueSize \div 4 - 1 /\ 4 * 0 = 0
  BY RingOfWords
<1>. QED
  BY <1>1 DEF Offsets

\* The pointers move from one aligned offset to the next.
LEMMA NextOffset ==
  ASSUME NEW o \in Offsets, NEW n \in Aligned, o + n < QueueSize
  PROVE  o + n \in Offsets
<1>1. PICK k \in 0 .. QueueSize \div 4 - 1 : o = 4 * k
  BY DEF Offsets
<1>2. PICK l \in 1 .. QueueSize \div 4 : n = 4 * l
  BY DEF Aligned
<1>3. k + l \in 0 .. QueueSize \div 4 - 1 /\ o + n = 4 * (k + l)
  BY <1>1, <1>2, RingOfWords
<1>. QED
  BY <1>3 DEF Offsets

LEMMA RestIsAligned == ASSUME NEW o \in Offsets PROVE QueueSize - o \in Aligned
<1>1. PICK k \in 0 .. QueueSize \div 4 - 1 : o = 4 * k
  BY DEF Offsets
<1>2. QueueSize \div 4 - k \in 1 .. QueueSize \div 4 /\ QueueSize - o = 4 * (QueueSize \div 4 - k)
  BY <1>1, RingOfWords
<1>. QED
  BY <1>2 DEF Aligned

LEMMA CommandFact ==
  /\ \A c \in Drawing : /\ c \in Commands /\ c.type = "draw" /\ c.size \in Aligned
                        /\ c # NoCommand /\ c # SyncCommand
  /\ SyncCommand \in Commands /\ SyncCommand.type = "sync" /\ SyncCommand.size = SyncSize
  /\ SyncSize \in Aligned /\ SyncCommand # NoCommand
  /\ NoCommand.type = "none" /\ NoCommand.size = 0
  /\ \A c \in Commands \cup {NoCommand} :
       /\ c.size \in Nat
       /\ c # NoCommand => c.size \in Aligned
       /\ c.type = "draw" => c \in Drawing
       /\ c.type = "sync" => c = SyncCommand
       /\ c.type \in {"draw", "sync", "wraparound", "none"}
       /\ c.type = "none" => c = NoCommand
<1>1. \A c \in Drawing : /\ c \in Commands /\ c.type = "draw" /\ c.size \in Aligned
                         /\ c # NoCommand /\ c # SyncCommand
  BY QueueAssumption DEF Drawing, Commands, NoCommand, SyncCommand
<1>2. /\ SyncCommand \in Commands /\ SyncCommand.type = "sync" /\ SyncCommand.size = SyncSize
      /\ SyncSize \in Aligned /\ SyncCommand # NoCommand
  BY QueueAssumption DEF SyncCommand, Commands, NoCommand
<1>3. NoCommand.type = "none" /\ NoCommand.size = 0
  BY DEF NoCommand
<1>4. \A n \in Aligned : /\ Wraparound(n).size = n /\ Wraparound(n).type = "wraparound"
                         /\ Wraparound(n) # NoCommand
  BY DEF Wraparound, NoCommand
<1>5. \A c \in Commands : c \in Drawing \/ c = SyncCommand \/ \E n \in Aligned : c = Wraparound(n)
  BY DEF Commands
<1>. QED
  BY <1>1, <1>2, <1>3, <1>4, <1>5, AlignedIsPositive

-----------------------------------------------------------------------------
(* What a thread does to the ring.                                         *)

RingType(f) == f \in [Offsets -> Commands \cup {NoCommand}] /\ \A o \in Offsets : Within(o, f[o])

LEMMA WriteKeepsRing ==
  ASSUME RingType(fifo), writePtr \in Offsets, NEW cmd \in Commands, Within(writePtr, cmd),
         Write(cmd)
  PROVE  RingType(fifo')
<1>1. \A o \in Offsets : fifo'[o] \in {cmd, fifo[o], NoCommand} /\ (fifo'[o] = cmd => 
                          o = writePtr \/ fifo'[o] \in {fifo[o], NoCommand})
  BY DEF Write
<1>2. \A o \in Offsets : fifo'[o] \in Commands \cup {NoCommand} /\ Within(o, fifo'[o])
  BY <1>1 DEF RingType, Within
<1>3. fifo' = [o \in Offsets |-> fifo'[o]]
  BY DEF Write
<1>. QED
  BY <1>2, <1>3 DEF RingType

LEMMA ForgetKeepsRing ==
  ASSUME RingType(fifo), NEW p \in Offsets, Forget(p)
  PROVE  RingType(fifo')
BY DEF RingType, Within, Forget

-----------------------------------------------------------------------------
(* Types, and what the sleep of the GPU thread relies on.                  *)

LEMMA InitTyped == Init => Typed
<1>. HAVE Init
<1>1. fifo \in [Offsets -> Commands \cup {NoCommand}] /\ Placed
  BY DEF Init, Placed, Within
<1>2. {sleeping, done, useThread, signaled} \subseteq BOOLEAN
  BY DEF Init
<1>3. gpc \in {"exited", "load"} /\ (~useThread => gpc = "exited")
  BY DEF Init
<1>. QED
  BY <1>1, <1>2, <1>3, StartIsOffset, QueueAssumption
     DEF Init, Typed, TypeOK, Holding, Allocating, SleepsAsTold, ThreadInUse

\* Starting over with a new back end is like starting.
LEMMA RecreateTyped == ASSUME Recreate PROVE Typed'
<1>1. fifo' \in [Offsets -> Commands \cup {NoCommand}] /\ Placed'
  BY DEF Recreate, Placed, Within
<1>2. {sleeping, done, useThread, signaled}' \subseteq BOOLEAN
  BY DEF Recreate
<1>3. gpc' \in {"exited", "load"} /\ (~useThread' => gpc' = "exited")
  BY DEF Recreate
<1>. QED
  BY <1>1, <1>2, <1>3, StartIsOffset, QueueAssumption
     DEF Recreate, Typed, TypeOK, Holding, Allocating, SleepsAsTold, ThreadInUse

LEMMA CallTyped == ASSUME Typed, MainCall PROVE Typed'
<1>. USE CommandFact
         DEF Typed, TypeOK, Placed, Holding, Allocating, SleepsAsTold, ThreadInUse,
             ringVars, syncVars, mainVars, gpuVars
<1>1. ASSUME NEW cmd \in Drawing, NewCommand(cmd) PROVE Typed'
  BY <1>1 DEF NewCommand
<1>2. ASSUME NEW op \in {"none", "disable"}, Sync(op) PROVE Typed'
  BY <1>2 DEF Sync
<1>3. CASE StartGPUThread
  BY <1>3 DEF StartGPUThread
<1>4. CASE Shutdown
  BY <1>4 DEF Shutdown
<1>. QED
  BY <1>1, <1>2, <1>3, <1>4 DEF MainCall

LEMMA WriteTyped == ASSUME Typed, mpc \in Allocating, writePtr + mcmd.size < QueueSize, WriteCommand
                    PROVE  Typed'
<1>1. mcmd \in Commands /\ Within(writePtr, mcmd)
  BY CommandFact DEF Typed, Holding, Allocating, Within
<1>2. RingType(fifo) /\ writePtr \in Offsets
  BY DEF Typed, TypeOK, Placed, RingType
<1>3. RingType(fifo')
  BY <1>1, <1>2, WriteKeepsRing DEF WriteCommand
<1>. QED
  BY <1>3 DEF WriteCommand, RingType, Typed, TypeOK, Placed, Holding, Allocating,
              SleepsAsTold, ThreadInUse, syncVars, gpuVars

LEMMA AllocateTyped == ASSUME Typed, AllocateCommand \/ FullAllocate PROVE Typed'
<1>1. /\ mpc \in Allocating /\ WriteCommand /\ readPtr \in Offsets /\ writePtr \in Offsets
      /\ mcmd.size \in Nat
  BY CommandFact DEF AllocateCommand, FullAllocate, Allocating, Typed, TypeOK
<1>2. writePtr + mcmd.size < QueueSize
  BY <1>1, OffsetIsByte, QueueAssumption
     DEF AllocateCommand, FullAllocate, Fits, NeedsWraparound, AvailableAfterReload, HeaderSize,
         TypeSize
<1>. QED
  BY <1>1, <1>2, WriteTyped

LEMMA DummyTyped == ASSUME Typed, AllocateDummy PROVE Typed'
<1>1. writePtr \in Offsets /\ RingType(fifo)
  BY DEF Typed, TypeOK, Placed, RingType
<1>2. /\ Wraparound(QueueSize - writePtr) \in Commands
      /\ Within(writePtr, Wraparound(QueueSize - writePtr))
  BY <1>1, RestIsAligned, OffsetIsByte, QueueAssumption DEF Commands, Within, Wraparound
<1>3. RingType(fifo')
  BY <1>1, <1>2, WriteKeepsRing DEF AllocateDummy
<1>. QED
  BY <1>3, StartIsOffset
     DEF AllocateDummy, RingType, Typed, TypeOK, Placed, Holding, SleepsAsTold, ThreadInUse,
         syncVars, mainVars, gpuVars

LEMMA MainTyped == ASSUME Typed, MainStep PROVE Typed'
<1>. USE CommandFact
         DEF Typed, TypeOK, Placed, Holding, Allocating, SleepsAsTold, ThreadInUse,
             ringVars, syncVars, mainVars, gpuVars, MainGoto, Wake, WakeGPUThread
<1>1. CASE AllocateCommand \/ FullAllocate
  BY <1>1, AllocateTyped
<1>2. CASE AllocateDummy
  BY <1>2, DummyTyped
<1>3. CASE AllocateFull \/ FullWake \/ FullReload
  BY <1>3 DEF AllocateFull, FullWake, FullReload
<1>4. CASE AbandonCommand \/ PushNonThreaded
  <2>1. RingType(fifo) /\ writePtr \in Offsets /\ Forget(writePtr)
    BY <1>4 DEF AbandonCommand, PushNonThreaded, RingType
  <2>2. RingType(fifo')
    BY <2>1, ForgetKeepsRing
  <2>. QED
    BY <1>4, <2>2 DEF AbandonCommand, PushNonThreaded, RingType
<1>5. CASE PushCommand
  <2>1. writePtr' \in Offsets
    BY <1>5, NextOffset DEF PushCommand
  <2>2. sinceSync' \in 0 .. SyncBudget
    BY <1>5, QueueAssumption DEF PushCommand
  <2>. QED
    BY <1>5, <2>1, <2>2 DEF PushCommand
<1>6. CASE PushCheckPending
  BY <1>6 DEF PushCheckPending, AfterPush
<1>7. CASE PushWake \/ SyncWake \/ StopWake
  BY <1>7 DEF PushWake, SyncWake, StopWake, AfterPush
<1>8. CASE SyncWait \/ SyncReset
  <2>1. {sleeping, done, useThread, signaled}' \subseteq BOOLEAN
    BY <1>8 DEF SyncWait, SyncReset, ResetEvent
  <2>. QED
    BY <1>8, <2>1, QueueAssumption DEF SyncWait, SyncReset, ResetEvent
<1>9. CASE StopSetDone \/ StopJoin
  BY ZenonT(60), <1>9 DEF StopSetDone, StopJoin
<1>10. CASE Recreate
  BY <1>10, RecreateTyped
<1>. QED
  BY <1>1, <1>2, <1>3, <1>4, <1>5, <1>6, <1>7, <1>8, <1>9, <1>10 DEF MainStep

\* Where the GPU thread is in the ring, there is a command.
LEMMA HeadInRing ==
  ASSUME Typed, NEW type \in {"draw", "sync", "wraparound"}, InBatch(type)
  PROVE  /\ gread \in Offsets /\ RingType(fifo) /\ Current \in Commands
         /\ type # "wraparound" => gread + Current.size \in Offsets
<1>1. gread \in Offsets /\ RingType(fifo) /\ Current \in Commands
  BY CommandFact DEF Typed, TypeOK, Placed, RingType, InBatch, Current
<1>2. ASSUME type # "wraparound" PROVE gread + Current.size < QueueSize
  BY <1>1, <1>2, CommandFact DEF RingType, Within, Current, InBatch
<1>3. Current.size \in Aligned
  BY <1>1, CommandFact DEF Current, InBatch
<1>. QED
  BY <1>1, <1>2, <1>3, NextOffset

LEMMA GPUTyped == ASSUME Typed, GPUStep \/ SpuriousWakeup PROVE Typed'
<1>. USE DEF Typed, TypeOK, Placed, Holding, SleepsAsTold, ThreadInUse,
             ringVars, syncVars, mainVars, gpuVars, GPUGoto
<1>1. CASE BeginBatch
  BY <1>1 DEF BeginBatch, BatchEnd
<1>2. CASE StopSpinning \/ LockToSleep \/ FallAsleep
  <2>1. {sleeping, done, useThread, signaled}' \subseteq BOOLEAN
    BY <1>2 DEF StopSpinning, LockToSleep, FallAsleep
  <2>. QED
    BY <1>2, <2>1 DEF StopSpinning, LockToSleep, FallAsleep
<1>3. CASE StayAwake \/ Relock \/ LoopOrExit \/ SpuriousWakeup
  <2>1. {sleeping, done, useThread, signaled}' \subseteq BOOLEAN
    BY <1>3 DEF StayAwake, Relock, LoopOrExit, SpuriousWakeup
  <2>. QED
    BY <1>3, <2>1 DEF StayAwake, Relock, LoopOrExit, SpuriousWakeup
<1>4. CASE WrapBatch
  <2>1. gread \in Offsets /\ RingType(fifo)
    BY <1>4, HeadInRing DEF WrapBatch
  <2>2. RingType(fifo')
    BY <1>4, <2>1, ForgetKeepsRing DEF WrapBatch
  <2>. QED
    BY <1>4, <2>2, StartIsOffset DEF WrapBatch, RingType
<1>5. CASE SignalSync \/ HandleCommand
  <2>1. /\ gread \in Offsets /\ RingType(fifo) /\ gread + Current.size \in Offsets
        /\ Current \in Commands /\ Forget(gread)
    BY <1>5, HeadInRing DEF SignalSync, HandleCommand
  <2>2. RingType(fifo')
    BY <2>1, ForgetKeepsRing
  <2>3. HandleCommand => Current \in Drawing
    BY <2>1, CommandFact DEF HandleCommand, InBatch
  <2>4. {sleeping, done, useThread, signaled}' \subseteq BOOLEAN
    BY <1>5 DEF SignalSync, HandleCommand
  <2>. QED
    BY <1>5, <2>1, <2>2, <2>3, <2>4 DEF SignalSync, HandleCommand, RingType, InBatch
<1>6. CASE EndBatch
  BY <1>6, StartIsOffset DEF EndBatch
<1>. QED
  BY <1>1, <1>2, <1>3, <1>4, <1>5, <1>6 DEF GPUStep

LEMMA TypedNext == ASSUME Typed, [Next]_vars PROVE Typed'
<1>1. CASE UNCHANGED vars
  BY <1>1 DEF Typed, TypeOK, Placed, Holding, SleepsAsTold, ThreadInUse,
              vars, ringVars, syncVars, mainVars, gpuVars
<1>. QED
  BY <1>1, CallTyped, MainTyped, GPUTyped DEF Next

-----------------------------------------------------------------------------
(* Nothing is written over, for a caller that synchronises in time.        *)

LEMMA Numbers ==
  ASSUME Typed
  PROVE  /\ readPtr \in Nat /\ writePtr \in Nat /\ gread \in Nat /\ gwrite \in Nat
         /\ readPtr < QueueSize /\ writePtr < QueueSize /\ gread < QueueSize
         /\ gwrite <= QueueSize
         /\ readPtr \in Offsets /\ writePtr \in Offsets /\ gread \in Offsets
         /\ QueueSize \in Nat /\ SyncBudget \in Nat /\ SyncSize \in Nat \ {0}
         /\ mcmd.size \in Nat
         /\ sinceSync \in Nat /\ sinceSync <= SyncBudget
         /\ Since \in Nat /\ Since <= SyncBudget + SyncSize
         /\ HeaderSize = 8
<1>1. /\ readPtr \in Offsets /\ writePtr \in Offsets /\ gread \in Offsets
      /\ gwrite \in Offsets \cup {QueueSize}
      /\ sinceSync \in Nat /\ sinceSync <= SyncBudget
      /\ QueueSize \in Nat /\ SyncBudget \in Nat /\ SyncSize \in Nat \ {0}
  BY QueueAssumption, AlignedIsPositive DEF Typed, TypeOK
<1>2. mcmd.size \in Nat
  BY CommandFact DEF Typed, TypeOK
<1>. QED
  BY <1>1, <1>2, OffsetIsByte DEF Since, HeaderSize

\* Only a Sync that is being pushed, or has not been signalled, has a command in the ring.
LEMMA NoSyncInRing ==
  ASSUME Ring, mcmd # SyncCommand \/ mpc \notin Pushed \cup {"push"}
  PROVE  \A o \in Offsets : fifo[o].type # "sync"
BY DEF Ring, SyncInRing

LEMMA NotSignalled ==
  ASSUME Ring, mcmd # SyncCommand \/ mpc \notin Pushed \cup {"sync_reset"}
  PROVE  ~signaled
BY DEF Ring, SignalIsForThisSync, Pushed

\* Steps that touch neither the ring nor its pointers.
Still ==
  /\ UNCHANGED <<fifo, readPtr, writePtr, signaled, sinceSync, gread, gwrite>>
  /\ gpc' = "batch" <=> gpc = "batch"

LEMMA StillRing ==
  ASSUME Ring, Still, Since' = Since
  PROVE  Boundaries' /\ Lap'
BY DEF Ring, Still, Boundaries, Boundary, Lap, ToEnd, Straight, Around, Ahead, Idle

\* A call begins, or the GPU thread is started or stopped.
LEMMA CallRing ==
  ASSUME Ring, Still, SyncSize \in Nat, sinceSync \in Nat,
         mpc \in {"idle", "stop", "stop_wake", "stop_join"},
         mpc' \in {"idle", "alloc", "stop", "stop_wake", "stop_join", "gone"},
         readPtr \in Nat, writePtr \in Nat
  PROVE  Ring'
<1>1. Since' = Since /\ Held' = Held
  BY DEF Since, Held, Pushed, Still
<1>2. Boundaries' /\ Lap'
  BY <1>1, StillRing
<1>3. ~signaled /\ ~signaled' /\ \A o \in Offsets : fifo[o].type # "sync"
  BY NoSyncInRing, NotSignalled DEF Pushed, Still
<1>4. SyncInRing' /\ SignalIsForThisSync' /\ Reserved' /\ Drained'
  BY <1>3 DEF SyncInRing, SignalIsForThisSync, Reserved, Drained, Still
<1>5. Room'
  BY <1>1 DEF Ring, Room, Still
<1>. QED
  BY <1>2, <1>4, <1>5 DEF Ring

\* Waiting for room.
LEMMA FullRing ==
  ASSUME Ring, Still, sinceSync \in Nat, mcmd' = mcmd,
         mpc \in {"full", "reload"} \/ (mpc = "alloc" /\ writePtr < readPtr),
         mpc' \in {"full", "reload"}, readPtr \in Nat, writePtr \in Nat
  PROVE  Ring'
<1>1. Since' = Since /\ (Held' = Held \/ writePtr < readPtr)
  BY DEF Since, Held, Pushed, Still
<1>2. Boundaries' /\ Lap'
  BY <1>1, StillRing
<1>3. ~signaled /\ ~signaled' /\ \A o \in Offsets : fifo[o].type # "sync"
  BY NoSyncInRing, NotSignalled DEF Pushed, Still
<1>4. SyncInRing' /\ SignalIsForThisSync' /\ Reserved' /\ Drained'
  BY <1>3 DEF SyncInRing, SignalIsForThisSync, Reserved, Drained, Still
<1>5. Room'
  BY <1>1 DEF Ring, Room, Still
<1>. QED
  BY <1>2, <1>4, <1>5 DEF Ring

\* After PushCommand: on to the end of the call, or to the end of Sync.
LEMMA PushedRing ==
  ASSUME Typed, Ring, Still, mcmd' = mcmd, mpc \in Pushed,
         \/ mpc' \in Pushed
         \/ mpc' = "sync_reset" /\ signaled
         \/ mpc' = "idle" /\ mcmd # SyncCommand
  PROVE  Ring'
<1>1. Since' = Since /\ Held' = Held
  BY DEF Since, Held, Pushed, Still
<1>2. Boundaries' /\ Lap'
  BY <1>1, StillRing
<1>3. SyncInRing' /\ SignalIsForThisSync' /\ Reserved'
  BY NoSyncInRing, NotSignalled DEF Ring, SyncInRing, SignalIsForThisSync, Reserved, Still, Pushed
<1>4. Drained'
  BY DEF Ring, Drained, Still, Pushed
<1>5. Room'
  BY <1>1, Numbers DEF Ring, Room, Still
<1>. QED
  BY <1>2, <1>3, <1>4, <1>5 DEF Ring

\* The GPU thread falls asleep and wakes up, or nothing happens.
LEMMA ThreadRing ==
  ASSUME Ring, Still, UNCHANGED mainVars
  PROVE  Ring'
<1>1. Since' = Since /\ Held' = Held
  BY DEF Since, Held, Still, mainVars
<1>2. Boundaries' /\ Lap'
  BY <1>1, StillRing
<1>3. SyncInRing' /\ SignalIsForThisSync' /\ Reserved' /\ Drained'
  BY DEF Ring, SyncInRing, SignalIsForThisSync, Reserved, Drained, Still, mainVars
<1>4. Room'
  BY <1>1 DEF Ring, Room, Still
<1>. QED
  BY <1>2, <1>3, <1>4 DEF Ring

\* A command is written into room that was found for it.
LEMMA WriteRing ==
  ASSUME RoomForTwo, Typed, Ring, WriteCommand, mpc \in {"alloc", "reload"},
         writePtr < readPtr => writePtr + mcmd.size < readPtr,
         readPtr <= writePtr => writePtr + mcmd.size + HeaderSize <= QueueSize
  PROVE  Ring'
<1>1. /\ readPtr' = readPtr /\ writePtr' = writePtr /\ gread' = gread /\ gwrite' = gwrite
      /\ gpc' = gpc /\ signaled' = signaled /\ sinceSync' = sinceSync
      /\ mcmd' = mcmd /\ mpc' = "push"
  BY DEF WriteCommand, syncVars, gpuVars
<1>2. /\ fifo'[writePtr] = mcmd
      /\ \A o \in Offsets : writePtr < o /\ o < writePtr + mcmd.size => fifo'[o] = NoCommand
      /\ \A o \in Offsets : o = writePtr \/ fifo'[o] \in {fifo[o], NoCommand}
  BY Numbers DEF WriteCommand, Write
<1>3. ~signaled /\ \A o \in Offsets : fifo[o].type # "sync"
  BY NoSyncInRing, NotSignalled DEF Pushed
<1>4. mcmd.type = "sync" => mcmd = SyncCommand
  BY CommandFact DEF Typed, TypeOK
<1>5. SyncInRing'
  BY <1>1, <1>2, <1>3, <1>4, CommandFact DEF SyncInRing
<1>6. SignalIsForThisSync' /\ Drained'
  BY <1>1, <1>3 DEF SignalIsForThisSync, Drained
<1>7. Reserved'
  BY <1>1, <1>2 DEF Reserved
<1>8. Since' = Since
  BY <1>1 DEF Since, Pushed
<1>9. Lap'
  BY <1>1, <1>8 DEF Ring, Lap, ToEnd, Straight, Around, Ahead, Idle
<1>10. Boundary(writePtr)'
  BY <1>1, <1>2, Numbers DEF Ring, Boundaries, Boundary
<1>11. ASSUME gpc = "batch" PROVE ~(writePtr < gwrite /\ gwrite < writePtr + mcmd.size)
  BY <1>11, Numbers DEF Ring, Lap, ToEnd, Straight, Around
<1>12. gpc' = "batch" => Boundary(gwrite)'
  BY <1>1, <1>2, <1>11 DEF Ring, Boundaries, Boundary
<1>13. Room'
  BY <1>1 DEF Room, Held
<1>. QED
  BY <1>5, <1>6, <1>7, <1>9, <1>10, <1>12, <1>13 DEF Ring, Boundaries

LEMMA AllocateRing ==
  ASSUME RoomForTwo, Typed, Ring, AllocateCommand \/ FullAllocate
  PROVE  Ring'
<1>1. WriteCommand /\ mpc \in {"alloc", "reload"}
  BY DEF AllocateCommand, FullAllocate
<1>2. writePtr < readPtr => writePtr + mcmd.size < readPtr
  BY Numbers
     DEF AllocateCommand, FullAllocate, AvailableAfterReload, Fits, TypeSize
<1>3. readPtr <= writePtr => writePtr + mcmd.size + HeaderSize <= QueueSize
  BY Numbers DEF AllocateCommand, FullAllocate, NeedsWraparound, Ring, Room, Held
<1>. QED
  BY <1>1, <1>2, <1>3, WriteRing

\* What is being allocated was not pushed yet.
LEMMA AllocatingFact ==
  ASSUME RoomForTwo, Typed, mpc \in Allocating
  PROVE  Since = sinceSync /\ Since + mcmd.size <= SyncBudget + SyncSize
<1>1. Since = sinceSync
  BY Numbers DEF Since, Allocating, Pushed
<1>2. mcmd \in Drawing => sinceSync + mcmd.size <= SyncBudget
  BY CommandFact DEF Typed, Holding, RoomForTwo
<1>3. mcmd = SyncCommand => mcmd.size = SyncSize
  BY CommandFact
<1>. QED
  BY <1>1, <1>2, <1>3, Numbers DEF Typed, Holding

\* With a full lap ahead of the read pointer there is no reason to wrap around yet.
LEMMA DummyAhead ==
  ASSUME RoomForTwo, Typed, Ring, AllocateDummy
  PROVE  readPtr > 0
<1>1. Since + mcmd.size <= SyncBudget + SyncSize
  BY AllocatingFact DEF AllocateDummy, Allocating
<1>2. QueueSize - writePtr < mcmd.size + HeaderSize /\ readPtr <= writePtr
  BY DEF AllocateDummy, NeedsWraparound
<1>3. SUFFICES ASSUME readPtr = 0 PROVE FALSE
  BY Numbers
<1>4. writePtr <= SyncBudget + SyncSize + Since
  BY <1>2, <1>3, Numbers DEF Ring, Lap, ToEnd, Straight, Around, Ahead, Idle
<1>. QED
  BY <1>1, <1>2, <1>4, Numbers DEF RoomForTwo

LEMMA DummyRing ==
  ASSUME RoomForTwo, Typed, Ring, AllocateDummy
  PROVE  Ring'
<1>1. /\ readPtr' = readPtr /\ writePtr' = 0 /\ gread' = gread /\ gwrite' = gwrite
      /\ gpc' = gpc /\ signaled' = signaled /\ sinceSync' = sinceSync
      /\ mcmd' = mcmd /\ mpc' = mpc /\ mpc = "alloc" /\ readPtr <= writePtr
  BY DEF AllocateDummy, syncVars, mainVars, gpuVars
<1>2. /\ fifo'[writePtr].type = "wraparound" /\ fifo'[writePtr].size = QueueSize - writePtr
      /\ \A o \in Offsets : o = writePtr \/ fifo'[o] \in {fifo[o], NoCommand}
  BY Numbers DEF AllocateDummy, Write, Wraparound
<1>3. ~signaled /\ \A o \in Offsets : fifo[o].type # "sync"
  BY <1>1, NoSyncInRing, NotSignalled DEF Pushed
<1>4. SyncInRing'
  BY <1>1, <1>2, <1>3, CommandFact DEF SyncInRing
<1>5. SignalIsForThisSync' /\ Reserved' /\ Drained'
  BY <1>1, <1>3 DEF SignalIsForThisSync, Drained, Reserved
<1>6. Boundary(writePtr)'
  BY <1>1, OffsetIsByte DEF Boundary
<1>7. ASSUME gpc = "batch" PROVE gwrite <= writePtr
  BY <1>1, <1>7, Numbers DEF Ring, Lap, ToEnd, Straight, Around
<1>8. gpc' = "batch" => Boundary(gwrite)'
  BY <1>1, <1>2, <1>7, Numbers DEF Ring, Boundaries, Boundary
<1>9. Since' = Since
  BY <1>1 DEF Since
<1>10. readPtr > 0
  BY DummyAhead
<1>11. Lap'
  BY <1>1, <1>9, <1>10, Numbers DEF Ring, Lap, ToEnd, Straight, Around, Ahead, Idle
<1>12. Room'
  BY <1>1, <1>10, Numbers DEF Room
<1>. QED
  BY <1>4, <1>5, <1>6, <1>8, <1>11, <1>12 DEF Ring, Boundaries

\* A command leaves the ring.
LEMMA FewerCommands ==
  ASSUME NEW p \in Offsets, Forget(p), Typed
  PROVE  /\ \A o \in Offsets : fifo'[o] \in {fifo[o], NoCommand}
         /\ \A q : Boundary(q) =>
              \A o \in Offsets : fifo'[o] # NoCommand => ~(o < q /\ q < o + fifo'[o].size)
BY DEF Forget, Boundary, Typed, TypeOK

\* A drawing command is abandoned, or executed without a GPU thread.
LEMMA AbandonRing ==
  ASSUME Typed, Ring, AbandonCommand \/ PushNonThreaded
  PROVE  Ring'
<1>1. /\ readPtr' = readPtr /\ writePtr' = writePtr /\ gread' = gread /\ gwrite' = gwrite
      /\ gpc' = gpc /\ signaled' = signaled /\ sinceSync' = sinceSync
      /\ mcmd' = mcmd /\ mpc' = "idle" /\ mpc = "push"
  BY DEF AbandonCommand, PushNonThreaded, syncVars, gpuVars
<1>2. mcmd # SyncCommand
  BY CommandFact DEF AbandonCommand, PushNonThreaded, Typed, Holding, Allocating
<1>3. \A o \in Offsets : fifo'[o] \in {fifo[o], NoCommand}
  BY Numbers, FewerCommands DEF AbandonCommand, PushNonThreaded
<1>4. ~signaled /\ \A o \in Offsets : fifo[o].type # "sync"
  BY <1>2, NoSyncInRing, NotSignalled
<1>5. SyncInRing' /\ SignalIsForThisSync' /\ Reserved' /\ Drained'
  BY <1>1, <1>3, <1>4, CommandFact DEF SyncInRing, SignalIsForThisSync, Reserved, Drained
<1>6. Boundaries'
  BY <1>1, <1>3 DEF Ring, Boundaries, Boundary
<1>7. Since' = Since
  BY <1>1 DEF Since, Pushed
<1>8. Lap'
  BY <1>1, <1>7 DEF Ring, Lap, ToEnd, Straight, Around, Ahead, Idle
<1>9. Room'
  <2>1. Held' = 0 /\ Held = mcmd.size
    BY <1>1 DEF Held
  <2>. QED
    BY <1>1, <2>1, Numbers, QueueAssumption DEF Ring, Room
<1>. QED
  BY <1>5, <1>6, <1>8, <1>9 DEF Ring

LEMMA PushRing ==
  ASSUME RoomForTwo, Typed, Ring, PushCommand
  PROVE  Ring'
<1> DEFINE n == mcmd.size
<1>1. /\ readPtr' = readPtr /\ writePtr' = writePtr + n /\ gread' = gread /\ gwrite' = gwrite
      /\ gpc' = gpc /\ signaled' = signaled /\ fifo' = fifo
      /\ mcmd' = mcmd /\ mpc' = "pushed" /\ mpc = "push"
  BY DEF PushCommand, syncVars, gpuVars
<1>2. ~signaled /\ n \in Nat /\ (mcmd = SyncCommand => n = SyncSize)
  BY <1>1, NotSignalled, Numbers, CommandFact DEF Pushed
<1>3. Since' = Since + n
  <2>1. Since = sinceSync
    BY <1>1, AllocatingFact DEF Allocating
  <2>2. mcmd = SyncCommand => Since' = Since + n
    BY <1>1, <1>2, <2>1, CommandFact DEF Since, Pushed, PushCommand
  <2>3. mcmd \in Drawing => Since' = Since + n
    BY <1>1, <2>1, CommandFact, Numbers DEF Since, Pushed, PushCommand, RoomForTwo
  <2>. QED
    BY <1>1, <2>2, <2>3 DEF Typed, Holding, Allocating
<1>4. SyncInRing'
  BY <1>1, <1>2 DEF Ring, SyncInRing, Pushed
<1>5. SignalIsForThisSync' /\ Reserved' /\ Drained'
  BY <1>1, <1>2 DEF SignalIsForThisSync, Reserved, Drained
<1>6. /\ fifo[writePtr] \in {mcmd, NoCommand}
      /\ \A o \in Offsets : writePtr < o /\ o < writePtr + n => fifo[o] = NoCommand
      /\ writePtr < readPtr => writePtr + n < readPtr
  BY <1>1 DEF Ring, Reserved
<1>7. Boundary(writePtr)'
  <2>. SUFFICES ASSUME NEW o \in Offsets, fifo[o] # NoCommand, o < writePtr + n,
                       writePtr + n < o + fifo[o].size
                PROVE  FALSE
    BY <1>1 DEF Boundary
  <2>1. fifo[o].size \in Nat /\ o \in Nat
    BY CommandFact, OffsetIsByte DEF Typed, TypeOK
  <2>2. CASE o < writePtr
    <3>1. ~(o < writePtr /\ writePtr < o + fifo[o].size)
      BY DEF Ring, Boundaries, Boundary
    <3>. HIDE DEF n
    <3>. QED
      BY <1>2, <2>1, <2>2, <3>1, Numbers
  <2>3. CASE o = writePtr
    <3>1. fifo[o].size = n
      BY <1>6, <2>3
    <3>. HIDE DEF n
    <3>. QED
      BY <1>2, <2>3, <3>1, Numbers
  <2>4. CASE writePtr < o
    BY <1>6, <2>4
  <2>. QED
    BY <2>1, <2>2, <2>3, <2>4, Numbers
<1>8. gpc' = "batch" => Boundary(gwrite)'
  BY <1>1 DEF Ring, Boundaries, Boundary
<1>9. Lap'
  <2>. HIDE DEF n
  <2>. QED
    BY <1>1, <1>2, <1>3, <1>6, Numbers DEF Ring, Lap, ToEnd, Straight, Around, Ahead, Idle
<1>10. Room'
  <2>1. Held = n /\ Held' = 0
    BY <1>1 DEF Held
  <2>. HIDE DEF n
  <2>. QED
    BY <1>1, <1>2, <1>6, <2>1, Numbers DEF Ring, Room
<1>. QED
  BY <1>4, <1>5, <1>7, <1>8, <1>9, <1>10 DEF Ring, Boundaries

\* Sync returns: all that was pushed has been executed.
LEMMA ResetRing ==
  ASSUME Typed, Ring, SyncReset
  PROVE  Ring'
<1>1. /\ UNCHANGED <<fifo, readPtr, writePtr, gread, gwrite, gpc>> /\ ~signaled'
      /\ sinceSync' = 0 /\ mcmd' = NoCommand
      /\ mpc = "sync_reset" /\ mpc' \in {"stop", "idle"}
  BY DEF SyncReset, ResetEvent, ringVars, gpuVars
<1>2. \A o \in Offsets : fifo[o].type # "sync"
  BY <1>1, NoSyncInRing DEF Pushed
<1>3. SyncInRing' /\ SignalIsForThisSync' /\ Reserved' /\ Drained'
  BY <1>1, <1>2 DEF SyncInRing, SignalIsForThisSync, Reserved, Drained
<1>4. Boundaries'
  BY <1>1 DEF Ring, Boundaries, Boundary
<1>5. Since' = 0 /\ Held' = 0 /\ Held = 0
  BY <1>1 DEF Since, Pushed, Held
<1>6. IF gpc = "batch" THEN gread = writePtr /\ gwrite = writePtr ELSE readPtr = writePtr
  BY <1>1 DEF Ring, Drained
<1>7. Lap'
  BY <1>1, <1>5, <1>6, Numbers DEF Ring, Lap, ToEnd, Straight, Around, Ahead, Idle
<1>8. Room'
  BY <1>1, <1>5 DEF Ring, Room
<1>. QED
  BY <1>3, <1>4, <1>7, <1>8 DEF Ring

Fresh ==
  /\ fifo = [o \in Offsets |-> NoCommand] /\ readPtr = 0 /\ writePtr = 0
  /\ ~signaled /\ mpc = "idle" /\ mcmd = NoCommand /\ sinceSync = 0 /\ gpc # "batch"

LEMMA NewRing == RoomForTwo /\ Fresh => Ring
<1>. SUFFICES ASSUME RoomForTwo, Fresh PROVE Ring
  OBVIOUS
<1>. USE DEF Fresh
<1>1. Since = 0 /\ Held = 0
  BY DEF Since, Held, Pushed
<1>2. SyncInRing /\ SignalIsForThisSync /\ Reserved /\ Boundaries /\ Drained
  BY CommandFact
     DEF SyncInRing, SignalIsForThisSync, Reserved, Boundaries, Boundary, Drained
<1>3. Lap
  BY <1>1 DEF Lap, Idle, Ahead
<1>4. Room
  BY <1>1, QueueAssumption, AlignedIsPositive DEF Room, HeaderSize, RoomForTwo
<1>. QED
  BY <1>2, <1>3, <1>4 DEF Ring

LEMMA MainRing ==
  ASSUME RoomForTwo, Typed, Ring, MainCall \/ MainStep
  PROVE  Ring'
<1>1. CASE MainCall
  <2>1. /\ Still /\ mpc = "idle" /\ mpc' \in {"idle", "alloc", "stop", "gone"}
    <3>1. ASSUME NEW cmd \in Drawing, NewCommand(cmd) PROVE <2>1!:
      BY <3>1 DEF NewCommand, Still, ringVars, syncVars, gpuVars
    <3>2. ASSUME NEW op \in {"none", "disable"}, Sync(op) PROVE <2>1!:
      BY <3>2 DEF Sync, Still, ringVars, syncVars, gpuVars
    <3>3. CASE StartGPUThread
      BY <3>3 DEF StartGPUThread, Still, ringVars, mainVars, Typed, ThreadInUse
    <3>4. CASE Shutdown
      BY <3>4 DEF Shutdown, Still, ringVars, syncVars, gpuVars
    <3>. QED
      BY <1>1, <3>1, <3>2, <3>3, <3>4 DEF MainCall
  <2>. QED
    BY <2>1, Numbers, CallRing
<1>2. CASE AllocateCommand \/ FullAllocate
  BY <1>2, AllocateRing
<1>3. CASE AllocateDummy
  BY <1>3, DummyRing
<1>4. CASE AllocateFull \/ FullWake \/ FullReload
  <2>1. /\ Still /\ mcmd' = mcmd /\ mpc' \in {"full", "reload"}
        /\ mpc \in {"full", "reload"} \/ (mpc = "alloc" /\ writePtr < readPtr)
    BY <1>4, Numbers
       DEF AllocateFull, FullWake, FullReload, Wake, WakeGPUThread, MainGoto, Still,
           ringVars, syncVars, gpuVars
  <2>. QED
    BY <2>1, Numbers, FullRing
<1>5. CASE AbandonCommand \/ PushNonThreaded
  BY <1>5, AbandonRing
<1>6. CASE PushCommand
  BY <1>6, PushRing
<1>7. CASE PushCheckPending \/ PushWake \/ SyncWake \/ SyncWait
  <2>1. AfterPush \in {"sync_wake", "idle"} /\ (AfterPush = "idle" => mcmd # SyncCommand)
    BY CommandFact DEF AfterPush
  <2>2. Still /\ mcmd' = mcmd /\ mpc \in Pushed
    BY <1>7
       DEF PushCheckPending, PushWake, SyncWake, SyncWait, Wake, WakeGPUThread, MainGoto,
           Still, ringVars, syncVars, gpuVars, Pushed
  <2>3. mpc' \in Pushed \cup {"sync_reset"} \/ mpc' = AfterPush
    BY <1>7 DEF PushCheckPending, PushWake, SyncWake, SyncWait, Wake, MainGoto, Pushed
  <2>4. mpc' = "sync_reset" => signaled
    BY <1>7, <2>1 DEF PushCheckPending, PushWake, SyncWake, SyncWait, Wake, MainGoto
  <2>. QED
    BY <2>1, <2>2, <2>3, <2>4, PushedRing DEF Pushed
<1>8. CASE SyncReset
  BY <1>8, ResetRing
<1>9. CASE StopSetDone \/ StopWake \/ StopJoin
  <2>1. /\ Still /\ mpc \in {"stop", "stop_wake", "stop_join"}
        /\ mpc' \in {"stop_wake", "stop_join", "gone", "idle"}
    BY <1>9
       DEF StopSetDone, StopWake, StopJoin, Wake, WakeGPUThread, Still, ringVars, syncVars,
           gpuVars
  <2>. QED
    BY <2>1, Numbers, CallRing
<1>10. CASE Recreate
  <2>1. (RoomForTwo /\ Fresh)'
    BY <1>10 DEF Recreate, Fresh, RoomForTwo
  <2>. QED
    BY <2>1, NewRing, PTL
<1>. QED
  BY <1>1, <1>2, <1>3, <1>4, <1>5, <1>6, <1>7, <1>8, <1>9, <1>10 DEF MainStep

-----------------------------------------------------------------------------
(* The GPU thread's batch.                                                 *)

LEMMA BeginRing ==
  ASSUME RoomForTwo, Typed, Ring, BeginBatch
  PROVE  Ring'
<1>1. /\ UNCHANGED <<fifo, readPtr, writePtr, signaled, sinceSync, mcmd, mpc>>
      /\ gread' = readPtr /\ gwrite' = BatchEnd /\ gpc' = "batch" /\ gpc = "load"
      /\ readPtr # writePtr
  BY DEF BeginBatch, ringVars, syncVars, mainVars
<1>2. Since' = Since /\ Held' = Held
  BY <1>1 DEF Since, Held
<1>3. ~signaled /\ mpc # "sync_reset"
  BY <1>1 DEF Ring, Drained
<1>4. SyncInRing' /\ SignalIsForThisSync' /\ Reserved' /\ Drained'
  BY <1>1, <1>3 DEF Ring, SyncInRing, SignalIsForThisSync, Reserved, Drained
<1>5. Boundary(writePtr) /\ Boundary(QueueSize)
  <2>1. \A o \in Offsets : fifo[o] # NoCommand => o + fifo[o].size <= QueueSize
    BY Numbers, CommandFact, OffsetIsByte DEF Typed, TypeOK, Placed, Within
  <2>. QED
    BY <2>1, Numbers, CommandFact, OffsetIsByte
       DEF Ring, Boundaries, Boundary, Typed, TypeOK
<1>6. Boundaries'
  BY <1>1, <1>5 DEF Boundaries, Boundary, BatchEnd
<1>7. Lap'
  BY <1>1, <1>2, Numbers
     DEF Ring, Lap, ToEnd, Straight, Around, Ahead, Idle, BatchEnd
<1>8. Room'
  BY <1>1, <1>2 DEF Ring, Room
<1>. QED
  BY <1>4, <1>6, <1>7, <1>8 DEF Ring

\* The batch reaches the dummy command: it is the last of the ring.
LEMMA WrapRing ==
  ASSUME RoomForTwo, Typed, Ring, WrapBatch
  PROVE  Ring'
<1>1. /\ UNCHANGED <<readPtr, writePtr, signaled, sinceSync, mcmd, mpc>>
      /\ gread' = 0 /\ gwrite' = writePtr /\ gpc' = "batch" /\ gpc = "batch"
      /\ gread < gwrite /\ fifo[gread].type = "wraparound"
  BY DEF WrapBatch, syncVars, mainVars, InBatch, Current
<1>2. Since' = Since /\ Held' = Held
  BY <1>1 DEF Since, Held
<1>3. gread + fifo[gread].size = QueueSize /\ fifo[gread] # NoCommand
  BY <1>1, Numbers, CommandFact DEF Typed, Placed, Within
<1>4. gwrite = QueueSize
  BY <1>1, <1>3, Numbers DEF Ring, Boundaries, Boundary
<1>5. ToEnd /\ Ahead(0)
  BY <1>1, <1>4, Numbers DEF Ring, Lap, Straight, Around
<1>6. ~signaled /\ mpc # "sync_reset"
  BY <1>1, <1>4, Numbers DEF Ring, Drained
<1>7. \A o \in Offsets : fifo'[o] \in {fifo[o], NoCommand}
  BY Numbers, FewerCommands DEF WrapBatch
<1>8. SyncInRing' /\ SignalIsForThisSync' /\ Drained'
  BY <1>1, <1>6, <1>7, CommandFact DEF Ring, SyncInRing, SignalIsForThisSync, Drained
<1>9. Reserved'
  BY <1>1, <1>7, Numbers DEF Ring, Reserved
<1>10. Boundary(writePtr)'
  BY <1>1, <1>7 DEF Ring, Boundaries, Boundary
<1>11. Boundaries'
  BY <1>1, <1>10 DEF Boundaries, Boundary
<1>12. Lap'
  BY <1>1, <1>2, <1>5, Numbers DEF Lap, ToEnd, Straight, Around, Ahead, Idle
<1>13. Room'
  BY <1>1, <1>2 DEF Ring, Room
<1>. QED
  BY <1>8, <1>9, <1>11, <1>12, <1>13 DEF Ring

\* What a command in the batch needs: it ends in the batch.
LEMMA ExecuteRing ==
  ASSUME Typed, Ring, NEW type \in {"draw", "sync"}, InBatch(type), Forget(gread),
         UNCHANGED <<readPtr, writePtr, sinceSync, mcmd, mpc, gpc, gwrite>>,
         gread' = gread + Current.size
  PROVE  /\ gread' <= gwrite
         /\ \A o \in Offsets : fifo'[o] \in {fifo[o], NoCommand}
         /\ fifo'[gread] = NoCommand
         /\ ~signaled /\ mpc # "sync_reset"
         /\ Reserved' /\ Boundaries' /\ Lap' /\ Room'
<1>1. /\ gpc = "batch" /\ gread < gwrite /\ fifo[gread].type = type
      /\ fifo[gread] # NoCommand /\ Current.size \in Nat
  BY Numbers, CommandFact DEF InBatch, Current, Typed, TypeOK
<1>2. gread' <= gwrite /\ gread' >= gread
  BY <1>1, Numbers DEF Ring, Boundaries, Boundary, Current
<1>3. ~signaled /\ mpc # "sync_reset"
  BY <1>1, Numbers DEF Ring, Drained
<1>4. /\ \A o \in Offsets : fifo'[o] \in {fifo[o], NoCommand}
      /\ fifo'[gread] = NoCommand
  BY Numbers, FewerCommands DEF Forget, Typed, TypeOK
<1>5. Reserved'
  BY <1>4, Numbers DEF Ring, Reserved
<1>6. Boundaries'
  BY <1>4 DEF Ring, Boundaries, Boundary
<1>7. Since' = Since /\ Held' = Held
  BY DEF Since, Held
<1>8. Lap'
  BY <1>1, <1>2, <1>7, Numbers DEF Ring, Lap, ToEnd, Straight, Around, Ahead, Idle
<1>9. Room'
  BY <1>7 DEF Ring, Room
<1>. QED
  BY <1>2, <1>3, <1>4, <1>5, <1>6, <1>8, <1>9

LEMMA HandleRing ==
  ASSUME RoomForTwo, Typed, Ring, HandleCommand
  PROVE  Ring'
<1>1. /\ UNCHANGED <<readPtr, writePtr, sinceSync, mcmd, mpc, gpc, gwrite, signaled>>
      /\ InBatch("draw") /\ Forget(gread) /\ gread' = gread + Current.size
  BY DEF HandleCommand, syncVars, mainVars
<1>2. /\ \A o \in Offsets : fifo'[o] \in {fifo[o], NoCommand}
      /\ ~signaled /\ mpc # "sync_reset"
      /\ Reserved' /\ Boundaries' /\ Lap' /\ Room'
  BY <1>1, ExecuteRing
<1>3. SyncInRing' /\ SignalIsForThisSync' /\ Drained'
  BY <1>1, <1>2, CommandFact DEF Ring, SyncInRing, SignalIsForThisSync, Drained
<1>. QED
  BY <1>2, <1>3 DEF Ring

\* The command of a Sync is the last of all.
LEMMA SignalRing ==
  ASSUME RoomForTwo, Typed, Ring, SignalSync
  PROVE  Ring'
<1>1. /\ UNCHANGED <<readPtr, writePtr, sinceSync, mcmd, mpc, gpc, gwrite>>
      /\ InBatch("sync") /\ Forget(gread) /\ gread' = gread + Current.size
      /\ signaled' = TRUE
  BY DEF SignalSync, mainVars
<1>2. /\ gread' <= gwrite
      /\ \A o \in Offsets : fifo'[o] \in {fifo[o], NoCommand}
      /\ fifo'[gread] = NoCommand
      /\ ~signaled /\ mpc # "sync_reset"
      /\ Reserved' /\ Boundaries' /\ Lap' /\ Room'
  BY <1>1, ExecuteRing
<1>3. gpc = "batch" /\ gread < gwrite /\ fifo[gread] = SyncCommand /\ Current = fifo[gread]
  BY <1>1, Numbers, CommandFact DEF InBatch, Current, Typed, TypeOK
<1>4. /\ mcmd = SyncCommand
      /\ \/ mpc = "push" /\ gread = writePtr
         \/ mpc \in Pushed /\ gread + SyncSize = writePtr
  BY <1>3, Numbers, CommandFact DEF Ring, SyncInRing
<1>5. gread # writePtr
  BY <1>3, Numbers DEF Ring, Lap, ToEnd, Straight, Around
<1>6. mpc \in Pushed /\ gread' = writePtr
  BY <1>1, <1>3, <1>4, <1>5, CommandFact
<1>7. gwrite = writePtr
  BY <1>1, <1>2, <1>3, <1>6, Numbers DEF Ring, Lap, ToEnd, Straight, Around
<1>8. \A o \in Offsets : fifo'[o].type # "sync"
  <2>. SUFFICES ASSUME NEW o \in Offsets, fifo'[o].type = "sync" PROVE FALSE
    OBVIOUS
  <2>1. fifo[o].type = "sync" /\ o # gread
    BY <1>2, CommandFact
  <2>2. mpc # "push"
    BY <1>6 DEF Pushed
  <2>3. o + SyncSize = writePtr /\ gread + SyncSize = writePtr
    BY <1>4, <1>5, <2>1, <2>2 DEF Ring, SyncInRing
  <2>. QED
    BY <2>1, <2>3, Numbers, OffsetIsByte
<1>9. SyncInRing' /\ SignalIsForThisSync' /\ Drained'
  BY <1>1, <1>3, <1>4, <1>6, <1>7, <1>8 DEF SyncInRing, SignalIsForThisSync, Drained, Pushed
<1>. QED
  BY <1>2, <1>9 DEF Ring

\* The emulation thread gets back the bytes of the batch.
LEMMA EndRing ==
  ASSUME RoomForTwo, Typed, Ring, EndBatch
  PROVE  Ring'
<1>1. /\ UNCHANGED <<fifo, writePtr, signaled, sinceSync, mcmd, mpc>>
      /\ readPtr' = gread /\ gpc' = "load" /\ gpc = "batch" /\ gread >= gwrite
  BY DEF EndBatch, syncVars, mainVars
<1>2. Since' = Since /\ Held' = Held
  BY <1>1 DEF Since, Held
<1>3. SyncInRing' /\ SignalIsForThisSync'
  BY <1>1 DEF Ring, SyncInRing, SignalIsForThisSync
<1>4. Drained'
  BY <1>1 DEF Ring, Drained
<1>5. ~ToEnd
  BY <1>1, Numbers DEF ToEnd
<1>6. writePtr < gread => writePtr < readPtr /\ readPtr <= gread
  BY <1>1, <1>5, Numbers DEF Ring, Lap, Straight, Around
<1>7. Reserved'
  BY <1>1, <1>6, Numbers DEF Ring, Reserved
<1>8. Boundaries'
  BY <1>1 DEF Ring, Boundaries, Boundary
<1>9. Lap'
  BY <1>1, <1>2, <1>5, Numbers DEF Ring, Lap, Straight, Around, Ahead, Idle
<1>10. Room'
  <2>. SUFFICES ASSUME gread <= writePtr PROVE writePtr + Held + HeaderSize <= QueueSize
    BY <1>1, <1>2 DEF Room
  <2>1. CASE readPtr <= writePtr
    BY <2>1 DEF Ring, Room
  <2>2. CASE writePtr < readPtr
    <3>1. writePtr <= SyncBudget + SyncSize + Since
      BY <1>1, <1>5, <2>2, Numbers DEF Ring, Lap, Straight, Around, Ahead
    <3>2. Held \in Nat /\ Since + Held <= SyncBudget + SyncSize
      BY Numbers, AllocatingFact DEF Held, Allocating
    <3>. QED
      BY <3>1, <3>2, Numbers DEF RoomForTwo
  <2>. QED
    BY <2>1, <2>2, Numbers
<1>. QED
  BY <1>3, <1>4, <1>7, <1>8, <1>9, <1>10 DEF Ring

LEMMA RingNextStep == ASSUME RoomForTwo, Typed, Ring, [Next]_vars PROVE Ring'
<1>1. CASE MainCall \/ MainStep
  BY <1>1, MainRing
<1>2. CASE BeginBatch \/ WrapBatch \/ SignalSync \/ HandleCommand \/ EndBatch
  BY <1>2, BeginRing, WrapRing, SignalRing, HandleRing, EndRing
<1>3. CASE StopSpinning \/ LockToSleep \/ FallAsleep \/ StayAwake \/ Relock \/ LoopOrExit
           \/ SpuriousWakeup
  <2>1. Still /\ UNCHANGED mainVars
    BY <1>3
       DEF StopSpinning, LockToSleep, FallAsleep, StayAwake, Relock, LoopOrExit, SpuriousWakeup,
           GPUGoto, Still, ringVars, mainVars
  <2>. QED
    BY <2>1, ThreadRing
<1>4. CASE UNCHANGED vars
  BY <1>4, ThreadRing DEF Still, vars, ringVars, syncVars, mainVars, gpuVars
<1>. QED
  BY <1>1, <1>2, <1>3, <1>4 DEF Next, GPUStep

-----------------------------------------------------------------------------
(* Finite sets in the order of a measure.                                  *)

Smaller(S, d, o) == {p \in S : d[p] < d[o]}

\* What f has at the elements of S, in their order.
InOrder(S, d, f) ==
  [i \in 1 .. Cardinality(S) |-> f[CHOOSE o \in S : Cardinality(Smaller(S, d, o)) = i - 1]]

Measured(S, d) ==
  /\ IsFiniteSet(S) /\ S \subseteq DOMAIN d
  /\ \A o \in S : d[o] \in Nat
  /\ \A o, p \in S : d[o] = d[p] => o = p

\* Each place in the order is taken by one element.
LEMMA Places ==
  ASSUME NEW S, NEW d, Measured(S, d), NEW i \in 1 .. Cardinality(S)
  PROVE  \E o \in S : /\ Cardinality(Smaller(S, d, o)) = i - 1
                      /\ \A p \in S : Cardinality(Smaller(S, d, p)) = i - 1 => p = o
<1> DEFINE Rank(o) == Cardinality(Smaller(S, d, o))
           n == Cardinality(S)
           T == 0 .. n - 1
           r == [o \in S |-> Rank(o)]
<1>1. n \in Nat /\ IsFiniteSet(T) /\ Cardinality(T) = n
  <2>1. n \in Nat
    BY FS_CardinalityType DEF Measured
  <2>. HIDE DEF n
  <2>2. 0 \in Int /\ n - 1 \in Int /\ (0 > n - 1 => n = 0)
    BY <2>1
  <2>3. IsFiniteSet(0 .. n - 1) /\ Cardinality(0 .. n - 1) = IF 0 > n - 1 THEN 0 ELSE n - 1 - 0 + 1
    BY <2>2, FS_Interval
  <2>. QED
    BY <2>1, <2>2, <2>3
<1>2. ASSUME NEW o \in S
      PROVE  /\ IsFiniteSet(Smaller(S, d, o)) /\ Rank(o) \in T
             /\ \A p \in S : d[p] < d[o] => Rank(p) < Rank(o)
  <2>1. Smaller(S, d, o) \in SUBSET S
    BY DEF Smaller
  <2>2. IsFiniteSet(Smaller(S, d, o)) /\ Rank(o) \in Nat
    BY <2>1, FS_Subset, FS_CardinalityType DEF Measured
  <2>3. o \notin Smaller(S, d, o)
    BY DEF Smaller, Measured
  <2>4. Rank(o) < n
    BY <1>1, <2>1, <2>2, <2>3, FS_Subset DEF Measured
  <2>5. ASSUME NEW p \in S, d[p] < d[o] PROVE Rank(p) < Rank(o)
    <3>1. Smaller(S, d, p) \in SUBSET Smaller(S, d, o)
      BY <2>5 DEF Smaller, Measured
    <3>2. p \in Smaller(S, d, o) /\ p \notin Smaller(S, d, p)
      BY <2>5 DEF Smaller, Measured
    <3>3. /\ IsFiniteSet(Smaller(S, d, p)) /\ Rank(p) \in Nat /\ Rank(p) <= Rank(o)
          /\ Rank(p) # Rank(o)
      BY <2>2, <3>1, <3>2, FS_Subset, FS_CardinalityType
    <3>. QED
      BY <2>2, <3>3
  <2>. QED
    BY <1>1, <2>2, <2>4, <2>5
<1>3. ASSUME NEW o \in S, NEW p \in S, Rank(o) = Rank(p) PROVE o = p
  <2>. SUFFICES ASSUME o # p PROVE FALSE
    OBVIOUS
  <2>1. Rank(o) \in T /\ Rank(p) \in T
    BY <1>2
  <2>2. d[o] < d[p] \/ d[p] < d[o]
    BY DEF Measured
  <2>. HIDE DEF Rank
  <2>. QED
    BY <1>1, <1>2, <1>3, <2>1, <2>2
<1>. HIDE DEF Rank
<1>4. r \in Injection(S, T)
  BY <1>2, <1>3 DEF Injection, IsInjective
<1>5. r \in Surjection(S, T)
  BY <1>1, <1>4, FS_Injection DEF Measured
<1>6. PICK o \in S : r[o] = i - 1
  <2>1. i - 1 \in T
    BY <1>1
  <2>. QED
    BY <1>5, <2>1 DEF Surjection
<1>7. Rank(o) = i - 1 /\ \A p \in S : Rank(p) = i - 1 => p = o
  BY <1>3, <1>6
<1>. QED
  BY <1>7 DEF Rank

\* The element at a place.
LEMMA AtPlace ==
  ASSUME NEW S, NEW d, NEW f, Measured(S, d), NEW o \in S, NEW i \in 1 .. Cardinality(S),
         Cardinality(Smaller(S, d, o)) = i - 1
  PROVE  InOrder(S, d, f)[i] = f[o]
<1>1. PICK x \in S : /\ Cardinality(Smaller(S, d, x)) = i - 1
                     /\ \A p \in S : Cardinality(Smaller(S, d, p)) = i - 1 => p = x
  BY Places
<1>2. (CHOOSE p \in S : Cardinality(Smaller(S, d, p)) = i - 1) = o
  BY <1>1
<1>. QED
  BY <1>2 DEF InOrder

\* The sequence has one entry for each element.
LEMMA InOrderSeq ==
  ASSUME NEW S, NEW d, NEW f, Measured(S, d), NEW V, \A o \in S : f[o] \in V
  PROVE  /\ InOrder(S, d, f) \in Seq(V)
         /\ Len(InOrder(S, d, f)) = Cardinality(S)
         /\ Cardinality(S) \in Nat
<1> DEFINE n == Cardinality(S)
           s == InOrder(S, d, f)
<1>1. n \in Nat
  BY FS_CardinalityType DEF Measured
<1>2. ASSUME NEW i \in 1 .. n PROVE s[i] \in V
  <2>1. PICK o \in S : Cardinality(Smaller(S, d, o)) = i - 1
    BY Places
  <2>2. s[i] = f[o]
    BY <2>1, AtPlace
  <2>. QED
    BY <2>2
<1>3. s = [i \in 1 .. n |-> s[i]]
  BY DEF InOrder
<1>. HIDE DEF s, n
<1>4. s \in [1 .. n -> V]
  BY <1>2, <1>3
<1>5. s \in Seq(V) /\ Len(s) = n
  BY <1>1, <1>4
<1>. QED
  BY <1>1, <1>5 DEF s, n

\* Only the order counts, not the measure.
LEMMA InOrderSame ==
  ASSUME NEW S, NEW d, NEW e, NEW f, NEW g, Measured(S, d), Measured(S, e),
         \A o, p \in S : d[p] < d[o] <=> e[p] < e[o],
         \A o \in S : f[o] = g[o]
  PROVE  InOrder(S, d, f) = InOrder(S, e, g)
<1>1. ASSUME NEW i \in 1 .. Cardinality(S) PROVE InOrder(S, d, f)[i] = InOrder(S, e, g)[i]
  <2>1. PICK o \in S : Cardinality(Smaller(S, d, o)) = i - 1
    BY Places
  <2>2. Smaller(S, d, o) = Smaller(S, e, o)
    BY DEF Smaller
  <2>3. InOrder(S, d, f)[i] = f[o] /\ InOrder(S, e, g)[i] = g[o]
    BY <2>1, <2>2, AtPlace
  <2>. QED
    BY <2>3
<1>2. /\ InOrder(S, d, f) = [i \in 1 .. Cardinality(S) |-> InOrder(S, d, f)[i]]
      /\ InOrder(S, e, g) = [i \in 1 .. Cardinality(S) |-> InOrder(S, e, g)[i]]
  BY DEF InOrder
<1>. QED
  BY <1>1, <1>2

\* A last element is appended.
LEMMA InOrderLast ==
  ASSUME NEW S, NEW x, NEW d, NEW f, Measured(S \cup {x}, d), x \notin S,
         \A o \in S : d[o] < d[x]
  PROVE  InOrder(S \cup {x}, d, f) = Append(InOrder(S, d, f), f[x])
<1> DEFINE X == S \cup {x}
           V == {f[o] : o \in X}
           n == Cardinality(S)
           s == InOrder(S, d, f)
           t == InOrder(X, d, f)
<1>1. IsFiniteSet(S) /\ Measured(S, d)
  BY FS_Subset DEF Measured
<1>2. n \in Nat /\ Cardinality(X) = n + 1
  BY <1>1, FS_AddElement, FS_CardinalityType
<1>3. s \in Seq(V) /\ Len(s) = n
  <2>1. \A o \in S : f[o] \in V
    OBVIOUS
  <2>. HIDE DEF V
  <2>. QED
    BY <1>1, <2>1, InOrderSeq
<1>4. t \in Seq(V) /\ Len(t) = n + 1
  <2>1. \A o \in X : f[o] \in V
    OBVIOUS
  <2>. HIDE DEF V
  <2>. QED
    BY <1>2, <2>1, InOrderSeq
<1>5. /\ Append(s, f[x]) \in Seq(V) /\ Len(Append(s, f[x])) = n + 1
      /\ \A i \in 1 .. n : Append(s, f[x])[i] = s[i]
      /\ Append(s, f[x])[n + 1] = f[x]
  BY <1>3, AppendProperties
<1>6. t[n + 1] = f[x]
  <2>1. Smaller(X, d, x) = S
    BY DEF Smaller, Measured
  <2>2. n + 1 \in 1 .. Cardinality(X) /\ Cardinality(Smaller(X, d, x)) = (n + 1) - 1
    BY <1>2, <2>1
  <2>. QED
    BY <2>2, AtPlace
<1>7. ASSUME NEW i \in 1 .. n PROVE t[i] = s[i]
  <2>1. PICK o \in S : Cardinality(Smaller(S, d, o)) = i - 1
    BY <1>1, Places
  <2>2. Smaller(X, d, o) = Smaller(S, d, o)
    BY DEF Smaller, Measured
  <2>3. i \in 1 .. Cardinality(X)
    BY <1>2
  <2>4. s[i] = f[o]
    BY <1>1, <2>1, AtPlace
  <2>5. t[i] = f[o]
    BY <2>1, <2>2, <2>3, AtPlace
  <2>. QED
    BY <2>4, <2>5
<1>8. \A i \in 1 .. n + 1 : t[i] = Append(s, f[x])[i]
  <2>. HIDE DEF s, t, n
  <2>1. \A i \in 1 .. n + 1 : i \in 1 .. n \/ i = n + 1
    BY <1>2
  <2>. QED
    BY <1>5, <1>6, <1>7, <2>1
<1>. HIDE DEF s, t, n
<1>9. t = Append(s, f[x])
  BY <1>4, <1>5, <1>8, SeqEqual
<1>. QED
  BY <1>9 DEF s, t

\* Only the first element x of S is not in R.
AfterFirst(S, x, R, d) == x \in S /\ R = S \ {x} /\ \A o \in R : d[x] < d[o]

\* The sequence t is what is left of s without its head e.
Headed(s, e, t) == s # <<>> /\ Head(s) = e /\ Tail(s) = t

\* A first element is the head.
LEMMA InOrderFirst ==
  ASSUME NEW S, NEW x, NEW R, NEW d, NEW f, Measured(S, d), AfterFirst(S, x, R, d)
  PROVE  Headed(InOrder(S, d, f), f[x], InOrder(R, d, f))
<1> DEFINE V == {f[o] : o \in S}
           n == Cardinality(R)
           s == InOrder(S, d, f)
           t == InOrder(R, d, f)
<1>. USE DEF AfterFirst
<1>1. IsFiniteSet(R) /\ Measured(R, d) /\ IsFiniteSet(S)
  BY FS_Subset DEF Measured
<1>2. n \in Nat /\ Cardinality(S) = n + 1
  BY <1>1, FS_RemoveElement, FS_CardinalityType
<1>3. t \in Seq(V) /\ Len(t) = n
  <2>1. \A o \in R : f[o] \in V
    OBVIOUS
  <2>. HIDE DEF V
  <2>. QED
    BY <1>1, <2>1, InOrderSeq
<1>4. s \in Seq(V) /\ Len(s) = n + 1
  <2>1. \A o \in S : f[o] \in V
    OBVIOUS
  <2>. HIDE DEF V
  <2>. QED
    BY <1>2, <2>1, InOrderSeq
<1>5. s[1] = f[x]
  <2>1. Smaller(S, d, x) = {}
    BY DEF Smaller, Measured
  <2>2. 1 \in 1 .. Cardinality(S) /\ Cardinality(Smaller(S, d, x)) = 1 - 1
    BY <1>2, <2>1, FS_EmptySet
  <2>. QED
    BY <2>2, AtPlace
<1>6. ASSUME NEW i \in 1 .. n PROVE t[i] = s[i + 1]
  <2>1. PICK o \in R : Cardinality(Smaller(R, d, o)) = i - 1
    BY <1>1, Places
  <2>2. /\ Smaller(S, d, o) = Smaller(R, d, o) \cup {x} /\ x \notin Smaller(R, d, o)
        /\ Smaller(R, d, o) \in SUBSET R
    BY DEF Smaller, Measured
  <2>3. Cardinality(Smaller(S, d, o)) = (i - 1) + 1
    <3>1. IsFiniteSet(Smaller(R, d, o))
      BY <1>1, <2>2, FS_Subset
    <3>2. Cardinality(Smaller(R, d, o) \cup {x}) = Cardinality(Smaller(R, d, o)) + 1
      BY <2>2, <3>1, FS_AddElement
    <3>. QED
      BY <2>1, <2>2, <3>2
  <2>4. i + 1 \in 1 .. Cardinality(S) /\ (i - 1) + 1 = (i + 1) - 1
    BY <1>2
  <2>5. t[i] = f[o]
    BY <1>1, <2>1, AtPlace
  <2>6. s[i + 1] = f[o]
    BY <2>3, <2>4, AtPlace
  <2>. QED
    BY <2>5, <2>6
<1>. HIDE DEF s, t, n
<1>7. s # <<>>
  BY <1>2, <1>4, EmptySeq
<1>8. Head(s) = s[1]
  BY <1>4, <1>7, HeadTailProperties
<1>9. /\ Tail(s) \in Seq(V) /\ Len(Tail(s)) = n
      /\ \A i \in 1 .. n : Tail(s)[i] = s[i + 1]
  <2>1. /\ Tail(s) \in Seq(V) /\ Len(Tail(s)) = Len(s) - 1
        /\ \A i \in 1 .. Len(Tail(s)) : Tail(s)[i] = s[i + 1]
    BY <1>4, <1>7, HeadTailProperties
  <2>2. Len(s) - 1 = n
    BY <1>2, <1>4
  <2>. QED
    BY <2>1, <2>2
<1>10. Tail(s) = t
  BY <1>3, <1>6, <1>9, SeqEqual
<1>. QED
  BY <1>5, <1>7, <1>8, <1>10 DEF s, t, Headed

-----------------------------------------------------------------------------
(* A ring f in which commands wait from p up to w.                         *)

Dist(p, o) == IF o >= p THEN o - p ELSE QueueSize - p + o
Far(p) == [o \in Offsets |-> Dist(p, o)]
Successor(f, o) == IF f[o].type = "wraparound" THEN 0 ELSE o + f[o].size

Line(f, p, w) == {o \in Offsets : f[o] # NoCommand /\ Dist(p, o) < Dist(p, w)}
DrawsOf(f, p, w) == {o \in Line(f, p, w) : f[o].type = "draw"}

ChainAt(f, p, w, o) ==
  /\ Successor(f, o) = w \/ Successor(f, o) \in Line(f, p, w)
  /\ Dist(p, Successor(f, o)) = Dist(p, o) + f[o].size
  /\ \A q \in Offsets : o < q /\ q < o + f[o].size => f[q] = NoCommand

Chain(f, p, w) ==
  /\ p = w \/ p \in Line(f, p, w)
  /\ \A o \in Line(f, p, w) : ChainAt(f, p, w, o)

Queue(f, p, w) == InOrder(DrawsOf(f, p, w), Far(p), f)

\* The ring is finite.
LEMMA FiniteRing == IsFiniteSet(Offsets)
<1>1. IsFiniteSet(0 .. QueueSize)
  BY FS_Interval, QueueAssumption
<1>2. Offsets \in SUBSET (0 .. QueueSize)
  BY OffsetIsByte, QueueAssumption
<1>. QED
  BY <1>1, <1>2, FS_Subset

\* Distances are less than a lap, and only p itself is at no distance.
LEMMA DistType ==
  ASSUME NEW p \in Offsets, NEW o \in Offsets
  PROVE  Dist(p, o) \in Nat /\ Dist(p, o) < QueueSize /\ (Dist(p, o) = 0 <=> o = p)
BY OffsetIsByte, QueueAssumption DEF Dist

\* Two offsets are not equally far ahead.
LEMMA DistInjective ==
  ASSUME NEW p \in Offsets, NEW o \in Offsets, NEW q \in Offsets, Dist(p, o) = Dist(p, q)
  PROVE  o = q
BY OffsetIsByte, QueueAssumption DEF Dist

\* Offsets are in order by how far ahead they are.
LEMMA FarMeasured ==
  ASSUME NEW p \in Offsets, NEW S \in SUBSET Offsets
  PROVE  Measured(S, Far(p))
<1>1. IsFiniteSet(S)
  BY FiniteRing, FS_Subset
<1>2. \A o \in Offsets : Far(p)[o] = Dist(p, o)
  BY DEF Far
<1>. QED
  BY <1>1, <1>2, DistType, DistInjective DEF Measured, Far

\* What waits starts in the ring.
LEMMA LineFact ==
  ASSUME NEW f, NEW p, NEW w
  PROVE  Line(f, p, w) \in SUBSET Offsets /\ DrawsOf(f, p, w) \in SUBSET Offsets
BY DEF Line, DrawsOf

\* Nothing waits in a ring that was emptied.
LEMMA NothingWaits ==
  ASSUME NEW f, NEW p \in Offsets, NEW w \in Offsets, DrawsOf(f, p, w) = {}
  PROVE  Queue(f, p, w) = <<>>
<1>1. Measured({}, Far(p))
  BY FarMeasured
<1>2. Queue(f, p, w) \in Seq({f[o] : o \in {}}) /\ Len(Queue(f, p, w)) = Cardinality({})
  BY <1>1, InOrderSeq DEF Queue
<1>. QED
  BY <1>2, FS_EmptySet, EmptySeq

\* What is written where nothing waits makes no difference.
LEMMA SameLine ==
  ASSUME NEW f, NEW g, RingType(f), NEW p \in Offsets, NEW w \in Offsets, Chain(f, p, w),
         \A o \in Line(f, p, w) : g[o] = f[o],
         \A o \in Offsets : g[o] # NoCommand => g[o] = f[o] \/ Dist(p, o) >= Dist(p, w)
  PROVE  /\ Line(g, p, w) = Line(f, p, w) /\ Chain(g, p, w)
         /\ DrawsOf(g, p, w) = DrawsOf(f, p, w) /\ Queue(g, p, w) = Queue(f, p, w)
<1>1. Line(g, p, w) = Line(f, p, w)
  BY DistType DEF Line
<1>2. DrawsOf(g, p, w) = DrawsOf(f, p, w)
  BY <1>1 DEF DrawsOf
<1>3. ASSUME NEW o \in Line(f, p, w) PROVE ChainAt(g, p, w, o)
  <2>1. ChainAt(f, p, w, o) /\ g[o] = f[o] /\ o \in Offsets
    BY LineFact DEF Chain
  <2>2. Successor(g, o) = Successor(f, o)
    BY <2>1 DEF Successor
  <2>3. ASSUME NEW q \in Offsets, o < q, q < o + f[o].size PROVE g[q] = NoCommand
    <3>1. f[q] = NoCommand
      BY <2>1, <2>3 DEF ChainAt
    <3>2. /\ f[o].size \in Nat /\ f[o] # NoCommand
          /\ f[o].type = "wraparound" => o + f[o].size = QueueSize
          /\ o + f[o].size <= QueueSize
      <4>1. f[o] # NoCommand /\ f[o] \in Commands \cup {NoCommand} /\ Within(o, f[o])
        BY <2>1 DEF RingType, Line
      <4>2. f[o].size \in Nat
        BY <4>1, CommandFact
      <4>. QED
        BY <2>1, <4>1, <4>2, OffsetIsByte, QueueAssumption DEF Within
    <3>3. /\ Dist(p, Successor(f, o)) = Dist(p, o) + f[o].size
          /\ Dist(p, Successor(f, o)) <= Dist(p, w)
      <4>1. Successor(f, o) \in Offsets /\ Dist(p, Successor(f, o)) <= Dist(p, w)
        BY <2>1, DistType DEF ChainAt, Line
      <4>. QED
        BY <2>1, <4>1 DEF ChainAt
    <3>4. Dist(p, q) < Dist(p, Successor(f, o))
      BY <2>1, <2>3, <3>2, <3>3, OffsetIsByte, QueueAssumption DEF Dist, Successor
    <3>5. Dist(p, q) < Dist(p, w)
      <4>1. Successor(f, o) \in Offsets
        BY <2>1, LineFact DEF ChainAt
      <4>. QED
        BY <3>3, <3>4, <4>1, DistType
    <3>. QED
      BY <3>1, <3>5, DistType
  <2>. QED
    BY <1>1, <2>1, <2>2, <2>3 DEF ChainAt
<1>4. Chain(g, p, w)
  BY <1>1, <1>3 DEF Chain
<1>5. Measured(DrawsOf(f, p, w), Far(p))
  BY LineFact, FarMeasured
<1>6. \A o \in DrawsOf(f, p, w) : f[o] = g[o]
  BY DEF DrawsOf
<1>7. Queue(g, p, w) = Queue(f, p, w)
  BY <1>2, <1>5, <1>6, InOrderSame DEF Queue
<1>. QED
  BY <1>1, <1>2, <1>4, <1>7

\* A command is published: it is the last of the line.
LEMMA LongerLine ==
  ASSUME NEW f, RingType(f), NEW p \in Offsets, NEW w \in Offsets, NEW v \in Offsets,
         Chain(f, p, w), f[w] # NoCommand, v = Successor(f, w),
         Dist(p, v) = Dist(p, w) + f[w].size,
         \A q \in Offsets : w < q /\ q < w + f[w].size => f[q] = NoCommand
  PROVE  /\ Line(f, p, v) = Line(f, p, w) \cup {w} /\ w \notin Line(f, p, w)
         /\ \A o \in Line(f, p, w) : Dist(p, o) < Dist(p, w)
         /\ Chain(f, p, v)
<1>1. f[w].size \in Nat \ {0} /\ w + f[w].size <= QueueSize /\ Within(w, f[w])
  <2>1. f[w] \in Commands \cup {NoCommand} /\ Within(w, f[w])
    BY DEF RingType
  <2>2. f[w].size \in Nat \ {0}
    BY <2>1, CommandFact, AlignedIsPositive
  <2>. QED
    BY <2>1, <2>2, OffsetIsByte, QueueAssumption DEF Within
<1>2. Dist(p, w) < Dist(p, v)
  BY <1>1, DistType
<1>3. ASSUME NEW o \in Line(f, p, v), o \notin Line(f, p, w) PROVE o = w
  <2>1. o \in Offsets /\ f[o] # NoCommand /\ Dist(p, w) <= Dist(p, o) /\ Dist(p, o) < Dist(p, v)
    BY <1>3, DistType DEF Line
  <2>2. ~(w < o /\ o < w + f[w].size)
    BY <2>1
  <2>3. w <= o /\ o < w + f[w].size
    BY <1>1, <2>1, OffsetIsByte, QueueAssumption DEF Dist, Successor, Within
  <2>. QED
    BY <2>1, <2>2, <2>3, OffsetIsByte
<1>4. Line(f, p, v) = Line(f, p, w) \cup {w} /\ w \notin Line(f, p, w)
  <2>1. w \in Line(f, p, v) /\ w \notin Line(f, p, w)
    BY <1>2, DistType DEF Line
  <2>2. \A o \in Line(f, p, w) : o \in Line(f, p, v)
    BY <1>2, DistType DEF Line
  <2>. QED
    BY <1>3, <2>1, <2>2
<1>5. \A o \in Line(f, p, w) : Dist(p, o) < Dist(p, w)
  BY DEF Line
<1>6. \A o \in Line(f, p, v) : ChainAt(f, p, v, o)
  BY <1>4 DEF Chain, ChainAt
<1>7. Chain(f, p, v)
  BY <1>4, <1>6 DEF Chain
<1>. QED
  BY <1>4, <1>5, <1>7

\* A drawing command at the end of the line is the last of the queue; others do not appear in it.
LEMMA LongerQueue ==
  ASSUME NEW f, NEW p \in Offsets, NEW w \in Offsets, NEW v \in Offsets,
         Line(f, p, v) = Line(f, p, w) \cup {w}, w \notin Line(f, p, w),
         \A o \in Line(f, p, w) : Dist(p, o) < Dist(p, w)
  PROVE  /\ f[w].type = "draw" => Queue(f, p, v) = Append(Queue(f, p, w), f[w])
         /\ f[w].type # "draw" => /\ Queue(f, p, v) = Queue(f, p, w)
                                  /\ DrawsOf(f, p, v) = DrawsOf(f, p, w)
<1>1. CASE f[w].type = "draw"
  <2> DEFINE S == DrawsOf(f, p, w)
  <2>1. DrawsOf(f, p, v) = S \cup {w} /\ w \notin S
    BY <1>1 DEF DrawsOf
  <2>2. Measured(S \cup {w}, Far(p))
    BY LineFact, FarMeasured
  <2>3. \A o \in S : Far(p)[o] < Far(p)[w]
    BY LineFact DEF DrawsOf, Far
  <2>. HIDE DEF S
  <2>4. InOrder(S \cup {w}, Far(p), f) = Append(InOrder(S, Far(p), f), f[w])
    BY <2>1, <2>2, <2>3, InOrderLast
  <2>. QED
    BY <1>1, <2>1, <2>4 DEF Queue, S
<1>2. CASE f[w].type # "draw"
  BY <1>2 DEF DrawsOf, Queue
<1>. QED
  BY <1>1, <1>2

\* The first command of the line is taken.
LEMMA ShorterLine ==
  ASSUME NEW f, NEW g, RingType(f), NEW p \in Offsets, NEW w \in Offsets,
         Chain(f, p, w), p # w, NEW v, v = Successor(f, p),
         \A q \in Offsets : g[q] = IF q = p THEN NoCommand ELSE f[q]
  PROVE  /\ v \in Offsets /\ f[p] # NoCommand /\ p \in Line(f, p, w)
         /\ Line(g, v, w) = Line(f, p, w) \ {p}
         /\ \A o \in Line(g, v, w) : Dist(p, o) = Dist(v, o) + f[p].size
         /\ Chain(g, v, w)
<1> DEFINE n == f[p].size
<1>1. /\ p \in Line(f, p, w) /\ ChainAt(f, p, w, p) /\ f[p] # NoCommand
      /\ v \in Offsets /\ n \in Nat \ {0} /\ Dist(p, v) = n /\ Dist(p, v) <= Dist(p, w)
  <2>1. p \in Line(f, p, w) /\ ChainAt(f, p, w, p)
    BY DEF Chain
  <2>2. f[p] # NoCommand /\ f[p] \in Commands \cup {NoCommand}
    BY <2>1 DEF Line, RingType
  <2>3. n \in Nat \ {0}
    BY <2>2, CommandFact, AlignedIsPositive
  <2>4. v \in Offsets /\ Dist(p, v) <= Dist(p, w)
    BY <2>1, DistType DEF ChainAt, Line
  <2>5. Dist(p, v) = Dist(p, p) + n /\ Dist(p, p) = 0
    BY <2>1, DistType DEF ChainAt
  <2>. HIDE DEF n
  <2>. QED
    BY <2>1, <2>2, <2>3, <2>4, <2>5
<1>2. \A q \in Offsets : p < q /\ q < p + n => f[q] = NoCommand
  BY <1>1 DEF ChainAt
<1>3. p + n <= QueueSize /\ v = (IF p + n = QueueSize THEN 0 ELSE p + n)
  BY <1>1, OffsetIsByte, QueueAssumption DEF RingType, Within, Successor
<1>. HIDE DEF n
\* Distances from v and from p.
<1>4. ASSUME NEW o \in Offsets
      PROVE  /\ Dist(p, o) >= n => Dist(p, o) = Dist(v, o) + n
             /\ Dist(v, o) + n < QueueSize => Dist(p, o) = Dist(v, o) + n
  <2>1. /\ o \in Nat /\ o < QueueSize /\ p \in Nat /\ p < QueueSize
        /\ n \in Nat \ {0} /\ QueueSize \in Nat
    BY <1>1, OffsetIsByte, QueueAssumption
  <2>2. CASE p + n = QueueSize
    <3>1. v = 0
      BY <1>3, <2>2
    <3>. QED
      BY <2>1, <2>2, <3>1 DEF Dist
  <2>3. CASE p + n < QueueSize
    <3>1. v = p + n
      BY <1>3, <2>1, <2>3
    <3>. QED
      BY <2>1, <2>3, <3>1 DEF Dist
  <2>. QED
    BY <1>3, <2>1, <2>2, <2>3
<1>5. Dist(p, w) = Dist(v, w) + n
  BY <1>1, <1>4, DistType
<1>6. ASSUME NEW o \in Line(f, p, w), o # p
      PROVE  Dist(p, o) = Dist(v, o) + n /\ o \in Line(g, v, w)
  <2>1. o \in Offsets /\ f[o] # NoCommand /\ Dist(p, o) < Dist(p, w)
    BY DEF Line
  <2>2. ~(p < o /\ o < p + n)
    BY <1>2, <2>1
  <2>3. Dist(p, o) >= n
    BY <1>1, <1>3, <1>6, <2>1, <2>2, OffsetIsByte, QueueAssumption DEF Dist
  <2>4. Dist(p, o) = Dist(v, o) + n
    BY <1>4, <2>1, <2>3
  <2>5. Dist(v, o) < Dist(v, w)
    BY <1>1, <1>5, <2>1, <2>4, DistType
  <2>. QED
    BY <1>6, <2>1, <2>4, <2>5 DEF Line
<1>7. ASSUME NEW o \in Line(g, v, w) PROVE o \in Line(f, p, w) /\ o # p
  <2>1. o \in Offsets /\ g[o] # NoCommand /\ Dist(v, o) < Dist(v, w)
    BY DEF Line
  <2>2. o # p /\ f[o] # NoCommand
    BY <2>1
  <2>3. Dist(v, o) + n < QueueSize
    <3>1. Dist(v, o) \in Nat /\ Dist(v, w) \in Nat /\ Dist(p, w) < QueueSize /\ n \in Nat
      BY <1>1, <2>1, DistType
    <3>. QED
      BY <1>5, <2>1, <3>1, QueueAssumption
  <2>4. Dist(p, o) < Dist(p, w)
    BY <1>1, <1>4, <1>5, <2>1, <2>3, DistType
  <2>. QED
    BY <2>1, <2>2, <2>4 DEF Line
<1>8. Line(g, v, w) = Line(f, p, w) \ {p}
  BY <1>6, <1>7
<1>9. \A o \in Line(g, v, w) : Dist(p, o) = Dist(v, o) + n
  BY <1>6, <1>8
<1>10. v = w \/ v \in Line(g, v, w)
  <2>1. v # p
    BY <1>1, DistType
  <2>. QED
    BY <1>1, <1>8, <2>1 DEF ChainAt
<1>11. ASSUME NEW o \in Line(g, v, w) PROVE ChainAt(g, v, w, o)
  <2>1. o \in Line(f, p, w) /\ o # p /\ o \in Offsets /\ ChainAt(f, p, w, o)
    BY <1>7 DEF Chain, Line
  <2>2. g[o] = f[o] /\ Successor(g, o) = Successor(f, o)
    BY <2>1 DEF Successor
  <2>3. /\ Successor(f, o) \in Offsets /\ Dist(p, Successor(f, o)) = Dist(p, o) + f[o].size
        /\ Successor(f, o) = w \/ Successor(f, o) \in Line(f, p, w)
    BY <2>1 DEF ChainAt, Line
  <2>4. f[o].size \in Nat /\ Dist(p, o) = Dist(v, o) + n
    BY <1>9, <2>1, CommandFact DEF RingType
  <2>5. Successor(f, o) # p /\ Dist(p, Successor(f, o)) >= n
    BY <1>1, <2>1, <2>3, <2>4, DistType
  <2>6. Dist(p, Successor(f, o)) = Dist(v, Successor(f, o)) + n
    BY <1>4, <2>3, <2>5
  <2>7. Dist(v, Successor(f, o)) = Dist(v, o) + f[o].size
    BY <1>1, <2>1, <2>3, <2>4, <2>6, DistType
  <2>8. Successor(f, o) = w \/ Successor(f, o) \in Line(g, v, w)
    BY <1>6, <2>3, <2>5
  <2>9. \A q \in Offsets : o < q /\ q < o + f[o].size => g[q] = NoCommand
    BY <2>1 DEF ChainAt
  <2>. QED
    BY <2>2, <2>7, <2>8, <2>9 DEF ChainAt
<1>12. Chain(g, v, w)
  BY <1>10, <1>11 DEF Chain
<1>. QED
  BY <1>1, <1>8, <1>9, <1>12 DEF n

\* What waits at the read pointer comes first.
LEMMA HeadOfQueue ==
  ASSUME NEW f, NEW S \in SUBSET Offsets, NEW p \in S
  PROVE  Headed(InOrder(S, Far(p), f), f[p], InOrder(S \ {p}, Far(p), f))
<1> DEFINE d == Far(p)
           T == S \ {p}
<1>1. Measured(S, d) /\ p \in Offsets
  BY FarMeasured
<1>2. \A o \in S : d[o] = Dist(p, o) /\ o \in Offsets
  BY DEF Far
<1>. HIDE DEF d
<1>3. AfterFirst(S, p, T, d)
  BY <1>1, <1>2, DistType DEF AfterFirst
<1>. HIDE DEF T
<1>4. Headed(InOrder(S, d, f), f[p], InOrder(T, d, f))
  BY <1>1, <1>3, InOrderFirst
<1>. QED
  BY <1>4 DEF d, T

\* A drawing command that is taken is the head of the queue; others do not appear in it.
LEMMA ShorterQueue ==
  ASSUME NEW f, NEW g, RingType(f), NEW p \in Offsets, NEW w \in Offsets,
         \A q \in Offsets : g[q] = IF q = p THEN NoCommand ELSE f[q], NEW v \in Offsets,
         p \in Line(f, p, w), Line(g, v, w) = Line(f, p, w) \ {p}, NEW n \in Nat,
         \A o \in Line(g, v, w) : Dist(p, o) = Dist(v, o) + n
  PROVE  /\ f[p].type = "draw" =>
              Headed(Queue(f, p, w), f[p], Queue(g, v, w))
         /\ f[p].type # "draw" => Queue(g, v, w) = Queue(f, p, w)
         /\ DrawsOf(g, v, w) \in SUBSET DrawsOf(f, p, w)
<1> DEFINE S == DrawsOf(f, p, w)
           T == DrawsOf(g, v, w)
           d == Far(p)
           e == Far(v)
<1>1. \A q \in Offsets : g[q] = IF q = p THEN NoCommand ELSE f[q]
  BY DEF RingType
<1>2. T = S \ {p}
  BY <1>1, LineFact DEF DrawsOf
<1>3. Measured(S, d) /\ Measured(T, d) /\ Measured(T, e)
  BY LineFact, FarMeasured
<1>4. \A o, q \in T : d[q] < d[o] <=> e[q] < e[o]
  <2>1. \A o \in T : /\ d[o] = Dist(p, o) /\ e[o] = Dist(v, o)
                     /\ Dist(p, o) = Dist(v, o) + n /\ Dist(v, o) \in Nat
    BY LineFact, DistType DEF DrawsOf, Far
  <2>. HIDE DEF T
  <2>. QED
    BY <2>1
<1>5. \A o \in T : f[o] = g[o]
  BY <1>1, <1>2, LineFact DEF DrawsOf
<1>6. InOrder(T, d, f) = InOrder(T, e, g)
  <2>. HIDE DEF T, d, e
  <2>. QED
    BY <1>3, <1>4, <1>5, InOrderSame
<1>7. CASE f[p].type = "draw"
  <2>1. p \in S
    BY <1>7 DEF DrawsOf
  <2>2. S \in SUBSET Offsets
    BY LineFact
  <2>3. Headed(InOrder(S, Far(p), f), f[p], InOrder(S \ {p}, Far(p), f))
    <3>. HIDE DEF S
    <3>. QED
      BY <2>1, <2>2, HeadOfQueue
  <2>4. Headed(InOrder(S, d, f), f[p], InOrder(T, e, g))
    BY <1>2, <1>6, <2>3
  <2>. QED
    BY <1>2, <1>7, <2>4 DEF Queue
<1>8. CASE f[p].type # "draw"
  <2>1. S = T
    BY <1>2, <1>8 DEF DrawsOf
  <2>. QED
    BY <1>6, <1>8, <2>1 DEF Queue
<1>. QED
  BY <1>7, <1>8

-----------------------------------------------------------------------------
(* The ring of the back end.                                               *)

\* The queue of the stream, in terms of the ring.
LEMMA Mapped ==
  Typed => /\ Chained <=> Chain(fifo, Position, writePtr)
           /\ Draws = DrawsOf(fifo, Position, writePtr)
           /\ Chained => Unexecuted = Queue(fifo, Position, writePtr)
<1>. SUFFICES ASSUME Typed PROVE /\ Chained <=> Chain(fifo, Position, writePtr)
                                 /\ Draws = DrawsOf(fifo, Position, writePtr)
                                 /\ Chained => Unexecuted = Queue(fifo, Position, writePtr)
  OBVIOUS
<1>1. \A o : Distance(o) = Dist(Position, o)
  BY DEF Distance, Dist
<1>2. \A o : Waits(o) <=> o \in Line(fifo, Position, writePtr)
  BY <1>1 DEF Waits, Line
<1>3. Draws = DrawsOf(fifo, Position, writePtr)
  BY <1>2, LineFact DEF Draws, DrawsOf
<1>4. \A o : Following(o) = Successor(fifo, o)
  BY DEF Following, Successor
<1>5. Chained <=> Chain(fifo, Position, writePtr)
  <2>1. \A o \in Line(fifo, Position, writePtr) : o \in Offsets
    BY LineFact
  <2>. QED
    BY <1>1, <1>2, <1>4, <2>1 DEF Chained, Chain, ChainAt
<1>6. ASSUME Chained PROVE Unexecuted = Queue(fifo, Position, writePtr)
  <2> DEFINE D == DrawsOf(fifo, Position, writePtr)
             d == Far(Position)
  <2>1. Position \in Offsets /\ Measured(D, d)
    BY LineFact, FarMeasured, Numbers DEF Position
  <2>2. \A o \in D : Before(o) = Smaller(D, d, o)
    BY <1>1, <1>3, LineFact DEF Before, Smaller, Far
  <2>3. Unexecuted = [i \in 1 .. Cardinality(D) |->
                        fifo[CHOOSE o \in D : Cardinality(Before(o)) = i - 1]]
    BY <1>3, <1>6 DEF Unexecuted
  <2>. HIDE DEF D, d
  <2>4. ASSUME NEW i \in 1 .. Cardinality(D)
        PROVE  fifo[CHOOSE o \in D : Cardinality(Before(o)) = i - 1] = InOrder(D, d, fifo)[i]
    <3>1. PICK x \in D : /\ Cardinality(Smaller(D, d, x)) = i - 1
                         /\ \A q \in D : Cardinality(Smaller(D, d, q)) = i - 1 => q = x
      BY <2>1, Places
    <3>2. (CHOOSE o \in D : Cardinality(Before(o)) = i - 1) = x
      BY <2>2, <3>1
    <3>3. InOrder(D, d, fifo)[i] = fifo[x]
      BY <2>1, <3>1, AtPlace
    <3>. QED
      BY <3>2, <3>3
  <2>5. InOrder(D, d, fifo) = [i \in 1 .. Cardinality(D) |-> InOrder(D, d, fifo)[i]]
    BY DEF InOrder
  <2>6. Unexecuted = InOrder(D, d, fifo)
    BY <2>3, <2>4, <2>5
  <2>. QED
    BY <2>6 DEF Queue, D, d
<1>. QED
  BY <1>3, <1>5, <1>6

\* The GPU thread is never ahead of the write pointer.
LEMMA PositionFact ==
  ASSUME Typed, Ring
  PROVE  /\ Position \in Offsets
         /\ readPtr <= writePtr => readPtr <= Position /\ Position <= writePtr
         /\ writePtr < readPtr => readPtr <= Position \/ Position <= writePtr
         /\ gpc = "batch" /\ gread < gwrite => Position = gread /\ gread # writePtr
<1>1. Position \in Offsets
  BY Numbers DEF Position
<1>. QED
  BY <1>1, Numbers DEF Ring, Lap, ToEnd, Straight, Around, Position

\* Typed, as far as the ring is concerned.
LEMMA RingNow == Typed => RingType(fifo) /\ writePtr \in Offsets /\ Position \in Offsets
BY Numbers DEF Typed, TypeOK, Placed, RingType, Position

\* The same after a step.
LEMMA MappedNext ==
  ASSUME Typed'
  PROVE  /\ RingType(fifo') /\ writePtr' \in Offsets /\ Position' \in Offsets
         /\ Chained' <=> Chain(fifo', Position', writePtr')
         /\ Draws' = DrawsOf(fifo', Position', writePtr')
         /\ Chained' => Unexecuted' = Queue(fifo', Position', writePtr')
<1>1. (RingType(fifo) /\ writePtr \in Offsets /\ Position \in Offsets)'
  BY RingNow, PTL
<1>2. (/\ Chained <=> Chain(fifo, Position, writePtr)
       /\ Draws = DrawsOf(fifo, Position, writePtr)
       /\ Chained => Unexecuted = Queue(fifo, Position, writePtr))'
  BY Mapped, PTL
<1>. QED
  BY <1>1, <1>2

\* Writing beyond the write pointer, and forgetting what is not waiting.
Beside ==
  /\ \A o \in Line(fifo, Position, writePtr) : fifo'[o] = fifo[o]
  /\ \A o \in Offsets : fifo'[o] # NoCommand =>
       fifo'[o] = fifo[o] \/ Dist(Position, o) >= Dist(Position, writePtr)

\* Such a step changes nothing for the callers.
LEMMA Steady ==
  ASSUME Typed, Typed', Chained, Beside, writePtr' = writePtr, Position' = Position
  PROVE  Chained' /\ Draws' = Draws /\ Unexecuted' = Unexecuted
<1>1. /\ Chain(fifo, Position, writePtr) /\ Draws = DrawsOf(fifo, Position, writePtr)
      /\ Unexecuted = Queue(fifo, Position, writePtr)
  BY Mapped
<1>2. /\ DrawsOf(fifo', Position, writePtr) = DrawsOf(fifo, Position, writePtr)
      /\ Queue(fifo', Position, writePtr) = Queue(fifo, Position, writePtr)
      /\ Chain(fifo', Position, writePtr)
  BY <1>1, RingNow, SameLine DEF Beside
<1>3. Chained'
  BY <1>2, MappedNext
<1>4. /\ Draws' = DrawsOf(fifo', Position, writePtr)
      /\ Unexecuted' = Queue(fifo', Position, writePtr)
  BY <1>3, MappedNext
<1>. QED
  BY <1>1, <1>2, <1>3, <1>4

\* A command is written into room that was found for it.
LEMMA WriteBeside ==
  ASSUME Typed, Ring, NEW cmd, cmd.size \in Nat \ {0}, Write(cmd),
         writePtr < readPtr => writePtr + cmd.size < readPtr, writePtr + cmd.size <= QueueSize
  PROVE  Beside
<1>1. /\ fifo' = [o \in Offsets |-> fifo'[o]]
      /\ \A o \in Offsets : fifo'[o] =
           CASE o = writePtr -> cmd
             [] o > writePtr /\ o < writePtr + cmd.size -> NoCommand
             [] OTHER -> fifo[o]
  BY DEF Write
<1>2. ASSUME NEW o \in Offsets, fifo'[o] # fifo[o]
      PROVE  writePtr <= o /\ o < writePtr + cmd.size
  <2>1. o = writePtr \/ (o > writePtr /\ o < writePtr + cmd.size)
    BY <1>1, <1>2
  <2>. QED
    BY <2>1, Numbers, OffsetIsByte
<1>3. ASSUME NEW o \in Offsets, writePtr <= o, o < writePtr + cmd.size
      PROVE  Dist(Position, o) >= Dist(Position, writePtr)
  BY <1>3, Numbers, PositionFact, OffsetIsByte DEF Dist
<1>4. \A o \in Line(fifo, Position, writePtr) : fifo'[o] = fifo[o]
  <2>. SUFFICES ASSUME NEW o \in Line(fifo, Position, writePtr), fifo'[o] # fifo[o] PROVE FALSE
    OBVIOUS
  <2>1. o \in Offsets /\ Dist(Position, o) < Dist(Position, writePtr)
    BY DEF Line
  <2>. QED
    BY <1>2, <1>3, <2>1, DistType, PositionFact, Numbers
<1>. QED
  BY <1>2, <1>3, <1>4 DEF Beside

\* What is at the write pointer does not wait.
LEMMA ForgetBeside ==
  ASSUME Typed, Forget(writePtr)
  PROVE  Beside
<1>1. \A o \in Offsets : fifo'[o] = IF o = writePtr THEN NoCommand ELSE fifo[o]
  BY DEF Forget, Typed, TypeOK
<1>2. writePtr \notin Line(fifo, Position, writePtr)
  BY RingNow, DistType DEF Line
<1>. QED
  BY <1>1, <1>2, LineFact DEF Beside

\* Nor does a step that leaves the ring alone write where a command waits.
LEMMA SameBeside == ASSUME fifo' = fifo PROVE Beside
BY DEF Beside

\* A command at the write pointer is published.
LEMMA Published ==
  ASSUME Typed, Typed', Chained, Beside, Position' = Position,
         fifo'[writePtr] # NoCommand, writePtr' = Successor(fifo', writePtr),
         Dist(Position, writePtr') = Dist(Position, writePtr) + fifo'[writePtr].size,
         \A q \in Offsets :
           writePtr < q /\ q < writePtr + fifo'[writePtr].size => fifo'[q] = NoCommand
  PROVE  /\ Chained'
         /\ fifo'[writePtr].type = "draw" => Unexecuted' = Append(Unexecuted, fifo'[writePtr])
         /\ fifo'[writePtr].type # "draw" => Unexecuted' = Unexecuted /\ Draws' = Draws
<1> DEFINE p == Position
           w == writePtr
           v == writePtr'
           g == fifo'
<1>1. /\ RingType(fifo) /\ RingType(g) /\ p \in Offsets /\ w \in Offsets /\ v \in Offsets
      /\ Chain(fifo, p, w) /\ Draws = DrawsOf(fifo, p, w) /\ Unexecuted = Queue(fifo, p, w)
  BY RingNow, Mapped, MappedNext
<1>2. /\ DrawsOf(g, p, w) = Draws /\ Queue(g, p, w) = Unexecuted /\ Chain(g, p, w)
  BY <1>1, SameLine DEF Beside
<1>. HIDE DEF p, w, v, g
<1>3. /\ Line(g, p, v) = Line(g, p, w) \cup {w} /\ w \notin Line(g, p, w)
      /\ \A o \in Line(g, p, w) : Dist(p, o) < Dist(p, w)
      /\ Chain(g, p, v)
  BY <1>1, <1>2, LongerLine DEF p, w, v, g
<1>4. /\ g[w].type = "draw" => Queue(g, p, v) = Append(Queue(g, p, w), g[w])
      /\ g[w].type # "draw" => /\ Queue(g, p, v) = Queue(g, p, w)
                               /\ DrawsOf(g, p, v) = DrawsOf(g, p, w)
  BY ZenonT(60), <1>1, <1>3, LongerQueue
<1>5. Chained'
  BY <1>3, MappedNext DEF p, v, g
<1>6. Draws' = DrawsOf(g, p, v) /\ Unexecuted' = Queue(g, p, v)
  BY <1>5, MappedNext DEF p, v, g
<1>. QED
  BY <1>2, <1>4, <1>5, <1>6 DEF g, w

\* The GPU thread takes the next command.
LEMMA Taken ==
  ASSUME Typed, Typed', Ring, Chained, NEW type \in {"draw", "sync", "wraparound"},
         InBatch(type), Forget(gread), gpc' = gpc, writePtr' = writePtr,
         gread' = Successor(fifo, gread)
  PROVE  /\ Chained' /\ Draws' \in SUBSET Draws
         /\ type = "draw" => Headed(Unexecuted, Current, Unexecuted')
         /\ type # "draw" => Unexecuted' = Unexecuted
<1> DEFINE p == Position
           w == writePtr
           v == gread'
           f == fifo
           g == fifo'
<1>1. /\ RingType(f) /\ p \in Offsets /\ w \in Offsets
      /\ Chain(f, p, w) /\ Draws = DrawsOf(f, p, w) /\ Unexecuted = Queue(f, p, w)
  BY RingNow, Mapped
<1>2. p = gread /\ p # w /\ Position' = v
  BY PositionFact DEF InBatch, Position
<1>3. /\ v = Successor(f, p) /\ f[p].type = type /\ Current = f[p]
      /\ \A q \in Offsets : g[q] = IF q = p THEN NoCommand ELSE f[q]
  BY <1>1, <1>2 DEF Forget, InBatch, Current, RingType
<1>. HIDE DEF p, w, v, f, g
<1>4. /\ v \in Offsets /\ f[p] # NoCommand /\ p \in Line(f, p, w)
      /\ Line(g, v, w) = Line(f, p, w) \ {p}
      /\ \A o \in Line(g, v, w) : Dist(p, o) = Dist(v, o) + f[p].size
      /\ Chain(g, v, w)
  BY <1>1, <1>2, <1>3, ShorterLine
<1>5. f[p].size \in Nat
  BY <1>1, CommandFact DEF RingType
<1>6. /\ f[p].type = "draw" => Headed(Queue(f, p, w), f[p], Queue(g, v, w))
      /\ f[p].type # "draw" => Queue(g, v, w) = Queue(f, p, w)
      /\ DrawsOf(g, v, w) \in SUBSET DrawsOf(f, p, w)
  BY <1>1, <1>3, <1>4, <1>5, ShorterQueue
<1>7. Chained'
  BY <1>2, <1>4, MappedNext DEF w, g
<1>8. Draws' = DrawsOf(g, v, w) /\ Unexecuted' = Queue(g, v, w)
  BY <1>2, <1>7, MappedNext DEF w, g
<1>. QED
  BY <1>1, <1>3, <1>6, <1>7, <1>8

\* An empty ring, as that of a new back end.
LEMMA EmptyRing ==
  ASSUME Typed, \A o \in Offsets : fifo[o] = NoCommand, Position = writePtr
  PROVE  Chained /\ Draws = {} /\ Unexecuted = <<>>
<1>1. Line(fifo, Position, writePtr) = {} /\ DrawsOf(fifo, Position, writePtr) = {}
  BY DEF Line, DrawsOf
<1>2. Chained
  BY <1>1, Mapped DEF Chain
<1>. QED
  BY <1>1, <1>2, Mapped, RingNow, NothingWaits

\* Without drawing commands the stream is empty.
LEMMA NothingToDraw ==
  ASSUME Typed, Chained, Draws = {}
  PROVE  Unexecuted = <<>>
BY Mapped, RingNow, NothingWaits

\* A GPU thread that has caught up has no drawing command ahead.
LEMMA CaughtUp ==
  ASSUME Typed, Position = writePtr
  PROVE  Draws = {}
<1>1. \A o \in Offsets : ~(Dist(Position, o) < Dist(Position, writePtr))
  BY DistType, RingNow
<1>2. DrawsOf(fifo, Position, writePtr) = {}
  BY <1>1 DEF DrawsOf, Line
<1>. QED
  BY <1>2, Mapped

-----------------------------------------------------------------------------
(* The ring implements the stream.                                         *)

Stopping == {"stop", "stop_wake", "stop_join"}

\* What the emulation thread is doing, and with which command.
Calls ==
  /\ mop = "shutdown" => mpc \in Stopping \cup {"gone"}
  /\ mpc = "gone" => mop = "shutdown"
  /\ mcmd = SyncCommand => mpc \in Allocating \cup Pushed \cup {"sync_reset"}
  /\ mpc \in {"sync_wake", "sync_wait", "sync_reset"} => mcmd = SyncCommand

\* The command to be pushed is in the ring.
Filled == mpc = "push" => fifo[writePtr] = mcmd

\* Without a GPU thread, and while it is stopped by UpdateSettings, no drawing command waits:
\* executing one at once does not overtake another.
Quiet == (~useThread \/ mpc \in Stopping) /\ mop # "shutdown" => Draws = {}

Linked == Chained /\ Filled /\ Quiet /\ Calls

StreamStep == [Stream!StreamNext]_(Stream!streamVars)

\* A step that changes nothing for the callers.
LEMMA Stutters ==
  ASSUME Unexecuted' = Unexecuted, executed' = executed, Phase' = Phase
  PROVE  StreamStep
BY DEF StreamStep, Stream!streamVars

\* Whether a Sync is under way depends on the emulation thread only.
LEMMA SamePhase ==
  ASSUME mop' = mop, mcmd' = mcmd, mpc = "sync_reset" <=> mpc' = "sync_reset"
  PROVE  Phase' = Phase
BY DEF Phase

\* No step of the ring.
Calm == /\ UNCHANGED <<fifo, writePtr>>
        /\ Position' = Position

\* Such a step changes nothing for the callers either.
LEMMA CalmRing ==
  ASSUME Typed, Typed', Chained, Calm
  PROVE  Chained' /\ Draws' = Draws /\ Unexecuted' = Unexecuted
BY Steady, SameBeside DEF Calm

\* A call begins: a Sync or the end of the back end, as far as the callers can tell.
LEMMA CallStep ==
  ASSUME Typed, Typed', Linked, MainCall
  PROVE  Linked' /\ StreamStep
<1>1. mpc = "idle" /\ mop # "shutdown" /\ mcmd # SyncCommand /\ Phase = "open"
  <2>1. mpc = "idle"
    BY DEF MainCall, NewCommand, Sync, StartGPUThread, Shutdown
  <2>2. mop # "shutdown" /\ mcmd # SyncCommand
    BY <2>1 DEF Linked, Calls, Stopping, Allocating, Pushed
  <2>. QED
    BY <2>1, <2>2, CommandFact DEF Phase, Typed, TypeOK
<1>2. Calm /\ executed' = executed
  BY DEF MainCall, NewCommand, Sync, StartGPUThread, Shutdown, Calm, Position, ringVars, syncVars,
         gpuVars, mainVars, Typed, ThreadInUse
<1>3. Chained' /\ Draws' = Draws /\ Unexecuted' = Unexecuted
  BY <1>2, CalmRing DEF Linked
<1>4. ASSUME NEW cmd \in Drawing, NewCommand(cmd) PROVE Linked' /\ StreamStep
  <2>1. mpc' = "alloc" /\ mcmd' = cmd /\ mop' = mop /\ useThread' = useThread
    BY <1>4 DEF NewCommand, syncVars
  <2>2. Phase' = "open"
    BY <1>1, <2>1, CommandFact DEF Phase
  <2>3. Calls' /\ Filled' /\ Quiet'
    BY <1>1, <1>3, <2>1, CommandFact DEF Linked, Calls, Filled, Quiet, Stopping, Allocating, Pushed
  <2>. QED
    BY <1>1, <1>2, <1>3, <2>2, <2>3, Stutters DEF Linked
<1>5. ASSUME NEW op \in {"none", "disable"}, Sync(op) PROVE Linked' /\ StreamStep
  <2>1. mpc' = "alloc" /\ mcmd' = SyncCommand /\ mop' = op /\ useThread /\ useThread'
    BY <1>5 DEF Sync, syncVars
  <2>2. Phase' = "syncing"
    BY <2>1, CommandFact DEF Phase
  <2>3. Calls' /\ Filled' /\ Quiet'
    BY <2>1 DEF Calls, Filled, Quiet, Stopping, Allocating, Pushed
  <2>4. StreamStep
    BY <1>1, <1>2, <1>3, <2>2 DEF StreamStep, Stream!StreamNext, Stream!BeginSync
  <2>. QED
    BY <1>3, <2>3, <2>4 DEF Linked
<1>6. CASE StartGPUThread
  <2>1. UNCHANGED <<mpc, mcmd, mop>> /\ useThread'
    BY <1>6 DEF StartGPUThread, mainVars
  <2>2. Calls' /\ Filled' /\ Quiet'
    BY <1>1, <2>1 DEF Linked, Calls, Filled, Quiet, Stopping
  <2>3. Phase' = Phase
    BY <2>1, SamePhase
  <2>. QED
    BY <1>2, <1>3, <2>2, <2>3, Stutters DEF Linked
<1>7. CASE Shutdown
  <2>1. mop' = "shutdown" /\ mpc' \in {"stop", "gone"} /\ mcmd' = mcmd
    BY <1>7 DEF Shutdown
  <2>2. Calls' /\ Filled' /\ Quiet'
    BY <1>1, <2>1 DEF Calls, Filled, Quiet, Stopping
  <2>3. Phase' = "closing"
    BY <2>1 DEF Phase
  <2>4. StreamStep
    BY <1>1, <1>2, <1>3, <2>3 DEF StreamStep, Stream!StreamNext, Stream!BeginClose
  <2>. QED
    BY <1>3, <2>2, <2>4 DEF Linked
<1>. QED
  BY <1>4, <1>5, <1>6, <1>7 DEF MainCall

\* A command is written where room was found for it.
LEMMA WriteStep ==
  ASSUME RoomForTwo, Typed, Typed', Ring, Linked, AllocateCommand \/ FullAllocate
  PROVE  Linked' /\ StreamStep
<1>1. /\ WriteCommand /\ mpc \in {"alloc", "reload"} /\ mpc' = "push"
      /\ UNCHANGED <<readPtr, writePtr, useThread, executed, mcmd, mop, gpc, gread, gwrite>>
  BY DEF AllocateCommand, FullAllocate, WriteCommand, syncVars, gpuVars
<1>2. mcmd.size \in Nat \ {0} /\ mcmd # NoCommand
  BY <1>1, CommandFact, AlignedIsPositive DEF Typed, Holding, Allocating
<1>3. (writePtr < readPtr => writePtr + mcmd.size < readPtr) /\ writePtr + mcmd.size <= QueueSize
  BY <1>2, Numbers
     DEF AllocateCommand, FullAllocate, AvailableAfterReload, Fits, TypeSize, NeedsWraparound
<1>4. Beside
  BY <1>1, <1>2, <1>3, WriteBeside DEF WriteCommand
<1>5. Chained' /\ Draws' = Draws /\ Unexecuted' = Unexecuted
  BY <1>1, <1>4, Steady DEF Linked, Position
<1>6. Filled'
  BY <1>1, Numbers DEF Filled, WriteCommand, Write
<1>7. Calls' /\ Quiet' /\ Phase' = Phase
  BY <1>1, <1>5, SamePhase DEF Linked, Calls, Quiet, Stopping, Allocating, Pushed
<1>. QED
  BY <1>1, <1>5, <1>6, <1>7, Stutters DEF Linked

\* The dummy command takes up the rest of the ring.
LEMMA DummyStep ==
  ASSUME RoomForTwo, Typed, Typed', Ring, Linked, AllocateDummy
  PROVE  Linked' /\ StreamStep
<1> DEFINE n == QueueSize - writePtr
<1>1. /\ Write(Wraparound(n)) /\ writePtr' = 0 /\ mpc = "alloc" /\ readPtr <= writePtr
      /\ UNCHANGED <<readPtr, useThread, executed, mcmd, mop, mpc, gpc, gread, gwrite>>
  BY DEF AllocateDummy, syncVars, mainVars, gpuVars
<1>2. /\ n \in Nat \ {0} /\ Wraparound(n).size = n /\ Wraparound(n).type = "wraparound"
      /\ writePtr + n = QueueSize
  BY Numbers DEF Wraparound
<1>3. /\ fifo'[writePtr] = Wraparound(n)
      /\ \A q \in Offsets : writePtr < q /\ q < writePtr + n => fifo'[q] = NoCommand
  BY <1>1, <1>2, Numbers DEF Write
<1>4. Beside
  BY <1>1, <1>2, Numbers, WriteBeside
<1>5. Position' = Position
  BY <1>1 DEF Position
<1>6. Dist(Position, 0) = Dist(Position, writePtr) + n
  <2>1. 0 < readPtr
    BY DummyAhead
  <2>. QED
    BY <1>1, <2>1, Numbers, PositionFact, OffsetIsByte DEF Dist
<1>7. fifo'[writePtr] # NoCommand /\ Successor(fifo', writePtr) = 0
  BY <1>2, <1>3 DEF Successor, NoCommand, Wraparound
<1>. HIDE DEF n
<1>8. Chained' /\ Draws' = Draws /\ Unexecuted' = Unexecuted
  BY <1>1, <1>2, <1>3, <1>4, <1>5, <1>6, <1>7, Published DEF Linked
<1>9. Calls' /\ Quiet' /\ Filled' /\ Phase' = Phase
  BY <1>1, <1>8, SamePhase DEF Linked, Calls, Quiet, Filled
<1>. QED
  BY <1>1, <1>8, <1>9, Stutters DEF Linked

\* A drawing command is abandoned.
LEMMA AbandonStep ==
  ASSUME Typed, Typed', Linked, AbandonCommand
  PROVE  Linked' /\ StreamStep
<1>1. /\ Forget(writePtr) /\ mpc = "push" /\ mpc' = "idle" /\ mcmd.type = "draw"
      /\ UNCHANGED <<readPtr, writePtr, useThread, executed, mcmd, mop, gpc, gread, gwrite>>
  BY DEF AbandonCommand, syncVars, gpuVars
<1>2. Beside /\ Position' = Position
  BY <1>1, ForgetBeside DEF Position
<1>3. Chained' /\ Draws' = Draws /\ Unexecuted' = Unexecuted
  BY <1>1, <1>2, Steady DEF Linked
<1>4. Calls' /\ Quiet' /\ Filled' /\ Phase' = Phase
  BY <1>1, <1>3, SamePhase, CommandFact DEF Linked, Calls, Quiet, Filled, Stopping
<1>. QED
  BY <1>1, <1>3, <1>4, Stutters DEF Linked

\* Without a GPU thread nothing waits, and the command takes effect at once.
LEMMA NonThreadedStep ==
  ASSUME Typed, Typed', Linked, PushNonThreaded
  PROVE  Linked' /\ StreamStep
<1>1. /\ Forget(writePtr) /\ mpc = "push" /\ mpc' = "idle" /\ ~useThread /\ executed' = mcmd
      /\ UNCHANGED <<readPtr, writePtr, useThread, mcmd, mop, gpc, gread, gwrite>>
  BY DEF PushNonThreaded, syncVars, gpuVars
<1>2. Beside /\ Position' = Position
  BY <1>1, ForgetBeside DEF Position
<1>3. Chained' /\ Draws' = Draws /\ Unexecuted' = Unexecuted
  BY <1>1, <1>2, Steady DEF Linked
<1>4. mcmd \in Drawing /\ mcmd # SyncCommand /\ mop # "shutdown"
  BY <1>1, CommandFact DEF Typed, Holding, Allocating, Linked, Calls, Stopping
<1>5. Phase = "open" /\ Phase' = Phase
  BY <1>1, <1>4, CommandFact, SamePhase DEF Phase
<1>6. Unexecuted = <<>>
  BY <1>1, <1>4, NothingToDraw DEF Linked, Quiet
<1>7. StreamStep
  BY <1>1, <1>3, <1>4, <1>5, <1>6 DEF StreamStep, Stream!StreamNext, Stream!PushAndExecute
<1>8. Calls' /\ Quiet' /\ Filled'
  BY <1>1, <1>3, <1>4 DEF Linked, Calls, Quiet, Filled, Stopping
<1>. QED
  BY <1>3, <1>7, <1>8 DEF Linked

\* PushCommand appends to the stream.
LEMMA PushStep ==
  ASSUME Typed, Typed', Ring, Linked, PushCommand
  PROVE  Linked' /\ StreamStep
<1>1. /\ mpc = "push" /\ mpc' = "pushed" /\ useThread /\ useThread' /\ fifo' = fifo
      /\ writePtr' = writePtr + mcmd.size
      /\ UNCHANGED <<readPtr, executed, mcmd, mop, gpc, gread, gwrite>>
  BY DEF PushCommand, syncVars, gpuVars
<1>2. /\ mcmd \in Drawing \cup {SyncCommand} /\ fifo[writePtr] = mcmd
      /\ mcmd.size \in Nat \ {0} /\ mop # "shutdown"
  BY <1>1, CommandFact, AlignedIsPositive
     DEF Typed, Holding, Allocating, Linked, Filled, Calls, Stopping
<1>3. /\ mcmd # NoCommand /\ Successor(fifo', writePtr) = writePtr'
      /\ \A q \in Offsets : writePtr < q /\ q < writePtr + mcmd.size => fifo'[q] = NoCommand
  BY <1>1, <1>2, CommandFact DEF Successor, Ring, Reserved
<1>4. Dist(Position, writePtr') = Dist(Position, writePtr) + mcmd.size
  <2>1. writePtr < readPtr => writePtr + mcmd.size < readPtr
    BY <1>1 DEF Ring, Reserved
  <2>. QED
    BY <1>1, <1>2, <2>1, Numbers, PositionFact, OffsetIsByte DEF Dist
<1>5. Beside /\ Position' = Position
  BY <1>1, SameBeside DEF Position
<1>6. /\ Chained'
      /\ mcmd.type = "draw" => Unexecuted' = Append(Unexecuted, mcmd)
      /\ mcmd.type # "draw" => Unexecuted' = Unexecuted /\ Draws' = Draws
  BY <1>1, <1>2, <1>3, <1>4, <1>5, Published DEF Linked
<1>7. Calls' /\ Quiet' /\ Filled' /\ Phase' = Phase
  BY <1>1, <1>2, SamePhase DEF Linked, Calls, Quiet, Filled, Stopping, Allocating, Pushed
<1>8. StreamStep
  <2>1. CASE mcmd.type = "draw"
    <3>1. mcmd \in Drawing /\ Phase = "open"
      BY <1>2, <2>1, CommandFact DEF Phase
    <3>. QED
      BY <1>1, <1>6, <1>7, <2>1, <3>1 DEF StreamStep, Stream!StreamNext, Stream!Push
  <2>2. CASE mcmd.type # "draw"
    BY <1>1, <1>6, <1>7, <2>2, Stutters
  <2>. QED
    BY <2>1, <2>2
<1>. QED
  BY <1>6, <1>7, <1>8 DEF Linked

\* Sync returns once the GPU thread has caught up.
LEMMA WaitStep ==
  ASSUME Typed, Typed', Ring, Linked, SyncWait
  PROVE  Linked' /\ StreamStep
<1>1. /\ mpc = "sync_wait" /\ mpc' = "sync_reset" /\ signaled
      /\ UNCHANGED <<fifo, readPtr, writePtr, useThread, executed, mcmd, mop, gpc, gread, gwrite>>
  BY DEF SyncWait, MainGoto, ringVars, syncVars, gpuVars
<1>2. Calm
  BY <1>1 DEF Calm, Position
<1>3. Chained' /\ Draws' = Draws /\ Unexecuted' = Unexecuted
  BY <1>2, CalmRing DEF Linked
<1>4. Position = writePtr
  BY <1>1 DEF Ring, Drained, Position
<1>5. Draws = {} /\ Unexecuted = <<>>
  BY <1>4, CaughtUp, NothingToDraw DEF Linked
<1>6. mcmd = SyncCommand /\ mop # "shutdown"
  BY <1>1 DEF Linked, Calls, Stopping
<1>7. Phase = "syncing" /\ Phase' = "open"
  BY <1>1, <1>6, CommandFact DEF Phase
<1>8. StreamStep
  BY <1>1, <1>3, <1>5, <1>7 DEF StreamStep, Stream!StreamNext, Stream!EndSync
<1>9. Calls' /\ Quiet' /\ Filled'
  BY <1>1, <1>3, <1>5, <1>6 DEF Calls, Quiet, Filled
<1>. QED
  BY <1>3, <1>8, <1>9 DEF Linked

\* Sync has returned already when the event is reset.
LEMMA ResetStep ==
  ASSUME Typed, Typed', Ring, Linked, SyncReset
  PROVE  Linked' /\ StreamStep
<1>1. /\ mpc = "sync_reset" /\ mpc' \in {"stop", "idle"} /\ mcmd' = NoCommand
      /\ UNCHANGED <<fifo, readPtr, writePtr, useThread, executed, mop, gpc, gread, gwrite>>
  BY DEF SyncReset, ringVars, gpuVars
<1>2. Calm
  BY <1>1 DEF Calm, Position
<1>3. Chained' /\ Draws' = Draws /\ Unexecuted' = Unexecuted
  BY <1>2, CalmRing DEF Linked
<1>4. Position = writePtr
  BY <1>1 DEF Ring, Drained, Position
<1>5. Draws = {}
  BY <1>4, CaughtUp
<1>6. Phase' = Phase
  BY <1>1, CommandFact DEF Phase
<1>7. Calls' /\ Quiet' /\ Filled'
  BY <1>1, <1>3, <1>5, CommandFact DEF Linked, Calls, Quiet, Filled, Stopping
<1>. QED
  BY <1>1, <1>3, <1>6, <1>7, Stutters DEF Linked

\* Waiting for room or for the GPU thread, waking it and stopping it.
LEMMA OtherMainStep ==
  ASSUME Typed, Typed', Linked,
         \/ AllocateFull \/ FullWake \/ FullReload
         \/ PushCheckPending \/ PushWake \/ SyncWake
         \/ StopSetDone \/ StopWake \/ StopJoin
  PROVE  Linked' /\ StreamStep
<1>1. /\ UNCHANGED <<fifo, readPtr, writePtr, executed, mcmd, mop, gread, gwrite>>
      /\ gpc' = "batch" <=> gpc = "batch"
      /\ mpc' \notin {"push", "sync_reset"} /\ mpc # "sync_reset"
  BY DEF AllocateFull, FullWake, FullReload, PushCheckPending, PushWake, SyncWake, StopSetDone,
         StopWake, StopJoin, Wake, WakeGPUThread, MainGoto, AfterPush, ringVars, syncVars, gpuVars
<1>2. Calm
  BY <1>1 DEF Calm, Position
<1>3. Chained' /\ Draws' = Draws /\ Unexecuted' = Unexecuted
  BY <1>2, CalmRing DEF Linked
<1>4. Phase' = Phase
  BY <1>1, SamePhase
<1>5. Filled'
  BY <1>1 DEF Filled
<1>6. Calls' /\ Quiet'
  <2>1. CASE AllocateFull \/ FullWake \/ FullReload
    BY <1>1, <1>3, <2>1
       DEF AllocateFull, FullWake, FullReload, Wake, MainGoto, syncVars, Linked, Calls, Quiet,
           Stopping, Allocating, Pushed
  <2>2. CASE PushCheckPending \/ PushWake \/ SyncWake
    <3>1. AfterPush \in {"sync_wake", "idle"} /\ (AfterPush = "sync_wake" <=> mcmd = SyncCommand)
      BY CommandFact DEF AfterPush, Typed, TypeOK
    <3>. QED
      BY <1>1, <1>3, <2>2, <3>1
         DEF PushCheckPending, PushWake, SyncWake, Wake, MainGoto, syncVars, Linked, Calls, Quiet,
             Stopping, Allocating, Pushed
  <2>3. CASE StopSetDone \/ StopWake \/ StopJoin
    BY <1>1, <1>3, <2>3
       DEF StopSetDone, StopWake, StopJoin, Wake, syncVars, Linked, Calls, Quiet, Stopping,
           Allocating, Pushed
  <2>. QED
    BY <2>1, <2>2, <2>3
<1>. QED
  BY <1>1, <1>3, <1>4, <1>5, <1>6, Stutters DEF Linked

\* A new back end.
LEMMA FreshLinked ==
  Typed /\ Fresh /\ mop = "none" =>
    /\ Linked /\ Unexecuted = <<>> /\ Phase = "open"
<1>. SUFFICES ASSUME Typed, Fresh, mop = "none"
              PROVE  Linked /\ Unexecuted = <<>> /\ Phase = "open"
  OBVIOUS
<1>1. (\A o \in Offsets : fifo[o] = NoCommand) /\ Position = writePtr
  BY DEF Fresh, Position
<1>2. Chained /\ Draws = {} /\ Unexecuted = <<>>
  BY <1>1, EmptyRing
<1>3. Filled /\ Quiet /\ Calls /\ Phase = "open"
  BY <1>2, CommandFact DEF Fresh, Filled, Quiet, Calls, Phase, Stopping
<1>. QED
  BY <1>2, <1>3 DEF Linked

\* The old back end's commands are left behind, and the new one starts afresh.
LEMMA RecreateStep ==
  ASSUME Typed, Typed', Linked, Recreate
  PROVE  Linked' /\ StreamStep
<1>1. Fresh' /\ mop' = "none" /\ executed' = NoCommand /\ mpc = "gone"
  BY DEF Recreate, Fresh
<1>2. (Typed /\ Fresh /\ mop = "none")' => (Linked /\ Unexecuted = <<>> /\ Phase = "open")'
  BY FreshLinked, PTL
<1>3. Phase = "closing"
  BY <1>1 DEF Linked, Calls, Phase
<1>4. StreamStep
  BY <1>1, <1>2, <1>3 DEF StreamStep, Stream!StreamNext, Stream!Reopen
<1>. QED
  BY <1>1, <1>2, <1>4

\* The GPU thread takes a command: a drawing command takes effect.
LEMMA TakeStep ==
  ASSUME Typed, Typed', Ring, Linked, HandleCommand \/ SignalSync \/ WrapBatch
  PROVE  Linked' /\ StreamStep
<1>1. PICK type \in {"draw", "sync", "wraparound"} :
        /\ InBatch(type) /\ gread' = Successor(fifo, gread)
        /\ IF type = "draw" THEN executed' = Current ELSE executed' = executed
  BY DEF HandleCommand, SignalSync, WrapBatch, InBatch, Current, Successor, syncVars
<1>2. /\ Forget(gread)
      /\ UNCHANGED <<readPtr, writePtr, useThread, mpc, mcmd, mop, gpc>>
  BY DEF HandleCommand, SignalSync, WrapBatch, syncVars, mainVars
<1>3. /\ Chained' /\ Draws' \in SUBSET Draws
      /\ type = "draw" => Headed(Unexecuted, Current, Unexecuted')
      /\ type # "draw" => Unexecuted' = Unexecuted
  BY <1>1, <1>2, Taken DEF Linked
<1>4. Phase' = Phase
  BY <1>2, SamePhase
<1>5. Calls' /\ Quiet'
  BY <1>2, <1>3 DEF Linked, Calls, Quiet
<1>6. Filled'
  <2>1. gread # writePtr
    BY <1>1, PositionFact DEF InBatch
  <2>2. fifo'[writePtr] = fifo[writePtr]
    BY <1>2, <2>1, Numbers DEF Forget, Typed, TypeOK
  <2>. QED
    BY <1>2, <2>2 DEF Linked, Filled
<1>7. StreamStep
  <2>1. CASE type = "draw"
    BY <1>1, <1>3, <1>4, <2>1 DEF StreamStep, Stream!StreamNext, Stream!Execute, Headed
  <2>2. CASE type # "draw"
    BY <1>1, <1>3, <1>4, <2>2, Stutters
  <2>. QED
    BY <2>1, <2>2
<1>. QED
  BY <1>3, <1>5, <1>6, <1>7 DEF Linked

\* A batch begins or ends, the GPU thread falls asleep and wakes up, or nothing happens.
LEMMA OtherStep ==
  ASSUME Typed, Typed', Linked,
         \/ BeginBatch \/ EndBatch
         \/ StopSpinning \/ LockToSleep \/ FallAsleep \/ StayAwake \/ Relock \/ LoopOrExit
         \/ SpuriousWakeup \/ UNCHANGED vars
  PROVE  Linked' /\ StreamStep
<1>1. UNCHANGED <<fifo, writePtr, useThread, executed, mpc, mcmd, mop>>
  BY DEF BeginBatch, EndBatch, StopSpinning, LockToSleep, FallAsleep, StayAwake, Relock,
         LoopOrExit, SpuriousWakeup, GPUGoto, vars, ringVars, syncVars, mainVars
<1>2. Position' = Position
  BY DEF BeginBatch, EndBatch, StopSpinning, LockToSleep, FallAsleep, StayAwake, Relock,
         LoopOrExit, SpuriousWakeup, GPUGoto, vars, ringVars, gpuVars, Position
<1>3. Chained' /\ Draws' = Draws /\ Unexecuted' = Unexecuted
  BY <1>1, <1>2, CalmRing DEF Linked, Calm
<1>4. Calls' /\ Quiet' /\ Filled' /\ Phase' = Phase
  BY <1>1, <1>3, SamePhase DEF Linked, Calls, Quiet, Filled
<1>. QED
  BY <1>1, <1>3, <1>4, Stutters DEF Linked

\* Every step is one of the stream or none, and keeps the chain.
LEMMA LinkedNext ==
  ASSUME RoomForTwo, Typed, Ring, Linked, [Next]_vars
  PROVE  Linked' /\ StreamStep
<1>1. Typed'
  BY TypedNext
<1>2. CASE MainCall
  BY <1>1, <1>2, CallStep
<1>3. CASE MainStep
  BY <1>1, <1>3, WriteStep, DummyStep, AbandonStep, NonThreadedStep, PushStep, WaitStep, ResetStep,
     OtherMainStep, RecreateStep DEF MainStep
<1>4. CASE GPUStep \/ SpuriousWakeup \/ UNCHANGED vars
  BY <1>1, <1>4, TakeStep, OtherStep DEF GPUStep
<1>. QED
  BY <1>2, <1>3, <1>4 DEF Next

-----------------------------------------------------------------------------
(* The theorems.                                                           *)

THEOREM InitInvariant == Init => Invariant
<1>. HAVE Init
<1>1. Typed
  BY InitTyped
<1>2. RoomForTwo => Ring
  BY NewRing DEF Init, Fresh
<1>. QED
  BY <1>1, <1>2 DEF Invariant

THEOREM Invariance == Spec => []Invariant
<1>1. Invariant /\ [Next]_vars => Invariant'
  BY TypedNext, RingNextStep DEF Invariant, RoomForTwo
<1>. QED
  BY <1>1, InitInvariant, PTL DEF Spec

\* The pointers stay at offsets at which commands may start, and the commands within the ring.
THEOREM TypeCorrect == Spec => []TypeOK
<1>1. Invariant => TypeOK
  BY DEF Invariant, Typed
<1>. QED
  BY <1>1, Invariance, PTL

\* m_sync_event is only ever signalled for the Sync that waits, if what is pushed between two
\* Syncs fills less than half of the ring.
THEOREM SignalsReachTheirSync ==
  ASSUME RoomForTwo
  PROVE  Spec => []SignalIsForThisSync
<1>1. Invariant => SignalIsForThisSync
  BY DEF Invariant, Ring
<1>. QED
  BY <1>1, Invariance, PTL

\* Under the same condition the header of a dummy command is never written past the end.
THEOREM DummiesInBounds ==
  ASSUME RoomForTwo
  PROVE  Spec => []DummyInBounds
<1>1. Invariant => DummyInBounds
  BY Numbers DEF Invariant, Ring, Room, Held, DummyInBounds
<1>. QED
  BY <1>1, Invariance, PTL

\* PushCommand does not leave the GPU thread asleep over THRESHOLD_TO_WAKE_GPU bytes, although
\* it measures the backlog without the mutex.
THEOREM NoSleepOverABacklog == Spec => NoSleepOverThreshold
<1>1. ASSUME Typed, [Next]_vars, mpc = "pushed" \/ mpc = "wake", mpc' = "idle"
      PROVE  gpc' # "asleep" \/ Pending' < WakeThreshold
  <2>1. PushCheckPending \/ PushWake
    BY <1>1
       DEF Next, MainCall, MainStep, GPUStep, vars, ringVars, syncVars, mainVars, gpuVars,
           NewCommand, Sync, StartGPUThread, Shutdown, AllocateCommand, AllocateFull, AllocateDummy,
           FullWake, FullReload, FullAllocate, AbandonCommand, PushNonThreaded, PushCommand,
           SyncWake, SyncWait, SyncReset, StopSetDone, StopWake, StopJoin, Recreate, Wake,
           BeginBatch, StopSpinning, LockToSleep, FallAsleep, StayAwake, Relock, LoopOrExit,
           WrapBatch, SignalSync, HandleCommand, EndBatch, SpuriousWakeup, GPUGoto
  <2>2. CASE PushCheckPending
    <3>1. ~ReachesThreshold /\ UNCHANGED <<readPtr, writePtr>>
      BY <1>1, <2>2 DEF PushCheckPending, MainGoto, ringVars
    <3>2. Pending' = Pending /\ Pending \in Int
      BY <3>1, Numbers, <1>1 DEF Pending
    <3>. QED
      BY <3>1, <3>2, QueueAssumption DEF ReachesThreshold
  <2>3. CASE PushWake
    BY <1>1, <2>3 DEF PushWake, Wake, WakeGPUThread, Typed, SleepsAsTold
  <2>. QED
    BY <2>1, <2>2, <2>3
<1>2. Invariant /\ [Next]_vars =>
        [(mpc = "pushed" \/ mpc = "wake") /\ mpc' = "idle"
           => gpc' # "asleep" \/ Pending' < WakeThreshold]_vars
  BY <1>1 DEF Invariant
<1>. QED
  BY <1>2, Invariance, PTL DEF Spec, NoSleepOverThreshold

\* The ring is the stream its callers rely on, if what is pushed between two Syncs fills less than
\* half of it: every drawing command takes effect once and in order, none is written over or
\* passed over where the ring wraps around, and Sync returns only when all of them have.
THEOREM QueueIsStream ==
  ASSUME RoomForTwo
  PROVE  Spec => ImplementsStream
<1> DEFINE All == Typed /\ Ring /\ Linked
<1>1. Init => All /\ Stream!StreamInit
  <2>. SUFFICES ASSUME Init PROVE All /\ Stream!StreamInit
    OBVIOUS
  <2>1. Typed /\ Ring
    BY InitInvariant DEF Invariant
  <2>2. Fresh /\ mop = "none" /\ executed = NoCommand
    BY DEF Init, Fresh
  <2>. QED
    BY <2>1, <2>2, FreshLinked DEF Stream!StreamInit
<1>2. All /\ [Next]_vars => All' /\ [Stream!StreamNext]_(Stream!streamVars)
  BY TypedNext, RingNextStep, LinkedNext DEF StreamStep
<1>. HIDE DEF All
<1>. QED
  BY <1>1, <1>2, PTL DEF Spec, ImplementsStream, Stream!StreamSpec
=============================================================================
